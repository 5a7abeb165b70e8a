-------------------------- MODULE LoopHoisting_proofs --------------------------
(***************************************************************************)
(* Proofs about LoopHoisting: for any loop tree, every set of loops keeps  *)
(* a header to put its counter before, every block of a loop is claimed    *)
(* before the shared counters are placed, no block is given two counters,  *)
(* and hoisted counters are exact unless a trip count wraps.               *)
(***************************************************************************)
EXTENDS LoopHoisting, FiniteSetTheorems, WellFoundedInduction, TLAPS

VarTypes ==
  /\ loops \in LoopFacts
  /\ stage \in {"color", "sets", "dynamic", "rest", "done"}
  /\ SetColor \in [Loops -> Nat]
  /\ LOOP_SF_SET \in Nat \ {0}
  /\ \A l \in Loops : SetColor[l] < LOOP_SF_SET
  /\ set \in Nat /\ set < LOOP_SF_SET
  /\ agenda \subseteq Loops \X Nat
  /\ dynamic \subseteq Loops
  /\ pragmaBlocks \subseteq Blocks
  /\ counter \in [Blocks -> [before : Nat, scale : Nat]]

(* A block leaves the pool when it gets its counter, and not before, unless*)
(* its loop's trip count is lost.                                          *)
PoolAndCounters ==
  /\ \A b \in Blocks : Counted(b) => b \notin pragmaBlocks
  /\ \A b \in Blocks : \/ b \in pragmaBlocks
                       \/ Counted(b)
                       \/ b[1] # 0 /\ loops[b[1]].loses
  /\ stage = "done" => pragmaBlocks = {}

(* The loops in sets are those of constant trip count, and a set is        *)
(* connected: its loops hang together below its header.                    *)
SetsAreTrees ==
  /\ SetsHaveHeaders
  /\ \A l \in Loops : SetColor[l] # 0 =>
       /\ ScaleFactor(l) # 0
       /\ l = SetHeader(SetColor[l]) \/ HasParentInSet(l)
  /\ stage \in {"sets", "dynamic"} =>
       \A l \in Loops : SetColor[l] = 0 => ScaleFactor(l) = 0

Claimed(l) == <<l, "every">> \notin pragmaBlocks /\ <<l, "some">> \notin pragmaBlocks

OnAgenda(l) == \E v \in agenda : v[1] = l

(* Before the sets are visited nothing has happened.                       *)
Fresh ==
  /\ stage = "color" => set = 0 /\ LOOP_SF_SET = 1 /\ ApplyLoopHoisting
  /\ stage \in {"color", "sets"} => dynamic = Loops
  /\ set = 0 \/ stage \notin {"color", "sets"} => agenda = {}
  /\ \A l \in Loops : stage = "color" => SetColor[l] = 0 /\ ~Claimed(l)

(* Sets are claimed in order.  In the set being visited, what is not       *)
(* claimed is on the agenda, or hangs below something that is not claimed; *)
(* and what is on the agenda hangs below what has just been claimed.       *)
SetsInOrder ==
  stage = "sets" =>
    \A l \in Loops :
      /\ SetColor[l] # 0 /\ SetColor[l] < set => Claimed(l)
      /\ SetColor[l] > set => ~Claimed(l)
      /\ SetColor[l] = set /\ set # 0 =>
           /\ \/ Claimed(l)
              \/ OnAgenda(l)
              \/ HasParentInSet(l) /\ ~Claimed(Parent(l))
           /\ OnAgenda(l) => /\ ~Claimed(l)
                             /\ HasParentInSet(l) => Claimed(Parent(l))
           /\ HasParentInSet(l) /\ ~Claimed(Parent(l)) => ~Claimed(l)
           /\ \A v, w \in agenda : v[1] = l /\ w[1] = l => v = w

(* Then come the loops that are in no set.                                 *)
ThenTheOthers ==
  /\ stage = "dynamic" =>
       \A l \in Loops : SetColor[l] # 0 \/ l \notin dynamic => Claimed(l)
  /\ stage = "rest" /\ ApplyLoopHoisting => \A l \in Loops : Claimed(l)

IInv ==
  /\ VarTypes
  /\ PoolAndCounters
  /\ SetsAreTrees
  /\ Fresh
  /\ SetsInOrder
  /\ ThenTheOthers

(* Every printed trip count reads back as itself, and no product of nested *)
(* trip counts is too large for a counter's scale.                         *)
CountsFit ==
  \A l \in Loops :
    /\ loops[l].scev = "constant" => Reread(loops[l].btc) = loops[l].btc
    /\ \A a \in Loops : RunsPerEntry(l, a) < 2^CounterBits

(* The scale a loop on the agenda is handed is how often its parent runs   *)
(* for one entry of the set.                                               *)
OuterScales ==
  /\ CountersExact
  /\ \A v \in agenda :
       SetColor[v[1]] = set /\ HasParentInSet(v[1]) =>
         v[2] = RunsPerEntry(Parent(v[1]), SetHeader(set))

-----------------------------------------------------------------------------
(* Arithmetic.                                                             *)

LEMMA Wraps ==
  ASSUME NEW m \in Nat \ {0}, NEW a \in Int
  PROVE  /\ a % m \in Nat
         /\ 0 <= a /\ a < m => a % m = a
OBVIOUS

LEMMA MinIsLeast ==
  ASSUME NEW S, S \subseteq Nat, S # {}
  PROVE  Min(S) \in S /\ \A x \in S : Min(S) <= x
<1>1. PICK m \in S : \A x \in S : <<x, m>> \notin OpToRel(<, Nat)
  BY NatLessThanWellFounded, WFMin
<1>2. ASSUME NEW x \in S PROVE m <= x
  <2>1. m \in Nat /\ x \in Nat
    OBVIOUS
  <2>2. <<x, m>> \notin OpToRel(<, Nat)
    BY <1>1
  <2>3. ~ x < m
    BY <2>1, <2>2 DEF OpToRel
  <2>4. QED
    BY <2>1, <2>3
<1>3. QED
  BY <1>2 DEF Min

-----------------------------------------------------------------------------
(* The loops.                                                              *)

LEMMA Moduli ==
  /\ 2^CounterBits \in Nat \ {0}
  /\ 2^IndexBits \in Nat \ {0}
  /\ 2^(IndexBits - 1) \in Nat \ {0}
BY LoopAssumption

LEMMA BtcsAreNat == BTCs \subseteq Nat
BY LoopAssumption

LEMMA RereadIsNat == \A btc \in Nat : Reread(btc) \in Nat
<1> SUFFICES ASSUME NEW btc \in Nat PROVE Reread(btc) \in Nat
  OBVIOUS
<1> DEFINE a == IF btc < 2^(IndexBits - 1) THEN btc ELSE btc - 2^IndexBits
<1>1. a \in Int
  BY Moduli
<1> HIDE DEF a
<1>2. a % 2^CounterBits \in Nat
  BY <1>1, Moduli, Wraps
<1>3. QED
  BY <1>2 DEF Reread, a

LEMMA FactsOf ==
  ASSUME loops \in LoopFacts, NEW l \in Loops
  PROVE  /\ l \in Nat \ {0}
         /\ Parent(l) \in Nat
         /\ Parent(l) < l
         /\ Parent(l) # 0 => Parent(l) \in Loops
         /\ Parent(l) = 0 => ~loops[l].always
         /\ loops[l].scev # "invariant" => ~loops[l].loses
         /\ loops[l].loses \in BOOLEAN
         /\ loops[l].always \in BOOLEAN
         /\ loops[l].scev \in {"constant", "invariant", "none"}
         /\ loops[l].btc \in Nat
         /\ ScaleFactor(l) \in Nat
         /\ ScaleFactor(l) # 0 <=> loops[l].scev = "constant"
<1>1. /\ loops[l] \in [parent : 0 .. LoopCount, scev : {"constant", "invariant", "none"},
                       btc : BTCs, always : BOOLEAN, loses : BOOLEAN]
      /\ loops[l].parent < l
      /\ loops[l].parent = 0 => ~loops[l].always
      /\ loops[l].scev # "invariant" => ~loops[l].loses
  BY DEF LoopFacts
<1>2. l \in Nat \ {0} /\ LoopCount \in Nat
  BY LoopAssumption DEF Loops
<1>3. loops[l].btc \in Nat
  BY <1>1, BtcsAreNat
<1>4. Reread(loops[l].btc) \in Nat
  BY <1>3, RereadIsNat
<1>5. Parent(l) \in Nat /\ Parent(l) < l /\ (Parent(l) # 0 => Parent(l) \in Loops)
  BY <1>1, <1>2 DEF Parent, Loops
<1>6. ScaleFactor(l) \in Nat /\ (ScaleFactor(l) # 0 <=> loops[l].scev = "constant")
  BY <1>4 DEF ScaleFactor
<1>7. QED
  BY <1>1, <1>2, <1>3, <1>5, <1>6 DEF Parent

LEMMA LoopsFinite == IsFiniteSet(Loops) /\ Loops \subseteq Nat
BY LoopAssumption, FS_Interval DEF Loops

(* The smallest loop with a property.                                      *)
LEMMA OutermostLoop ==
  ASSUME NEW S, S \subseteq Loops, S # {}
  PROVE  Min(S) \in S /\ Min(S) \in Loops /\ \A l \in S : Min(S) <= l
BY MinIsLeast, LoopsFinite

-----------------------------------------------------------------------------
(* The recursive functions of the model have values.                       *)

LEMMA ParentsBelow ==
  ASSUME loops \in LoopFacts
  PROVE  /\ LoopCount \in Nat
         /\ Loops = 1 .. LoopCount
         /\ \A l \in Loops : Parent(l) \in Nat /\ Parent(l) < l
BY FactsOf, LoopAssumption DEF Loops

(* step[l][v] is the value of loop l when its parent's is v.               *)
Steps(V) == [Loops -> [V -> V]]

IsSolution(f, step, v0) ==
  \A l \in Loops : f[l] = step[l][IF Parent(l) = 0 THEN v0 ELSE f[Parent(l)]]

HasSolution(V, v0, step) == \E f \in [Loops -> V] : IsSolution(f, step, v0)

(* A function that each loop's value is computed from its parent's exists. *)
LEMMA ParentRecursion ==
  ASSUME loops \in LoopFacts, NEW V, NEW v0 \in V, NEW step \in Steps(V)
  PROVE  HasSolution(V, v0, step)
<1> USE DEF Steps, IsSolution, HasSolution
<1> DEFINE n == LoopCount
<1> USE ParentsBelow
<1> DEFINE Solves(f, k) == \A l \in 1 .. k : f[l] = step[l][IF Parent(l) = 0 THEN v0 ELSE f[Parent(l)]]
           Unsolved == {k \in 0 .. n : ~ \E f \in [1 .. k -> V] : Solves(f, k)}
<1>1. SUFFICES ASSUME Unsolved # {} PROVE FALSE
  <2>1. n \in 0 .. n
    OBVIOUS
  <2>2. PICK f \in [1 .. n -> V] : Solves(f, n)
    BY <1>1, <2>1
  <2>3. 1 .. n = Loops
    OBVIOUS
  <2> HIDE DEF n
  <2>4. QED
    BY <2>2, <2>3
<1>2. PICK k \in Unsolved : \A x \in Unsolved : <<x, k>> \notin OpToRel(<, Nat)
  <2>1. Unsolved \subseteq Nat
    OBVIOUS
  <2>2. QED
    BY <1>1, <2>1, NatLessThanWellFounded, WFMin
<1>3. k \in 0 .. n /\ ~ \E f \in [1 .. k -> V] : Solves(f, k)
  OBVIOUS
<1>4. k # 0
  <2>1. [l \in 1 .. 0 |-> v0] \in [1 .. 0 -> V] /\ Solves([l \in 1 .. 0 |-> v0], 0)
    OBVIOUS
  <2>2. QED
    BY <1>3, <2>1
<1>5. k - 1 \in 0 .. n /\ k - 1 \notin Unsolved
  <2>1. k - 1 \in 0 .. n /\ k - 1 < k /\ k - 1 \in Nat /\ k \in Nat
    BY <1>3, <1>4
  <2>2. <<k - 1, k>> \in OpToRel(<, Nat)
    BY <2>1 DEF OpToRel
  <2>3. QED
    BY <1>2, <2>1, <2>2
<1>6. PICK f \in [1 .. k - 1 -> V] : Solves(f, k - 1)
  BY <1>5
<1> DEFINE last == step[k][IF Parent(k) = 0 THEN v0 ELSE f[Parent(k)]]
           g == [l \in 1 .. k |-> IF l = k THEN last ELSE f[l]]
<1>7. k \in 1 .. n /\ Parent(k) \in Nat /\ Parent(k) < k
  BY <1>3, <1>4
<1>8. last \in V
  BY <1>7
<1>9. g \in [1 .. k -> V]
  BY <1>7, <1>8
<1>10. Solves(g, k)
  <2> SUFFICES ASSUME NEW l \in 1 .. k
               PROVE  g[l] = step[l][IF Parent(l) = 0 THEN v0 ELSE g[Parent(l)]]
    OBVIOUS
  <2>1. l \in 1 .. n /\ Parent(l) \in Nat /\ Parent(l) < l
    BY <1>7
  <2>2. Parent(l) # 0 => Parent(l) \in 1 .. k - 1 /\ g[Parent(l)] = f[Parent(l)]
    BY <1>7, <2>1
  <2>3. CASE l = k
    BY <2>2, <2>3
  <2>4. CASE l # k
    BY <1>6, <1>7, <2>2, <2>4
  <2>5. QED
    BY <2>3, <2>4
<1>11. QED
  BY <1>3, <1>9, <1>10

LEMMA ColorIs ==
  ASSUME loops \in LoopFacts
  PROVE  /\ color = [l \in Loops |-> color[l]]
         /\ \A l \in Loops :
              color[l] = IF ScaleFactor(l) = 0 THEN 0
                         ELSE IF l \in Roots THEN Cardinality({k \in Roots : k <= l})
                         ELSE color[Parent(l)]
<1> DEFINE rank(l) == Cardinality({k \in Roots : k <= l})
           step == [l \in Loops |-> [v \in Nat |->
                      IF ScaleFactor(l) = 0 THEN 0 ELSE IF l \in Roots THEN rank(l) ELSE v]]
<1>1. \A l \in Loops : rank(l) \in Nat
  <2> SUFFICES ASSUME NEW l \in Loops PROVE rank(l) \in Nat
    OBVIOUS
  <2>1. IsFiniteSet({k \in Roots : k <= l})
    <3>1. {k \in Roots : k <= l} \subseteq Loops
      BY DEF Roots
    <3>2. QED
      BY <3>1, LoopsFinite, FS_Subset
  <2>2. QED
    BY <2>1, FS_CardinalityType
<1> HIDE DEF rank
<1>2. step \in Steps(Nat)
  BY <1>1 DEF Steps
<1>3. PICK f \in [Loops -> Nat] :
        \A l \in Loops : f[l] = step[l][IF Parent(l) = 0 THEN 0 ELSE f[Parent(l)]]
  <2>1. 0 \in Nat
    OBVIOUS
  <2> HIDE DEF step
  <2>2. HasSolution(Nat, 0, step)
    BY <1>2, <2>1, ParentRecursion
  <2>3. QED
    BY <2>2 DEF HasSolution, IsSolution
<1>4. \A l \in Loops :
        f[l] = IF ScaleFactor(l) = 0 THEN 0 ELSE IF l \in Roots THEN rank(l) ELSE f[Parent(l)]
  <2> SUFFICES ASSUME NEW l \in Loops
               PROVE  f[l] = IF ScaleFactor(l) = 0 THEN 0
                             ELSE IF l \in Roots THEN rank(l) ELSE f[Parent(l)]
    OBVIOUS
  <2>1. Parent(l) = 0 /\ ScaleFactor(l) # 0 => l \in Roots
    BY DEF Roots
  <2>2. Parent(l) # 0 => f[Parent(l)] \in Nat
    BY FactsOf
  <2>3. f[l] = step[l][IF Parent(l) = 0 THEN 0 ELSE f[Parent(l)]]
    BY <1>3
  <2>4. QED
    BY <2>1, <2>2, <2>3
<1>5. f = [l \in Loops |-> IF ScaleFactor(l) = 0 THEN 0
                           ELSE IF l \in Roots THEN Cardinality({k \in Roots : k <= l})
                           ELSE f[Parent(l)]]
  BY <1>4 DEF rank
<1>6. color = [l \in Loops |-> IF ScaleFactor(l) = 0 THEN 0
                               ELSE IF l \in Roots THEN Cardinality({k \in Roots : k <= l})
                               ELSE color[Parent(l)]]
  BY <1>5 DEF color
<1>7. QED
  BY <1>6

(* What the recursion of recolorSFLoopSet collects.                        *)
Below(l) ==
  CHOOSE below : below = [k \in Loops |->
    k = l \/ (Parent(k) # 0 /\ below[Parent(k)] /\ SetColor[k] = SetColor[l])]

LEMMA BelowIs ==
  ASSUME loops \in LoopFacts, NEW l \in Loops
  PROVE  Below(l) = [k \in Loops |->
           k = l \/ (Parent(k) # 0 /\ Below(l)[Parent(k)] /\ SetColor[k] = SetColor[l])]
<1> DEFINE step == [k \in Loops |-> [v \in BOOLEAN |-> k = l \/ (v /\ SetColor[k] = SetColor[l])]]
<1>1. step \in Steps(BOOLEAN) /\ FALSE \in BOOLEAN
  <2>1. ASSUME NEW k \in Loops, NEW v \in BOOLEAN
        PROVE  (k = l \/ (v /\ SetColor[k] = SetColor[l])) \in BOOLEAN
    OBVIOUS
  <2>2. QED
    BY <2>1 DEF Steps
<1>2. HasSolution(BOOLEAN, FALSE, step)
  <2> HIDE DEF step
  <2>1. QED
    BY <1>1, ParentRecursion
<1>3. PICK f \in [Loops -> BOOLEAN] : IsSolution(f, step, FALSE)
  BY <1>2 DEF HasSolution
<1>4. \A k \in Loops :
        f[k] = (k = l \/ (Parent(k) # 0 /\ f[Parent(k)] /\ SetColor[k] = SetColor[l]))
  <2> SUFFICES ASSUME NEW k \in Loops
               PROVE  f[k] = (k = l \/ (Parent(k) # 0 /\ f[Parent(k)] /\ SetColor[k] = SetColor[l]))
    OBVIOUS
  <2>1. f[k] = step[k][IF Parent(k) = 0 THEN FALSE ELSE f[Parent(k)]]
    BY <1>3 DEF IsSolution
  <2>2. (IF Parent(k) = 0 THEN FALSE ELSE f[Parent(k)]) \in BOOLEAN
    BY FactsOf
  <2>3. QED
    BY <2>1, <2>2
<1>5. f = [k \in Loops |->
             k = l \/ (Parent(k) # 0 /\ f[Parent(k)] /\ SetColor[k] = SetColor[l])]
  BY <1>4
<1>6. QED
  BY <1>5 DEF Below

LEMMA SplitOffIs ==
  ASSUME loops \in LoopFacts, NEW l \in Loops, NEW k \in Loops
  PROVE  k \in SplitOff(l) <=>
           \/ k = l
           \/ /\ Parent(k) # 0
              /\ Parent(k) \in SplitOff(l)
              /\ SetColor[k] = SetColor[l]
<1>1. SplitOff(l) = {i \in Loops : Below(l)[i]}
  BY DEF SplitOff, Below
<1>2. Below(l)[k] <=> (k = l \/ (Parent(k) # 0 /\ Below(l)[Parent(k)] /\ SetColor[k] = SetColor[l]))
  BY BelowIs
<1>3. Parent(k) # 0 => Parent(k) \in Loops
  BY FactsOf
<1>4. QED
  BY <1>1, <1>2, <1>3

LEMMA RunsPerEntryIs ==
  ASSUME loops \in LoopFacts, NEW a \in Loops, NEW l \in Loops
  PROVE  /\ RunsPerEntry(l, a) \in Nat
         /\ RunsPerEntry(l, a) =
              IF l = a THEN loops[l].btc + 1
              ELSE IF Parent(l) = 0 \/ ~loops[l].always THEN 0
              ELSE (loops[l].btc + 1) * RunsPerEntry(Parent(l), a)
<1> DEFINE Runs == CHOOSE runs : runs = [k \in Loops |->
                     IF k = a THEN loops[k].btc + 1
                     ELSE IF Parent(k) = 0 \/ ~loops[k].always THEN 0
                     ELSE (loops[k].btc + 1) * runs[Parent(k)]]
           step == [k \in Loops |-> [v \in Nat |->
                      IF k = a THEN loops[k].btc + 1
                      ELSE IF Parent(k) = 0 \/ ~loops[k].always THEN 0
                      ELSE (loops[k].btc + 1) * v]]
<1>1. step \in Steps(Nat) /\ 0 \in Nat
  <2>1. ASSUME NEW k \in Loops, NEW v \in Nat
        PROVE  /\ loops[k].btc + 1 \in Nat
               /\ (loops[k].btc + 1) * v \in Nat
    <3>1. PICK c \in Nat : c = loops[k].btc + 1
      BY FactsOf
    <3>2. QED
      BY <3>1
  <2>2. QED
    BY <2>1 DEF Steps
<1>2. HasSolution(Nat, 0, step)
  <2> HIDE DEF step
  <2>1. QED
    BY <1>1, ParentRecursion
<1>3. PICK f \in [Loops -> Nat] : IsSolution(f, step, 0)
  BY <1>2 DEF HasSolution
<1>4. \A k \in Loops :
        f[k] = IF k = a THEN loops[k].btc + 1
               ELSE IF Parent(k) = 0 \/ ~loops[k].always THEN 0
               ELSE (loops[k].btc + 1) * f[Parent(k)]
  <2> SUFFICES ASSUME NEW k \in Loops
               PROVE  f[k] = IF k = a THEN loops[k].btc + 1
                             ELSE IF Parent(k) = 0 \/ ~loops[k].always THEN 0
                             ELSE (loops[k].btc + 1) * f[Parent(k)]
    OBVIOUS
  <2>1. f[k] = step[k][IF Parent(k) = 0 THEN 0 ELSE f[Parent(k)]]
    BY <1>3 DEF IsSolution
  <2>2. (IF Parent(k) = 0 THEN 0 ELSE f[Parent(k)]) \in Nat
    BY FactsOf
  <2>3. QED
    BY <2>1, <2>2
<1>5. f = [k \in Loops |->
             IF k = a THEN loops[k].btc + 1
             ELSE IF Parent(k) = 0 \/ ~loops[k].always THEN 0
             ELSE (loops[k].btc + 1) * f[Parent(k)]]
  BY <1>4
<1>6. Runs = [k \in Loops |->
                IF k = a THEN loops[k].btc + 1
                ELSE IF Parent(k) = 0 \/ ~loops[k].always THEN 0
                ELSE (loops[k].btc + 1) * Runs[Parent(k)]]
  BY <1>5
<1>7. \A k \in Loops : RunsPerEntry(k, a) = Runs[k]
  BY DEF RunsPerEntry
<1> HIDE DEF Runs
<1>8. Runs \in [Loops -> Nat]
  <2>1. SUFFICES ASSUME {k \in Loops : Runs[k] \notin Nat} # {} PROVE FALSE
    BY <1>6
  <2>2. PICK k \in Loops : Runs[k] \notin Nat /\ \A i \in Loops : Runs[i] \notin Nat => k <= i
    BY <2>1, OutermostLoop
  <2>3. Runs[k] = IF k = a THEN loops[k].btc + 1
                  ELSE IF Parent(k) = 0 \/ ~loops[k].always THEN 0
                  ELSE (loops[k].btc + 1) * Runs[Parent(k)]
    BY <1>6
  <2>4. Parent(k) # 0 => Runs[Parent(k)] \in Nat
    BY <2>2, FactsOf
  <2>5. PICK c \in Nat : c = loops[k].btc + 1
    BY FactsOf
  <2>6. QED
    BY <2>2, <2>3, <2>4, <2>5
<1>9. Parent(l) # 0 => Parent(l) \in Loops
  BY FactsOf
<1>10. QED
  BY <1>6, <1>7, <1>8, <1>9

-----------------------------------------------------------------------------
(* The first coloring.                                                     *)

RankOf(l) == Cardinality({k \in Roots : k <= l})

LEMMA RootsAreFinite ==
  /\ Roots \subseteq Loops
  /\ IsFiniteSet(Roots)
  /\ Cardinality(Roots) \in Nat
<1>1. Roots \subseteq Loops
  BY DEF Roots
<1>2. QED
  BY <1>1, LoopsFinite, FS_Subset, FS_CardinalityType

LEMMA RanksCount ==
  ASSUME NEW l \in Loops
  PROVE  /\ IsFiniteSet({k \in Roots : k <= l})
         /\ RankOf(l) \in Nat
         /\ RankOf(l) <= Cardinality(Roots)
<1>1. {k \in Roots : k <= l} \in SUBSET Roots
  OBVIOUS
<1>2. QED
  BY <1>1, RootsAreFinite, FS_Subset, FS_CardinalityType DEF RankOf

LEMMA RanksOrdered ==
  ASSUME NEW l \in Roots, NEW k \in Roots, l < k
  PROVE  RankOf(l) < RankOf(k)
<1> DEFINE A == {i \in Roots : i <= l}
           B == {i \in Roots : i <= k}
<1>1. l \in Loops /\ k \in Loops /\ \A i \in Roots : i \in Nat
  BY RootsAreFinite, LoopsFinite
<1>2. A \subseteq B /\ k \in B /\ k \notin A
  BY <1>1
<1>3. /\ IsFiniteSet(B)
      /\ RankOf(l) = Cardinality(A) /\ RankOf(l) \in Nat
      /\ RankOf(k) = Cardinality(B) /\ RankOf(k) \in Nat
  BY <1>1, RanksCount DEF RankOf
<1> HIDE DEF A, B
<1>4. Cardinality(A) <= Cardinality(B) /\ Cardinality(A) # Cardinality(B)
  BY <1>2, <1>3, FS_Subset
<1>5. QED
  BY <1>3, <1>4

LEMMA RanksBound ==
  ASSUME NEW l \in Roots
  PROVE  RankOf(l) \in 1 .. Cardinality(Roots)
<1>1. l \in Loops /\ l \in Nat
  BY RootsAreFinite, LoopsFinite
<1>2. l \in {k \in Roots : k <= l}
  BY <1>1
<1>3. RankOf(l) # 0
  BY <1>1, <1>2, RanksCount, FS_EmptySet DEF RankOf
<1>4. RankOf(l) \in Nat /\ RankOf(l) <= Cardinality(Roots)
  BY <1>1, RanksCount
<1>5. QED
  BY <1>3, <1>4, RootsAreFinite

LEMMA RanksAreDense ==
  ASSUME NEW j \in 1 .. Cardinality(Roots)
  PROVE  \E l \in Roots : RankOf(l) = j
<1> DEFINE S == 1 .. Cardinality(Roots)
           f == [l \in Roots |-> RankOf(l)]
<1>1. f \in [Roots -> S]
  BY RanksBound
<1>2. ASSUME NEW a \in Roots, NEW b \in Roots, f[a] = f[b] PROVE a = b
  <2>1. RankOf(a) = RankOf(b) /\ RankOf(a) \in Nat /\ a \in Nat /\ b \in Nat
    BY <1>2, RanksBound, RootsAreFinite, LoopsFinite
  <2>2. ~ a < b /\ ~ b < a
    BY <2>1, RanksOrdered
  <2>3. QED
    BY <2>1, <2>2
<1>3. f \in Injection(Roots, S)
  BY <1>1, <1>2 DEF Injection, IsInjective
<1>4. IsFiniteSet(S) /\ Cardinality(S) = Cardinality(Roots)
  BY RootsAreFinite, FS_Interval
<1> HIDE DEF f, S
<1>5. f \in Surjection(Roots, S)
  BY <1>3, <1>4, FS_Injection
<1>6. PICK l \in Roots : f[l] = j
  BY <1>5 DEF Surjection, S
<1>7. QED
  BY <1>6 DEF f

(* The colors of the loops: those of constant trip count get one, a root   *)
(* that of its rank, and the others their parent's.                        *)
LEMMA Colors ==
  ASSUME loops \in LoopFacts
  PROVE  /\ color \in [Loops -> Nat]
         /\ \A l \in Loops :
              /\ color[l] <= Cardinality(Roots)
              /\ color[l] = 0 <=> ScaleFactor(l) = 0
              /\ l \in Roots => color[l] = RankOf(l)
              /\ color[l] # 0 /\ l \notin Roots =>
                   Parent(l) # 0 /\ Parent(l) \in Loops /\ color[Parent(l)] = color[l]
              /\ color[l] # 0 => \E r \in Roots : r <= l /\ color[l] = RankOf(r)
<1>1. /\ color = [l \in Loops |-> color[l]]
      /\ \A l \in Loops :
           color[l] = IF ScaleFactor(l) = 0 THEN 0
                      ELSE IF l \in Roots THEN RankOf(l) ELSE color[Parent(l)]
  <2>1. \A l \in Loops : color[l] = IF ScaleFactor(l) = 0 THEN 0
                      ELSE IF l \in Roots THEN RankOf(l) ELSE color[Parent(l)]
    BY ColorIs DEF RankOf
  <2>2. QED
    BY <2>1, ColorIs
<1> DEFINE Good(l) == /\ color[l] \in Nat
                      /\ color[l] <= Cardinality(Roots)
                      /\ ScaleFactor(l) # 0 => color[l] # 0
                      /\ color[l] # 0 => \E r \in Roots : r <= l /\ color[l] = RankOf(r)
<1>2. \A l \in Loops : Good(l)
  <2>1. SUFFICES ASSUME {l \in Loops : ~Good(l)} # {} PROVE FALSE
    OBVIOUS
  <2>2. PICK l \in Loops : ~Good(l) /\ \A i \in Loops : ~Good(i) => l <= i
    <3> DEFINE S == {l \in Loops : ~Good(l)}
    <3>1. S \subseteq Loops /\ S # {}
      BY <2>1
    <3>2. Min(S) \in S /\ Min(S) \in Loops /\ \A i \in S : Min(S) <= i
      <4> HIDE DEF S
      <4>1. QED
        BY <3>1, OutermostLoop
    <3>3. QED
      BY <3>2
  <2>3. l \in Nat /\ Parent(l) < l /\ Parent(l) \in Nat /\ (Parent(l) # 0 => Parent(l) \in Loops)
    BY FactsOf
  <2>4. CASE ScaleFactor(l) = 0
    BY <1>1, <2>2, <2>4, RootsAreFinite
  <2>5. CASE ScaleFactor(l) # 0 /\ l \in Roots
    <3>1. RankOf(l) \in 1 .. Cardinality(Roots)
      BY <2>5, RanksBound
    <3>2. QED
      BY <1>1, <2>2, <2>3, <2>5, <3>1
  <2>6. CASE ScaleFactor(l) # 0 /\ l \notin Roots
    <3>1. Parent(l) \in Loops /\ ScaleFactor(Parent(l)) # 0
      BY <2>3, <2>6 DEF Roots
    <3>2. Good(Parent(l))
      BY <2>2, <2>3, <3>1
    <3>3. color[l] = color[Parent(l)]
      BY <1>1, <2>6
    <3>4. color[l] # 0 => \E r \in Roots : r <= l /\ color[l] = RankOf(r)
      <4> SUFFICES ASSUME color[l] # 0 PROVE \E r \in Roots : r <= l /\ color[l] = RankOf(r)
        OBVIOUS
      <4>1. PICK r \in Roots : r <= Parent(l) /\ color[l] = RankOf(r)
        BY <3>2, <3>3
      <4>2. r \in Nat
        BY RootsAreFinite, LoopsFinite
      <4>3. QED
        BY <2>3, <4>1, <4>2
    <3>5. /\ color[l] \in Nat
          /\ color[l] <= Cardinality(Roots)
          /\ ScaleFactor(l) # 0 => color[l] # 0
      BY <3>1, <3>2, <3>3
    <3>6. QED
      BY <2>2, <3>4, <3>5
  <2>7. QED
    BY <2>4, <2>5, <2>6
<1>3. \A l \in Loops : ScaleFactor(l) # 0 /\ l \notin Roots => Parent(l) # 0 /\ Parent(l) \in Loops
  BY FactsOf DEF Roots
<1>4. \A l \in Roots : ScaleFactor(l) # 0 /\ l \in Loops
  BY DEF Roots
<1>5. color \in [Loops -> Nat]
  BY <1>1, <1>2
<1>6. QED
  BY <1>1, <1>2, <1>3, <1>4, <1>5

-----------------------------------------------------------------------------
(* The invariant.                                                          *)

LEMMA Header ==
  ASSUME VarTypes, SetsHaveHeaders, NEW j \in Nat, j # 0, j < LOOP_SF_SET
  PROVE  /\ SetHeader(j) \in Loops
         /\ SetHeader(j) \in Nat \ {0}
         /\ SetColor[SetHeader(j)] = j
         /\ \A l \in Loops : SetColor[l] = j => SetHeader(j) <= l
<1>1. InSet(j) \subseteq Loops /\ InSet(j) # {}
  BY DEF VarTypes, SetsHaveHeaders, InSet
<1>2. Min(InSet(j)) \in InSet(j) /\ Min(InSet(j)) \in Loops /\ \A l \in InSet(j) : Min(InSet(j)) <= l
  BY <1>1, OutermostLoop
<1>3. \A l \in Loops : l \in Nat \ {0}
  BY LoopAssumption DEF Loops
<1>4. QED
  BY <1>2, <1>3 DEF SetHeader, InSet

LEMMA InitEstablishes == Init => IInv
<1> SUFFICES ASSUME Init PROVE IInv
  OBVIOUS
<1>1. VarTypes
  BY LoopAssumption DEF Init, VarTypes, NoCounter
<1>2. PoolAndCounters
  BY LoopAssumption DEF Init, PoolAndCounters, Counted
<1>3. SetsAreTrees
  BY LoopAssumption DEF Init, SetsAreTrees, SetsHaveHeaders
<1>4. Fresh
  BY LoopAssumption DEF Init, Fresh, Claimed, Blocks
<1>5. SetsInOrder
  BY LoopAssumption DEF Init, SetsInOrder
<1>6. ThenTheOthers
  BY LoopAssumption DEF Init, ThenTheOthers
<1>7. QED
  BY <1>1, <1>2, <1>3, <1>4, <1>5, <1>6 DEF IInv

LEMMA StutterKeeps == IInv /\ UNCHANGED vars => IInv'
<1> SUFFICES ASSUME IInv, UNCHANGED vars PROVE IInv'
  OBVIOUS
<1> USE DEF vars
<1>1. VarTypes'
  BY DEF IInv, VarTypes
<1>2. PoolAndCounters'
  BY DEF IInv, PoolAndCounters, Counted
<1>3. SetsAreTrees'
  BY DEF IInv, SetsAreTrees, SetsHaveHeaders, InSet, SetHeader, HasParentInSet, ScaleFactor, Reread, Parent
<1>4. Fresh'
  BY DEF IInv, Fresh, Claimed
<1>5. SetsInOrder'
  BY DEF IInv, SetsInOrder, Claimed, OnAgenda, HasParentInSet, Parent
<1>6. ThenTheOthers'
  BY DEF IInv, ThenTheOthers, Claimed
<1>7. QED
  BY <1>1, <1>2, <1>3, <1>4, <1>5, <1>6 DEF IInv

(* What reads only loops and SetColor stays when they stay.                *)
LEMMA SameSets ==
  ASSUME UNCHANGED <<loops, SetColor>>
  PROVE  \A l : /\ Parent(l)' = Parent(l)
                /\ ScaleFactor(l)' = ScaleFactor(l)
                /\ HasParentInSet(l)' <=> HasParentInSet(l)
                /\ SetHeader(l)' = SetHeader(l)
                /\ InSet(l)' = InSet(l)
BY DEF Parent, ScaleFactor, Reread, HasParentInSet, SetHeader, InSet

LEMMA SameTrees ==
  ASSUME SetsAreTrees, UNCHANGED <<loops, SetColor, LOOP_SF_SET>>,
         stage' \in {"sets", "dynamic"} => stage \in {"sets", "dynamic"}
  PROVE  SetsAreTrees'
BY SameSets DEF SetsAreTrees, SetsHaveHeaders

LEMMA ColoringKeeps == IInv /\ colorLoopTreeSF => IInv'
<1> SUFFICES ASSUME IInv, colorLoopTreeSF PROVE IInv'
  OBVIOUS
<1> USE DEF IInv, colorLoopTreeSF
<1>1. loops \in LoopFacts
  BY DEF VarTypes
<1>2. /\ color \in [Loops -> Nat]
      /\ Cardinality(Roots) \in Nat
      /\ \A l \in Loops : color[l] <= Cardinality(Roots)
  BY <1>1, Colors, RootsAreFinite
<1>3. VarTypes'
  BY <1>2 DEF VarTypes, Fresh
<1>4. PoolAndCounters'
  BY DEF PoolAndCounters, Counted
<1>5. SetsAreTrees'
  <2>1. \A l : Parent(l)' = Parent(l) /\ ScaleFactor(l)' = ScaleFactor(l)
    BY DEF Parent, ScaleFactor, Reread
  <2>2. SetsHaveHeaders'
    <3> SUFFICES ASSUME NEW j \in 1 .. Cardinality(Roots) PROVE \E l \in Loops : color[l] = j
      BY <1>2 DEF SetsHaveHeaders, InSet
    <3>1. PICK l \in Roots : RankOf(l) = j
      BY RanksAreDense
    <3>2. QED
      BY <1>1, <3>1, Colors, RootsAreFinite
  <2>3. ASSUME NEW l \in Loops, color[l] # 0
        PROVE  ScaleFactor(l) # 0 /\ (l = SetHeader(SetColor[l])' \/ HasParentInSet(l)')
    <3>1. ScaleFactor(l) # 0
      BY <1>1, <2>3, Colors
    <3>2. CASE l \notin Roots
      BY <1>1, <2>1, <2>3, <3>1, <3>2, Colors DEF HasParentInSet
    <3>3. CASE l \in Roots
      <4> DEFINE S == {k \in Loops : color[k] = color[l]}
                 m == Min(S)
      <4>1. S \subseteq Loops /\ S # {}
        OBVIOUS
      <4>2. m \in S /\ m \in Loops /\ m <= l
        <5>1. l \in S
          OBVIOUS
        <5> HIDE DEF S
        <5>2. QED
          BY <4>1, <5>1, OutermostLoop
      <4>3. m = SetHeader(SetColor[l])'
        BY DEF SetHeader, InSet
      <4>4. color[m] = color[l]
        BY <4>2
      <4> HIDE DEF m, S
      <4>5. color[l] = RankOf(l)
        BY <1>1, <3>3, Colors
      <4>6. PICK r \in Roots : r <= m /\ color[m] = RankOf(r)
        BY <1>1, <2>3, <4>2, <4>4, Colors
      <4>7. l \in Nat /\ m \in Nat /\ r \in Nat /\ RankOf(l) \in Nat
        BY <1>2, <4>2, <4>5, LoopsFinite, RootsAreFinite
      <4>8. ~ r < l
        BY <3>3, <4>4, <4>5, <4>6, <4>7, RanksOrdered
      <4>9. QED
        BY <3>1, <4>2, <4>3, <4>6, <4>7, <4>8
    <3>4. QED
      BY <3>1, <3>2, <3>3
  <2>4. \A l \in Loops : color[l] = 0 => ScaleFactor(l) = 0
    BY <1>1, Colors
  <2>5. QED
    BY <2>1, <2>2, <2>3, <2>4 DEF SetsAreTrees
<1>6. Fresh'
  BY DEF Fresh
<1>7. SetsInOrder'
  <2>1. set' = 0 /\ \A l \in Loops : SetColor'[l] \in Nat /\ ~Claimed(l)'
    BY <1>2 DEF Fresh, Claimed
  <2>2. QED
    BY <2>1 DEF SetsInOrder
<1>8. ThenTheOthers'
  BY DEF ThenTheOthers
<1>9. QED
  BY <1>3, <1>4, <1>5, <1>6, <1>7, <1>8

(* When no loop is left on the agenda the whole set has been claimed.      *)
LEMMA SetIsDone ==
  ASSUME IInv, stage = "sets", agenda = {}, set # 0,
         NEW l \in Loops, SetColor[l] = set
  PROVE  Claimed(l)
<1> DEFINE S == {k \in Loops : SetColor[k] = set /\ ~Claimed(k)}
<1> SUFFICES ASSUME S # {} PROVE FALSE
  OBVIOUS
<1>1. PICK m \in Loops : m \in S /\ \A k \in S : m <= k
  <2>1. S \subseteq Loops
    OBVIOUS
  <2> HIDE DEF S
  <2>2. QED
    BY <2>1, OutermostLoop
<1>2. SetColor[m] = set /\ ~Claimed(m)
  BY <1>1
<1>3. HasParentInSet(m) /\ ~Claimed(Parent(m))
  BY <1>2 DEF IInv, SetsInOrder, OnAgenda
<1>4. Parent(m) \in Loops /\ Parent(m) < m /\ Parent(m) \in Nat /\ m \in Nat
  BY <1>3, FactsOf DEF IInv, VarTypes, HasParentInSet
<1>5. Parent(m) \in S
  BY <1>2, <1>3, <1>4 DEF HasParentInSet
<1>6. QED
  BY <1>1, <1>4, <1>5

LEMMA NextSetKeeps == IInv /\ NextSet => IInv'
<1> SUFFICES ASSUME IInv, NextSet PROVE IInv'
  OBVIOUS
<1>1. /\ stage = "sets" /\ agenda = {}
      /\ UNCHANGED <<loops, SetColor, LOOP_SF_SET, dynamic, pragmaBlocks, counter>>
  BY DEF NextSet
<1>2. /\ loops \in LoopFacts
      /\ set \in Nat /\ LOOP_SF_SET \in Nat
      /\ \A l \in Loops : SetColor[l] \in Nat /\ SetColor[l] < LOOP_SF_SET
  BY DEF IInv, VarTypes
<1>3. \A l \in Loops : SetColor[l] # 0 /\ SetColor[l] <= set => Claimed(l)
  <2> SUFFICES ASSUME NEW l \in Loops, SetColor[l] # 0, SetColor[l] <= set PROVE Claimed(l)
    OBVIOUS
  <2>1. CASE SetColor[l] = set
    BY <1>1, <2>1, SetIsDone
  <2>2. CASE SetColor[l] < set
    BY <1>1, <2>2 DEF IInv, SetsInOrder
  <2>3. QED
    BY <1>2, <2>1, <2>2
<1>4. \A l \in Loops : Claimed(l)' <=> Claimed(l)
  BY <1>1 DEF Claimed
<1>5. stage' \in {"sets", "dynamic"} => stage \in {"sets", "dynamic"}
  BY <1>1
<1>6. SetsAreTrees'
  BY <1>1, <1>5, SameTrees DEF IInv
<1>7. PoolAndCounters'
  BY <1>1 DEF IInv, PoolAndCounters, Counted, NextSet
<1>8. CASE FollowedBySet(set)
  <2> DEFINE h == SetHeader(set + 1)
  <2>1. /\ set' = set + 1 /\ agenda' = {<<h, 1>>} /\ stage' = stage
        /\ set + 1 < LOOP_SF_SET
    BY <1>8 DEF NextSet, FollowedBySet
  <2>2. /\ h \in Loops /\ h \in Nat
        /\ SetColor[h] = set + 1
        /\ \A l \in Loops : SetColor[l] = set + 1 => h <= l
    <3>1. set + 1 \in Nat /\ set + 1 # 0
      BY <1>2
    <3>2. QED
      BY <2>1, <3>1, Header DEF IInv, SetsAreTrees
  <2>3. ~HasParentInSet(h)
    <3> SUFFICES ASSUME HasParentInSet(h) PROVE FALSE
      OBVIOUS
    <3>1. Parent(h) \in Loops /\ Parent(h) < h /\ Parent(h) \in Nat
      BY <1>2, <2>2, FactsOf DEF HasParentInSet
    <3>2. QED
      BY <2>2, <3>1 DEF HasParentInSet
  <2>4. \A l \in Loops : (HasParentInSet(l)' <=> HasParentInSet(l)) /\ Parent(l)' = Parent(l)
    BY <1>1, SameSets
  <2>5. \A l \in Loops : SetColor[l] = set + 1 => l = h \/ HasParentInSet(l)
    BY <1>2 DEF IInv, SetsAreTrees
  <2> HIDE DEF h
  <2>6. VarTypes'
    BY <1>1, <1>2, <2>1, <2>2 DEF IInv, VarTypes
  <2>7. Fresh'
    BY <1>1, <1>2, <2>1 DEF IInv, Fresh
  <2>8. \A l : OnAgenda(l)' <=> l = h
    BY <2>1 DEF OnAgenda
  <2>9. SetsInOrder'
    <3> SUFFICES ASSUME NEW l \in Loops
                 PROVE  /\ SetColor[l] # 0 /\ SetColor[l] < set + 1 => Claimed(l)
                        /\ SetColor[l] > set + 1 => ~Claimed(l)
                        /\ SetColor[l] = set + 1 =>
                             /\ \/ Claimed(l)
                                \/ l = h
                                \/ HasParentInSet(l) /\ ~Claimed(Parent(l))
                             /\ l = h => /\ ~Claimed(l)
                                         /\ HasParentInSet(l) => Claimed(Parent(l))
                             /\ HasParentInSet(l) /\ ~Claimed(Parent(l)) => ~Claimed(l)
      <4>1. \A k \in Loops : HasParentInSet(k) => Parent(k) \in Loops
        BY <1>2, FactsOf DEF HasParentInSet
      <4>2. \A k \in Loops : HasParentInSet(k) => (Claimed(Parent(k))' <=> Claimed(Parent(k)))
        BY <1>1, <2>4, <4>1 DEF Claimed
      <4>3. \A v, w \in agenda' : v = w
        BY <2>1
      <4>4. QED
        BY <1>1, <1>4, <2>1, <2>4, <2>8, <4>2, <4>3 DEF SetsInOrder
    <3>1. \A k \in Loops : SetColor[k] > set => ~Claimed(k)
      BY <1>1 DEF IInv, SetsInOrder
    <3>2. SetColor[l] = set + 1 =>
            /\ ~Claimed(l)
            /\ HasParentInSet(l) => ~Claimed(Parent(l))
      <4>1. HasParentInSet(l) => Parent(l) \in Loops /\ SetColor[Parent(l)] = SetColor[l]
        BY <1>2, FactsOf DEF HasParentInSet
      <4>2. QED
        BY <1>2, <3>1, <4>1
    <3>3. SetColor[l] # 0 /\ SetColor[l] < set + 1 => Claimed(l)
      BY <1>2, <1>3
    <3>4. SetColor[l] > set + 1 => ~Claimed(l)
      BY <1>2, <3>1
    <3>5. QED
      BY <2>3, <2>5, <3>2, <3>3, <3>4
  <2>10. ThenTheOthers'
    BY <1>1, <2>1 DEF ThenTheOthers
  <2>11. QED
    BY <1>6, <1>7, <2>6, <2>7, <2>9, <2>10 DEF IInv
<1>9. CASE ~FollowedBySet(set)
  <2>1. /\ stage' = "dynamic" /\ set' = set /\ agenda' = agenda
        /\ ~ set + 1 < LOOP_SF_SET
    BY <1>9 DEF NextSet, FollowedBySet
  <2>2. VarTypes'
    BY <1>1, <1>2, <2>1 DEF IInv, VarTypes
  <2>3. Fresh'
    BY <1>1, <2>1 DEF IInv, Fresh
  <2>4. SetsInOrder'
    BY <2>1 DEF SetsInOrder
  <2>5. ThenTheOthers'
    <3>1. \A l \in Loops : SetColor[l] # 0 => Claimed(l)
      BY <1>2, <1>3, <2>1
    <3>2. dynamic = Loops
      BY <1>1 DEF IInv, Fresh
    <3>3. QED
      BY <1>1, <1>4, <2>1, <3>1, <3>2 DEF ThenTheOthers
  <2>6. QED
    BY <1>6, <1>7, <2>2, <2>3, <2>4, <2>5 DEF IInv
<1>10. QED
  BY <1>8, <1>9

LEMMA SkipLoopKeeps ==
  ASSUME IInv, stage = "sets", NEW l \in Loops, NEW outer \in Nat, <<l, outer>> \in agenda,
         SkipLoop(l, outer), UNCHANGED <<loops, stage, set, dynamic>>
  PROVE  IInv'
<1>1. /\ SetColor[l] # set
      /\ agenda' = agenda \ {<<l, outer>>}
      /\ UNCHANGED <<loops, stage, SetColor, LOOP_SF_SET, set, dynamic, pragmaBlocks, counter>>
  BY DEF SkipLoop
<1>2. VarTypes'
  BY <1>1 DEF IInv, VarTypes
<1>3. PoolAndCounters'
  BY <1>1 DEF IInv, PoolAndCounters, Counted
<1>4. SetsAreTrees'
  BY <1>1, SameTrees DEF IInv
<1>5. Fresh'
  BY <1>1 DEF IInv, Fresh, Claimed
<1>6. SetsInOrder'
  <2>1. \A k : (HasParentInSet(k)' <=> HasParentInSet(k)) /\ Parent(k)' = Parent(k)
    BY <1>1, SameSets
  <2>2. \A k : Claimed(k)' <=> Claimed(k)
    BY <1>1 DEF Claimed
  <2>3. \A k \in Loops : SetColor[k] = set => (OnAgenda(k)' <=> OnAgenda(k))
    BY <1>1 DEF OnAgenda
  <2>4. \A k : Claimed(Parent(k))' <=> Claimed(Parent(k))
    BY <1>1, <2>1 DEF Claimed
  <2>5. \A v \in agenda' : v \in agenda
    BY <1>1
  <2>6. QED
    BY <1>1, <2>1, <2>2, <2>3, <2>4, <2>5 DEF IInv, SetsInOrder
<1>7. ThenTheOthers'
  BY <1>1 DEF IInv, ThenTheOthers, Claimed
<1>8. QED
  BY <1>2, <1>3, <1>4, <1>5, <1>6, <1>7 DEF IInv

(* What is split off is the part of the set at and below l.                *)
LEMMA SplitOffIsBelow ==
  ASSUME loops \in LoopFacts, NEW l \in Loops
  PROVE  /\ SplitOff(l) \subseteq Loops
         /\ l \in SplitOff(l)
         /\ \A k \in SplitOff(l) : SetColor[k] = SetColor[l] /\ l <= k
<1>1. SplitOff(l) \subseteq Loops
  BY DEF SplitOff
<1>2. l \in SplitOff(l)
  BY SplitOffIs
<1> DEFINE Bad == {k \in SplitOff(l) : ~(SetColor[k] = SetColor[l] /\ l <= k)}
<1>3. ASSUME Bad # {} PROVE FALSE
  <2>1. PICK k \in Loops : k \in Bad /\ \A i \in Bad : k <= i
    <3>1. Bad \subseteq Loops
      BY <1>1
    <3> HIDE DEF Bad
    <3>2. QED
      BY <1>3, <3>1, OutermostLoop
  <2>2. k # l
    BY <2>1, LoopsFinite
  <2>3. Parent(k) \in SplitOff(l) /\ SetColor[k] = SetColor[l]
    BY <2>1, <2>2, SplitOffIs
  <2>4. Parent(k) \in Nat /\ Parent(k) < k /\ k \in Nat /\ l \in Nat
    BY FactsOf, LoopsFinite
  <2>5. Parent(k) \notin Bad
    BY <2>1, <2>4
  <2>6. l <= Parent(k)
    BY <2>3, <2>5
  <2>7. QED
    BY <2>1, <2>3, <2>4, <2>6
<1>4. QED
  BY <1>1, <1>2, <1>3

LEMMA SplitSetKeeps ==
  ASSUME IInv, stage = "sets", NEW l \in Loops, NEW outer \in Nat, <<l, outer>> \in agenda,
         SplitSet(l, outer), UNCHANGED <<loops, stage, set, dynamic>>
  PROVE  IInv'
<1> DEFINE S == SplitOff(l)
           n == LOOP_SF_SET
<1>1. /\ SetColor[l] = set
      /\ HasParentInSet(l)
      /\ SetColor' = [k \in Loops |-> IF k \in S THEN n ELSE SetColor[k]]
      /\ LOOP_SF_SET' = n + 1
      /\ agenda' = agenda \ {<<l, outer>>}
      /\ UNCHANGED <<loops, stage, set, dynamic, pragmaBlocks, counter>>
  BY DEF SplitSet, Splits
<1>2. /\ loops \in LoopFacts
      /\ set \in Nat /\ set # 0 /\ set < n
      /\ n \in Nat \ {0}
      /\ \A k \in Loops : SetColor[k] \in Nat /\ SetColor[k] < n
  BY DEF IInv, VarTypes, Fresh
<1>3. /\ S \subseteq Loops /\ l \in S
      /\ \A k \in S : SetColor[k] = set /\ l <= k
      /\ \A k \in Loops : k \in S <=> k = l \/ (Parent(k) # 0 /\ Parent(k) \in S /\ SetColor[k] = set)
  BY <1>1, <1>2, SplitOffIsBelow, SplitOffIs
<1> HIDE DEF S
<1>4. \A k \in Loops : SetColor'[k] = IF k \in S THEN n ELSE SetColor[k]
  BY <1>1
<1>5. \A k : Parent(k)' = Parent(k) /\ ScaleFactor(k)' = ScaleFactor(k) /\ (Claimed(k)' <=> Claimed(k))
  BY <1>1 DEF Parent, ScaleFactor, Reread, Claimed
<1>6. \A k \in Loops : /\ k \in Nat
                       /\ Parent(k) \in Nat /\ Parent(k) < k
                       /\ Parent(k) # 0 => Parent(k) \in Loops
  BY <1>2, FactsOf
<1> DEFINE h == SetHeader(set)
<1>7. /\ h \in Loops
      /\ SetColor[h] = set
      /\ \A k \in Loops : SetColor[k] = set => h <= k
  BY <1>2, Header DEF IInv, SetsAreTrees
<1> HIDE DEF h
<1>8. h \notin S
  <2> SUFFICES ASSUME h \in S PROVE FALSE
    OBVIOUS
  <2>1. Parent(h) # 0 /\ SetColor[Parent(h)] = set
    BY <1>1, <1>3, <1>7 DEF HasParentInSet
  <2>2. QED
    BY <1>6, <1>7, <2>1
<1>9. \A k \in Loops : k \notin S => (HasParentInSet(k)' <=> HasParentInSet(k))
  <2> SUFFICES ASSUME NEW k \in Loops, k \notin S, Parent(k) # 0
               PROVE  SetColor'[Parent(k)] = SetColor'[k] <=> SetColor[Parent(k)] = SetColor[k]
    BY <1>5 DEF HasParentInSet
  <2>1. CASE Parent(k) \in S
    BY <1>2, <1>3, <1>4, <1>6, <2>1
  <2>2. CASE Parent(k) \notin S
    BY <1>4, <1>6, <2>2
  <2>3. QED
    BY <2>1, <2>2
<1>10. VarTypes'
  <2>1. SetColor' \in [Loops -> Nat]
    BY <1>1, <1>2
  <2>2. \A k \in Loops : SetColor'[k] < n + 1
    BY <1>2, <1>4
  <2>3. QED
    BY <1>1, <1>2, <2>1, <2>2 DEF IInv, VarTypes
<1>11. PoolAndCounters'
  BY <1>1 DEF IInv, PoolAndCounters, Counted
<1>12. SetsAreTrees'
  <2>1. SetsHaveHeaders'
    <3> SUFFICES ASSUME NEW j \in 1 .. n PROVE \E k \in Loops : SetColor'[k] = j
      BY <1>1, <1>2 DEF SetsHaveHeaders, InSet
    <3>1. CASE j = n
      BY <1>3, <1>4, <3>1
    <3>2. CASE j = set
      BY <1>4, <1>7, <1>8, <3>2
    <3>3. CASE j # n /\ j # set
      <4>1. j \in 1 .. n - 1
        BY <1>2, <3>3
      <4>2. PICK k \in Loops : SetColor[k] = j
        BY <4>1 DEF IInv, SetsAreTrees, SetsHaveHeaders, InSet
      <4>3. QED
        BY <1>3, <1>4, <3>3, <4>2
    <3>4. QED
      BY <3>1, <3>2, <3>3
  <2>2. ASSUME NEW k \in Loops, SetColor'[k] # 0
        PROVE  ScaleFactor(k) # 0 /\ (k = SetHeader(SetColor[k])' \/ HasParentInSet(k)')
    <3>1. SetColor[k] # 0
      BY <1>2, <1>3, <1>4, <2>2
    <3>2. ScaleFactor(k) # 0
      BY <3>1 DEF IInv, SetsAreTrees
    <3>3. CASE k \in S /\ k # l
      <4>1. Parent(k) # 0 /\ Parent(k) \in S
        BY <1>3, <3>3
      <4>2. QED
        BY <1>3, <1>4, <1>5, <3>2, <3>3, <4>1 DEF HasParentInSet
    <3>4. CASE k = l
      <4> DEFINE m == SetHeader(SetColor[k])'
      <4>1. m \in Loops /\ SetColor'[m] = n /\ \A i \in Loops : SetColor'[i] = n => m <= i
        <5>1. m = Min({i \in Loops : SetColor'[i] = n})
          BY <1>3, <1>4, <3>4 DEF SetHeader, InSet
        <5>2. l \in {i \in Loops : SetColor'[i] = n}
          BY <1>3, <1>4
        <5>3. QED
          BY <5>1, <5>2, OutermostLoop
      <4> HIDE DEF m
      <4>2. m \in S
        BY <1>2, <1>4, <4>1
      <4>3. m = l
        BY <1>3, <1>4, <1>6, <4>1, <4>2
      <4>4. QED
        BY <3>2, <3>4, <4>3 DEF m
    <3>5. CASE k \notin S /\ k = SetHeader(SetColor[k])
      <4> DEFINE j == SetColor[k]
      <4>1. /\ SetHeader(SetColor[k])' \in Loops
            /\ SetColor'[SetHeader(SetColor[k])'] = j
            /\ \A i \in Loops : SetColor'[i] = j => SetHeader(SetColor[k])' <= i
        <5>1. SetHeader(SetColor[k])' = Min({i \in Loops : SetColor'[i] = j})
          BY <1>4, <3>5 DEF SetHeader, InSet
        <5>2. k \in {i \in Loops : SetColor'[i] = j}
          BY <1>4, <3>5
        <5>3. QED
          BY <5>1, <5>2, OutermostLoop
      <4>2. \A i \in Loops : SetColor[i] = j => k <= i
        <5>1. j \in Nat /\ j # 0 /\ j < LOOP_SF_SET
          BY <1>2, <3>1
        <5>2. QED
          BY <3>5, <5>1, Header DEF IInv, SetsAreTrees
      <4>3. SetColor[SetHeader(SetColor[k])'] = j
        BY <1>2, <1>4, <4>1
      <4>4. SetHeader(SetColor[k])' <= k
        BY <1>4, <3>5, <4>1
      <4>5. QED
        BY <1>6, <3>2, <4>1, <4>2, <4>3, <4>4
    <3>6. CASE k \notin S /\ HasParentInSet(k)
      BY <1>9, <3>2, <3>6
    <3>7. QED
      BY <3>1, <3>3, <3>4, <3>5, <3>6 DEF IInv, SetsAreTrees
  <2>3. ASSUME NEW k \in Loops, SetColor'[k] = 0 PROVE ScaleFactor(k) = 0
    BY <1>2, <1>4, <2>3 DEF IInv, SetsAreTrees
  <2>4. QED
    BY <1>5, <2>1, <2>2, <2>3 DEF SetsAreTrees
<1>13. Fresh'
  BY <1>1 DEF IInv, Fresh
<1>14. \A k \in S : ~Claimed(k)
  <2> DEFINE Bad == {k \in S : Claimed(k)}
  <2> SUFFICES ASSUME Bad # {} PROVE FALSE
    OBVIOUS
  <2>1. PICK k \in Loops : k \in Bad /\ \A i \in Bad : k <= i
    <3>1. Bad \subseteq Loops
      BY <1>3
    <3> HIDE DEF Bad
    <3>2. QED
      BY <3>1, OutermostLoop
  <2>2. ~Claimed(l)
    BY <1>1, <1>2 DEF IInv, SetsInOrder, OnAgenda
  <2>3. Parent(k) # 0 /\ Parent(k) \in S /\ SetColor[k] = set
    BY <1>3, <2>1, <2>2
  <2>4. ~Claimed(Parent(k))
    BY <1>6, <2>1, <2>3
  <2>5. HasParentInSet(k)
    BY <1>3, <2>3 DEF HasParentInSet
  <2>6. QED
    BY <1>2, <2>1, <2>3, <2>4, <2>5 DEF IInv, SetsInOrder
<1>15. SetsInOrder'
  <2> SUFFICES ASSUME NEW k \in Loops
               PROVE  /\ SetColor'[k] # 0 /\ SetColor'[k] < set => Claimed(k)
                      /\ SetColor'[k] > set => ~Claimed(k)
                      /\ SetColor'[k] = set =>
                           /\ \/ Claimed(k)
                              \/ OnAgenda(k)'
                              \/ HasParentInSet(k)' /\ ~Claimed(Parent(k))
                           /\ OnAgenda(k)' => /\ ~Claimed(k)
                                              /\ HasParentInSet(k)' => Claimed(Parent(k))
                           /\ HasParentInSet(k)' /\ ~Claimed(Parent(k)) => ~Claimed(k)
                           /\ \A v, w \in agenda' : v[1] = k /\ w[1] = k => v = w
    <3>1. \A i : Claimed(Parent(i))' <=> Claimed(Parent(i))
      BY <1>1, <1>5 DEF Claimed
    <3>2. QED
      BY <1>1, <1>5, <3>1 DEF SetsInOrder
  <2>1. CASE k \in S
    BY <1>2, <1>4, <1>14, <2>1
  <2>2. CASE k \notin S
    <3>1. SetColor'[k] = SetColor[k] /\ (HasParentInSet(k)' <=> HasParentInSet(k)) /\ k # l
      BY <1>3, <1>4, <1>9, <2>2
    <3>2. OnAgenda(k)' <=> OnAgenda(k)
      BY <1>1, <3>1 DEF OnAgenda
    <3>3. \A v \in agenda' : v \in agenda
      BY <1>1
    <3>4. QED
      BY <1>2, <3>1, <3>2, <3>3 DEF IInv, SetsInOrder
  <2>3. QED
    BY <2>1, <2>2
<1>16. ThenTheOthers'
  BY <1>1 DEF ThenTheOthers
<1>17. QED
  BY <1>10, <1>11, <1>12, <1>13, <1>15, <1>16 DEF IInv

(* Taking a loop's blocks out of the pool claims that loop and no other.   *)
LEMMA TakingClaims ==
  ASSUME NEW l, pragmaBlocks' = Taken(OfLoop(l, "every") \cup OfLoop(l, "some"))
  PROVE  /\ pragmaBlocks' = pragmaBlocks \ {<<l, "every">>, <<l, "some">>}
         /\ pragmaBlocks' \subseteq pragmaBlocks
         /\ Claimed(l)'
         /\ \A k : k # l => (Claimed(k)' <=> Claimed(k))
<1>1. pragmaBlocks' = pragmaBlocks \ {<<l, "every">>, <<l, "some">>}
  BY DEF Taken, OfLoop
<1>2. QED
  BY <1>1 DEF Claimed

LEMMA ScaledByIsNat ==
  ASSUME loops \in LoopFacts, NEW l \in Loops, NEW outer \in Nat
  PROVE  ScaledBy(l, outer) \in Nat
<1> DEFINE factor == IF HasParentInSet(l) THEN outer ELSE 1
<1>1. factor \in Nat /\ ScaleFactor(l) \in Nat
  BY FactsOf
<1> HIDE DEF factor
<1>2. ScaleFactor(l) * factor \in Int
  BY <1>1
<1>3. (ScaleFactor(l) * factor) % 2^CounterBits \in Nat
  BY <1>2, Moduli, Wraps
<1>4. QED
  BY <1>3 DEF ScaledBy, factor

LEMMA HoistLoopKeeps ==
  ASSUME IInv, stage = "sets", NEW l \in Loops, NEW outer \in Nat, <<l, outer>> \in agenda,
         HoistLoop(l, outer), UNCHANGED <<loops, stage, set, dynamic>>
  PROVE  IInv'
<1> DEFINE sf == ScaledBy(l, outer)
           every == OfLoop(l, "every")
           some == OfLoop(l, "some")
           h == SetHeader(set)
<1>1. /\ SetColor[l] = set
      /\ counter' = [b \in Blocks |-> IF b \in every THEN [before |-> h, scale |-> sf]
                                      ELSE IF b \in some THEN InPlace ELSE counter[b]]
      /\ pragmaBlocks' = Taken(every \cup some)
      /\ agenda' = (agenda \ {<<l, outer>>}) \cup {<<c, sf>> : c \in Children(l)}
      /\ UNCHANGED <<loops, stage, SetColor, LOOP_SF_SET, set, dynamic>>
  BY DEF HoistLoop
<1>2. /\ loops \in LoopFacts
      /\ set \in Nat /\ set # 0 /\ set < LOOP_SF_SET
      /\ \A k \in Loops : SetColor[k] \in Nat
  BY DEF IInv, VarTypes, Fresh
<1>3. sf \in Nat
  BY <1>2, ScaledByIsNat
<1>4. h \in Nat \ {0}
  BY <1>2, Header DEF IInv, SetsAreTrees
<1>5. /\ pragmaBlocks' = pragmaBlocks \ (every \cup some)
      /\ pragmaBlocks' \subseteq pragmaBlocks
      /\ Claimed(l)'
      /\ \A k : k # l => (Claimed(k)' <=> Claimed(k))
  BY <1>1, TakingClaims DEF Taken
<1>6. \A k : (HasParentInSet(k)' <=> HasParentInSet(k)) /\ Parent(k)' = Parent(k)
  BY <1>1, SameSets
<1>7. Children(l) = {c \in Loops : Parent(c) = l}
  BY DEF Children
<1>8. \A k \in Loops : k \in Nat /\ Parent(k) \in Nat /\ Parent(k) < k
  BY <1>2, FactsOf
<1> HIDE DEF sf, every, some, h
<1>9. VarTypes'
  <2>1. counter' \in [Blocks -> [before : Nat, scale : Nat]]
    <3>1. \A b \in Blocks : counter[b] \in [before : Nat, scale : Nat]
      BY DEF IInv, VarTypes
    <3>2. [before |-> h, scale |-> sf] \in [before : Nat, scale : Nat]
      BY <1>3, <1>4
    <3>3. InPlace \in [before : Nat, scale : Nat]
      BY DEF InPlace
    <3>4. QED
      BY <1>1, <3>1, <3>2, <3>3
  <2>2. agenda' \subseteq Loops \X Nat
    BY <1>1, <1>3, <1>7 DEF IInv, VarTypes
  <2>3. QED
    BY <1>1, <1>5, <2>1, <2>2 DEF IInv, VarTypes
<1>10. PoolAndCounters'
  <2>1. ASSUME NEW b \in Blocks
        PROVE  /\ b \in every \cup some => Counted(b)'
               /\ b \notin every \cup some => (Counted(b)' <=> Counted(b))
    <3>1. [before |-> h, scale |-> sf] # NoCounter
      BY <1>4 DEF NoCounter
    <3>2. InPlace # NoCounter
      BY DEF InPlace, NoCounter
    <3>3. counter'[b] = IF b \in every THEN [before |-> h, scale |-> sf]
                        ELSE IF b \in some THEN InPlace ELSE counter[b]
      BY <1>1
    <3>4. QED
      BY <3>1, <3>2, <3>3 DEF Counted
  <2>2. QED
    BY <1>1, <1>5, <2>1 DEF IInv, PoolAndCounters
<1>11. SetsAreTrees'
  BY <1>1, SameTrees DEF IInv
<1>12. Fresh'
  BY <1>1, <1>2 DEF IInv, Fresh
<1>13. SetsInOrder'
  <2>1. ASSUME NEW k \in Loops
        PROVE  /\ SetColor[k] # 0 /\ SetColor[k] < set => Claimed(k)'
               /\ SetColor[k] > set => ~Claimed(k)'
    BY <1>1, <1>2, <1>5 DEF IInv, SetsInOrder
  <2>2. ASSUME NEW k \in Loops, SetColor[k] = set
        PROVE  /\ \/ Claimed(k)'
                  \/ OnAgenda(k)'
                  \/ HasParentInSet(k) /\ ~Claimed(Parent(k))'
               /\ OnAgenda(k)' => /\ ~Claimed(k)'
                                  /\ HasParentInSet(k) => Claimed(Parent(k))'
               /\ HasParentInSet(k) /\ ~Claimed(Parent(k))' => ~Claimed(k)'
               /\ \A v, w \in agenda' : v[1] = k /\ w[1] = k => v = w
    <3>1. /\ \/ Claimed(k)
             \/ OnAgenda(k)
             \/ HasParentInSet(k) /\ ~Claimed(Parent(k))
          /\ OnAgenda(k) => /\ ~Claimed(k)
                            /\ HasParentInSet(k) => Claimed(Parent(k))
          /\ HasParentInSet(k) /\ ~Claimed(Parent(k)) => ~Claimed(k)
          /\ \A v, w \in agenda : v[1] = k /\ w[1] = k => v = w
      BY <1>2, <2>2 DEF IInv, SetsInOrder
    <3>2. OnAgenda(l) /\ ~Claimed(l)
      BY <1>1, <1>2 DEF IInv, SetsInOrder, OnAgenda
    <3>3. Claimed(Parent(k))' <=> Parent(k) = l \/ Claimed(Parent(k))
      BY <1>5, <1>6 DEF Claimed
    <3>4. CASE k = l
      <4>1. ASSUME NEW v \in agenda', v[1] = k PROVE FALSE
        <5>1. v \notin {<<c, sf>> : c \in Children(l)}
          BY <1>7, <1>8, <3>4, <4>1
        <5>2. v \in agenda /\ v # <<l, outer>>
          BY <1>1, <5>1
        <5>3. <<l, outer>>[1] = k /\ <<l, outer>> \in agenda
          BY <3>4
        <5>4. QED
          BY <3>1, <4>1, <5>2, <5>3
      <4>2. ~OnAgenda(k)'
        BY <4>1 DEF OnAgenda
      <4>3. HasParentInSet(k) => Claimed(Parent(k))'
        BY <3>1, <3>2, <3>3, <3>4
      <4>4. QED
        BY <1>5, <3>4, <4>1, <4>2, <4>3
    <3>5. CASE k # l /\ Parent(k) = l
      <4>1. HasParentInSet(k) /\ ~Claimed(k)'
        BY <1>1, <1>5, <1>8, <2>2, <3>1, <3>2, <3>5 DEF HasParentInSet
      <4>2. <<k, sf>> \in agenda'
        BY <1>1, <1>7, <3>5
      <4>3. \A v \in agenda : v[1] # k
        BY <3>1, <3>2, <3>5, <4>1 DEF OnAgenda
      <4>4. \A v \in agenda' : v[1] = k => v = <<k, sf>>
        BY <1>1, <4>3
      <4>5. OnAgenda(k)'
        BY <4>2 DEF OnAgenda
      <4>6. Claimed(Parent(k))'
        BY <3>3, <3>5
      <4>7. QED
        BY <4>1, <4>4, <4>5, <4>6
    <3>6. CASE k # l /\ Parent(k) # l
      <4>1. \A v : v[1] = k => (v \in agenda' <=> v \in agenda)
        <5>1. \A v \in {<<c, sf>> : c \in Children(l)} : v[1] # k
          BY <1>7, <3>6
        <5>2. QED
          BY <1>1, <3>6, <5>1
      <4>2. OnAgenda(k)' <=> OnAgenda(k)
        BY <4>1 DEF OnAgenda
      <4>3. (Claimed(k)' <=> Claimed(k)) /\ (Claimed(Parent(k))' <=> Claimed(Parent(k)))
        BY <1>5, <3>3, <3>6
      <4>4. QED
        BY <3>1, <4>1, <4>2, <4>3
    <3>7. QED
      BY <3>4, <3>5, <3>6
  <2>3. QED
    BY <1>1, <1>6, <2>1, <2>2 DEF SetsInOrder
<1>14. ThenTheOthers'
  BY <1>1 DEF ThenTheOthers
<1>15. QED
  BY <1>9, <1>10, <1>11, <1>12, <1>13, <1>14 DEF IInv

LEMMA DynamicLoopKeeps ==
  ASSUME IInv, NEW l \in Loops, instrumentDynamicLoop(l)
  PROVE  IInv'
<1> DEFINE every == OfLoop(l, "every")
           some == OfLoop(l, "some")
           in_place == LeftInPlace(l, every, some)
           hoisted == IF Hoists(l) THEN every ELSE {}
<1>1. /\ stage = "dynamic" /\ SetColor[l] = 0
      /\ counter' = [b \in Blocks |-> IF b \in in_place THEN InPlace
                                      ELSE IF b \in hoisted THEN DynamicCounter(l)
                                      ELSE counter[b]]
      /\ pragmaBlocks' = Taken(every \cup some)
      /\ dynamic' = dynamic \ {l}
      /\ UNCHANGED <<loops, stage, SetColor, LOOP_SF_SET, set, agenda>>
  BY DEF instrumentDynamicLoop
<1>2. /\ loops \in LoopFacts
      /\ counter \in [Blocks -> [before : Nat, scale : Nat]]
  BY DEF IInv, VarTypes
<1>3. /\ pragmaBlocks' = pragmaBlocks \ (every \cup some)
      /\ pragmaBlocks' \subseteq pragmaBlocks
      /\ Claimed(l)'
      /\ \A k : k # l => (Claimed(k)' <=> Claimed(k))
  BY <1>1, TakingClaims DEF Taken
<1>4. /\ \A b \in every \cup some : b[1] = l
      /\ every \cup some \subseteq pragmaBlocks
  BY DEF OfLoop
<1>5. /\ l # 0 /\ loops[l].btc \in Nat
      /\ loops[l].scev \in {"invariant", "none"}
      /\ loops[l].scev = "none" => ~loops[l].loses
      /\ loops[l].loses \in BOOLEAN
  <2>1. ScaleFactor(l) = 0
    BY <1>1 DEF IInv, SetsAreTrees
  <2>2. QED
    BY <1>2, <2>1, FactsOf
<1>6. /\ DynamicCounter(l) \in [before : Nat, scale : Nat]
      /\ DynamicCounter(l) # NoCounter
  <2>1. loops[l].btc + 1 \in Int
    BY <1>5
  <2>2. (loops[l].btc + 1) % 2^CounterBits \in Nat
    BY <2>1, Moduli, Wraps
  <2>3. l \in Nat /\ l # 0
    BY <1>5, LoopsFinite
  <2>4. QED
    BY <2>2, <2>3 DEF DynamicCounter, NoCounter
<1>7. InPlace \in [before : Nat, scale : Nat] /\ InPlace # NoCounter
  BY DEF InPlace, NoCounter
<1>8. /\ in_place \cup hoisted \subseteq every \cup some
      /\ ~loops[l].loses => in_place \cup hoisted = every \cup some
  BY <1>5 DEF LeftInPlace, Hoists
<1> HIDE DEF every, some, in_place, hoisted
<1>9. VarTypes'
  <2>1. counter' \in [Blocks -> [before : Nat, scale : Nat]]
    <3>1. \A b \in Blocks : counter[b] \in [before : Nat, scale : Nat]
      BY <1>2
    <3>2. QED
      BY <1>1, <1>6, <1>7, <3>1
  <2>2. QED
    BY <1>1, <1>3, <2>1 DEF IInv, VarTypes
<1>10. PoolAndCounters'
  <2>1. ASSUME NEW b \in Blocks
        PROVE  /\ b \in in_place \cup hoisted => Counted(b)'
               /\ b \notin in_place \cup hoisted => (Counted(b)' <=> Counted(b))
    <3>1. counter'[b] = IF b \in in_place THEN InPlace
                        ELSE IF b \in hoisted THEN DynamicCounter(l) ELSE counter[b]
      BY <1>1
    <3>2. QED
      BY <1>6, <1>7, <3>1 DEF Counted
  <2>2. QED
    BY <1>1, <1>3, <1>4, <1>5, <1>8, <2>1 DEF IInv, PoolAndCounters
<1>11. SetsAreTrees'
  BY <1>1, SameTrees DEF IInv
<1>12. Fresh'
  BY <1>1 DEF IInv, Fresh
<1>13. SetsInOrder'
  BY <1>1 DEF SetsInOrder
<1>14. ThenTheOthers'
  BY <1>1, <1>3 DEF IInv, ThenTheOthers
<1>15. QED
  BY <1>9, <1>10, <1>11, <1>12, <1>13, <1>14 DEF IInv

LEMMA SkipStaticKeeps ==
  ASSUME IInv, NEW l \in Loops, SkipStaticLoop(l)
  PROVE  IInv'
<1>1. /\ stage = "dynamic" /\ SetColor[l] # 0 /\ dynamic' = dynamic \ {l}
      /\ UNCHANGED <<loops, stage, SetColor, LOOP_SF_SET, set, agenda, pragmaBlocks, counter>>
  BY DEF SkipStaticLoop
<1>2. VarTypes'
  BY <1>1 DEF IInv, VarTypes
<1>3. PoolAndCounters'
  BY <1>1 DEF IInv, PoolAndCounters, Counted
<1>4. SetsAreTrees'
  BY <1>1, SameTrees DEF IInv
<1>5. Fresh'
  BY <1>1 DEF IInv, Fresh
<1>6. SetsInOrder'
  BY <1>1 DEF SetsInOrder
<1>7. ThenTheOthers'
  BY <1>1 DEF IInv, ThenTheOthers, Claimed
<1>8. QED
  BY <1>2, <1>3, <1>4, <1>5, <1>6, <1>7 DEF IInv

LEMMA DynamicDoneKeeps == IInv /\ DynamicDone => IInv'
<1> SUFFICES ASSUME IInv, DynamicDone PROVE IInv'
  OBVIOUS
<1>1. /\ stage = "dynamic" /\ dynamic = {} /\ stage' = "rest"
      /\ UNCHANGED <<loops, SetColor, LOOP_SF_SET, set, agenda, dynamic, pragmaBlocks, counter>>
  BY DEF DynamicDone
<1>2. VarTypes'
  BY <1>1 DEF IInv, VarTypes
<1>3. PoolAndCounters'
  BY <1>1 DEF IInv, PoolAndCounters, Counted
<1>4. SetsAreTrees'
  BY <1>1, SameTrees DEF IInv
<1>5. Fresh'
  BY <1>1 DEF IInv, Fresh
<1>6. SetsInOrder'
  BY <1>1 DEF SetsInOrder
<1>7. ThenTheOthers'
  BY <1>1 DEF IInv, ThenTheOthers, Claimed
<1>8. QED
  BY <1>2, <1>3, <1>4, <1>5, <1>6, <1>7 DEF IInv

LEMMA RestKeeps == IInv /\ InstrumentRest => IInv'
<1> SUFFICES ASSUME IInv, InstrumentRest PROVE IInv'
  OBVIOUS
<1>1. /\ stage = "rest" /\ stage' = "done" /\ pragmaBlocks' = {}
      /\ counter' = [b \in Blocks |-> IF b \in pragmaBlocks THEN InPlace ELSE counter[b]]
      /\ UNCHANGED <<loops, SetColor, LOOP_SF_SET, set, agenda, dynamic>>
  BY DEF InstrumentRest
<1>2. InPlace \in [before : Nat, scale : Nat] /\ InPlace # NoCounter
  BY DEF InPlace, NoCounter
<1>3. VarTypes'
  <2>1. counter' \in [Blocks -> [before : Nat, scale : Nat]]
    BY <1>1, <1>2 DEF IInv, VarTypes
  <2>2. QED
    BY <1>1, <2>1 DEF IInv, VarTypes
<1>4. PoolAndCounters'
  <2>1. \A b \in Blocks : IF b \in pragmaBlocks THEN Counted(b)' ELSE Counted(b)' <=> Counted(b)
    BY <1>1, <1>2 DEF Counted
  <2>2. QED
    BY <1>1, <2>1 DEF IInv, PoolAndCounters
<1>5. SetsAreTrees'
  BY <1>1, SameTrees DEF IInv
<1>6. Fresh'
  BY <1>1 DEF IInv, Fresh
<1>7. SetsInOrder'
  BY <1>1 DEF SetsInOrder
<1>8. ThenTheOthers'
  BY <1>1 DEF ThenTheOthers
<1>9. QED
  BY <1>3, <1>4, <1>5, <1>6, <1>7, <1>8 DEF IInv

-----------------------------------------------------------------------------
(* Theorems.                                                               *)

LEMMA StepKeeps == IInv /\ [Next]_vars => IInv'
<1> SUFFICES ASSUME IInv, [Next]_vars PROVE IInv'
  OBVIOUS
<1>1. CASE colorLoopTreeSF
  BY <1>1, ColoringKeeps
<1>2. CASE NextSet
  BY <1>2, NextSetKeeps
<1>3. CASE instrumentSFLoopSet
  <2>1. stage = "sets" /\ UNCHANGED <<loops, stage, set, dynamic>>
    BY <1>3 DEF instrumentSFLoopSet
  <2>2. PICK visit \in agenda : \/ SkipLoop(visit[1], visit[2])
                                \/ SplitSet(visit[1], visit[2])
                                \/ HoistLoop(visit[1], visit[2])
    BY <1>3 DEF instrumentSFLoopSet
  <2>3. PICK l \in Loops, outer \in Nat : visit = <<l, outer>>
    BY DEF IInv, VarTypes
  <2>4. visit[1] = l /\ visit[2] = outer
    BY <2>3
  <2>5. <<l, outer>> \in agenda
    BY <2>3
  <2>6. SkipLoop(l, outer) \/ SplitSet(l, outer) \/ HoistLoop(l, outer)
    BY <2>2, <2>4
  <2>7. QED
    BY <2>1, <2>5, <2>6, SkipLoopKeeps, SplitSetKeeps, HoistLoopKeeps
<1>4. ASSUME NEW l \in Loops, instrumentDynamicLoop(l) \/ SkipStaticLoop(l) PROVE IInv'
  BY <1>4, DynamicLoopKeeps, SkipStaticKeeps
<1>5. CASE DynamicDone
  BY <1>5, DynamicDoneKeeps
<1>6. CASE InstrumentRest
  BY <1>6, RestKeeps
<1>7. CASE Finished \/ UNCHANGED vars
  BY <1>7, StutterKeeps DEF Finished
<1>8. QED
  BY <1>1, <1>2, <1>3, <1>4, <1>5, <1>6, <1>7 DEF Next

LEMMA HoistingInvariance == Spec => []IInv
<1>1. Init => IInv
  BY InitEstablishes
<1>2. IInv /\ [Next]_vars => IInv'
  BY StepKeeps
<1>3. QED
  BY <1>1, <1>2, PTL DEF Spec

(* The variables keep their types, and the pool holds no counted block.    *)
THEOREM HoistingTypeCorrect == Spec => []TypeOK
<1>1. IInv => TypeOK
  <2> SUFFICES ASSUME IInv PROVE TypeOK
    OBVIOUS
  <2>1. \A l \in Loops : SetColor[l] \in 0 .. LOOP_SF_SET - 1
    BY DEF IInv, VarTypes
  <2>2. SetColor \in [Loops -> 0 .. LOOP_SF_SET - 1]
    BY <2>1 DEF IInv, VarTypes
  <2>3. set \in 0 .. LOOP_SF_SET - 1
    BY DEF IInv, VarTypes
  <2>4. QED
    BY <2>2, <2>3 DEF IInv, VarTypes, PoolAndCounters, TypeOK
<1>2. QED
  BY <1>1, HoistingInvariance, PTL

(* For any loop tree, findLoopTreeSet finds a header for every set handed  *)
(* out, however often sets were split.                                     *)
THEOREM EverySetHasAHeader == Spec => []SetsHaveHeaders
<1>1. IInv => SetsHaveHeaders
  BY DEF IInv, SetsAreTrees
<1>2. QED
  BY <1>1, HoistingInvariance, PTL

(* For any loop tree, no block of a loop is left in the pool when the      *)
(* shared counters are placed.                                             *)
THEOREM LoopBlocksAreClaimed == Spec => []LoopBlocksClaimed
<1>1. IInv => LoopBlocksClaimed
  <2> SUFFICES ASSUME IInv, stage = "rest", ApplyLoopHoisting
               PROVE  pragmaBlocks \subseteq {<<0, "every">>}
    BY DEF LoopBlocksClaimed
  <2>1. \A l \in Loops : <<l, "every">> \notin pragmaBlocks /\ <<l, "some">> \notin pragmaBlocks
    BY DEF IInv, ThenTheOthers, Claimed
  <2>2. ASSUME NEW b \in pragmaBlocks, b # <<0, "every">> PROVE FALSE
    <3>1. b \in Loops \X {"every", "some"}
      BY <2>2 DEF IInv, VarTypes, Blocks
    <3>2. PICK l \in Loops, kind \in {"every", "some"} : b = <<l, kind>>
      BY <3>1
    <3>3. QED
      BY <2>1, <3>2
  <2>3. QED
    BY <2>2
<1>2. QED
  BY <1>1, HoistingInvariance, PTL

(* For any loop tree, only blocks of a loop whose trip count was lost end  *)
(* up without a counter.                                                   *)
THEOREM BlocksGetCounters == Spec => []BlocksCounted
<1>1. IInv => BlocksCounted
  BY DEF IInv, PoolAndCounters, BlocksCounted
<1>2. QED
  BY <1>1, HoistingInvariance, PTL

(* For any loop tree, no block is given a second counter.                  *)
THEOREM CountersAreKept == Spec => CountersKept
<1>1. IInv /\ [Next]_vars => [\A b \in Blocks : Counted(b) => counter'[b] = counter[b]]_vars
  <2> SUFFICES ASSUME IInv, Next, NEW b \in Blocks, Counted(b) PROVE counter'[b] = counter[b]
    OBVIOUS
  <2>1. b \notin pragmaBlocks
    BY DEF IInv, PoolAndCounters
  <2>2. \A l, kind : b \notin OfLoop(l, kind)
    BY <2>1 DEF OfLoop
  <2>3. CASE instrumentSFLoopSet
    <3>1. PICK visit \in agenda : \/ SkipLoop(visit[1], visit[2])
                                  \/ SplitSet(visit[1], visit[2])
                                  \/ HoistLoop(visit[1], visit[2])
      BY <2>3 DEF instrumentSFLoopSet
    <3>2. CASE HoistLoop(visit[1], visit[2])
      BY <2>2, <3>2 DEF HoistLoop
    <3>3. QED
      BY <3>1, <3>2 DEF SkipLoop, SplitSet
  <2>4. ASSUME NEW l \in Loops, instrumentDynamicLoop(l) PROVE counter'[b] = counter[b]
    <3>1. LeftInPlace(l, OfLoop(l, "every"), OfLoop(l, "some"))
            \subseteq OfLoop(l, "every") \cup OfLoop(l, "some")
      BY DEF LeftInPlace
    <3>2. QED
      BY <2>2, <2>4, <3>1 DEF instrumentDynamicLoop
  <2>5. CASE InstrumentRest
    BY <2>1, <2>5 DEF InstrumentRest
  <2>6. QED
    BY <2>3, <2>4, <2>5 DEF Next, colorLoopTreeSF, NextSet, SkipStaticLoop, DynamicDone, Finished, vars
<1>2. QED
  BY <1>1, HoistingInvariance, PTL DEF Spec, CountersKept

-----------------------------------------------------------------------------
(* Exact scales.                                                           *)

(* RunsPerEntry reads nothing but loops.                                   *)
RunsIn(facts, l, a) ==
  LET runs[k \in Loops] ==
        IF k = a THEN facts[k].btc + 1
        ELSE IF facts[k].parent = 0 \/ ~facts[k].always THEN 0
        ELSE (facts[k].btc + 1) * runs[facts[k].parent]
  IN  runs[l]

LEMMA SameRuns ==
  ASSUME loops' = loops, NEW l, NEW a
  PROVE  RunsPerEntry(l, a)' = RunsPerEntry(l, a)
<1>1. RunsPerEntry(l, a) = RunsIn(loops, l, a)
  BY DEF RunsPerEntry, RunsIn, Parent
<1>2. RunsPerEntry(l, a)' = RunsIn(loops', l, a)
  BY DEF RunsPerEntry, RunsIn, Parent
<1>3. QED
  BY <1>1, <1>2

LEMMA SameFit ==
  ASSUME CountsFit, loops' = loops
  PROVE  CountsFit'
BY SameRuns DEF CountsFit, Reread

LEMMA SameExact ==
  ASSUME CountersExact, UNCHANGED <<loops, counter>>
  PROVE  CountersExact'
BY SameRuns DEF CountersExact

LEMMA InitScales == Init => OuterScales
<1> SUFFICES ASSUME Init PROVE OuterScales
  OBVIOUS
<1>1. CountersExact
  BY DEF Init, CountersExact, NoCounter
<1>2. QED
  BY <1>1 DEF Init, OuterScales

(* The loop a set's counter goes before has no parent in the set.          *)
LEMMA HeaderIsTop ==
  ASSUME IInv, NEW j \in Nat, j # 0, j < LOOP_SF_SET
  PROVE  ~HasParentInSet(SetHeader(j))
<1> DEFINE h == SetHeader(j)
<1>1. /\ h \in Loops
      /\ SetColor[h] = j
      /\ \A l \in Loops : SetColor[l] = j => h <= l
  BY Header DEF IInv, SetsAreTrees
<1> HIDE DEF h
<1>2. Parent(h) \in Nat /\ Parent(h) < h /\ (Parent(h) # 0 => Parent(h) \in Loops) /\ h \in Nat
  BY <1>1, FactsOf DEF IInv, VarTypes
<1>3. ~HasParentInSet(h)
  BY <1>1, <1>2 DEF HasParentInSet
<1>4. QED
  BY <1>3 DEF h

LEMMA SplitSetScales ==
  ASSUME IInv, OuterScales, stage = "sets",
         NEW l \in Loops, NEW outer \in Nat, <<l, outer>> \in agenda,
         SplitSet(l, outer), UNCHANGED <<loops, stage, set, dynamic>>
  PROVE  OuterScales'
<1> DEFINE S == SplitOff(l)
           n == LOOP_SF_SET
<1>1. /\ SetColor[l] = set
      /\ HasParentInSet(l)
      /\ SetColor' = [k \in Loops |-> IF k \in S THEN n ELSE SetColor[k]]
      /\ agenda' = agenda \ {<<l, outer>>}
      /\ UNCHANGED <<loops, set, counter>>
  BY DEF SplitSet, Splits
<1>2. /\ loops \in LoopFacts
      /\ set \in Nat /\ set # 0 /\ set < n
      /\ n \in Nat \ {0}
      /\ agenda \subseteq Loops \X Nat
  BY DEF IInv, VarTypes, Fresh
<1>3. \A k \in Loops : /\ k \in Nat
                       /\ Parent(k) # 0 => Parent(k) \in Loops
                       /\ Parent(k)' = Parent(k)
  BY <1>1, <1>2, FactsOf DEF Parent
<1>4. \A k \in Loops : SetColor'[k] = set => SetColor[k] = set
  BY <1>1, <1>2
<1>5. SetHeader(set)' = SetHeader(set)
  <2> DEFINE h == SetHeader(set)
             m == Min({k \in Loops : SetColor'[k] = set})
  <2>1. h \in Loops /\ SetColor[h] = set /\ (\A k \in Loops : SetColor[k] = set => h <= k)
    BY <1>2, Header DEF IInv, SetsAreTrees
  <2>2. ~HasParentInSet(h)
    BY <1>2, HeaderIsTop
  <2> HIDE DEF h
  <2>3. h \notin S
    <3>1. \A k \in S : SetColor[k] = set
      BY <1>1, <1>2, SplitOffIsBelow
    <3>2. h \in S => h = l \/ (Parent(h) # 0 /\ Parent(h) \in S)
      BY <1>2, <2>1, SplitOffIs
    <3>3. QED
      BY <1>1, <2>1, <2>2, <3>1, <3>2 DEF HasParentInSet
  <2>4. SetColor'[h] = set
    BY <1>1, <2>1, <2>3
  <2>5. m \in {k \in Loops : SetColor'[k] = set} /\ m \in Loops /\ m <= h
    <3>1. h \in {k \in Loops : SetColor'[k] = set}
      BY <2>1, <2>4
    <3>2. QED
      BY <3>1, OutermostLoop
  <2> HIDE DEF m
  <2>6. m = h
    BY <1>3, <1>4, <2>1, <2>5
  <2>7. SetHeader(set)' = m
    BY <1>1 DEF SetHeader, InSet, m
  <2>8. QED
    BY <2>6, <2>7 DEF h
<1>6. CountersExact'
  BY <1>1, SameExact DEF OuterScales
<1>7. ASSUME NEW v \in agenda', SetColor'[v[1]] = set, HasParentInSet(v[1])'
      PROVE  v[2] = RunsPerEntry(Parent(v[1]), SetHeader(set))
  <2>1. v \in agenda /\ v[1] \in Loops
    BY <1>1, <1>2
  <2>2. Parent(v[1]) # 0 /\ SetColor'[Parent(v[1])] = set
    BY <1>3, <1>7, <2>1 DEF HasParentInSet
  <2>3. SetColor[v[1]] = set /\ SetColor[Parent(v[1])] = set
    BY <1>3, <1>4, <1>7, <2>1, <2>2
  <2>4. QED
    BY <2>1, <2>2, <2>3 DEF OuterScales, HasParentInSet
<1>8. \A v \in agenda' : SetColor'[v[1]] = set' /\ HasParentInSet(v[1])' =>
        v[2] = RunsPerEntry(Parent(v[1]), SetHeader(set))'
  <2>1. \A k, a : RunsPerEntry(k, a)' = RunsPerEntry(k, a)
    BY <1>1, SameRuns
  <2>2. \A v \in agenda' : v[1] \in Loops
    BY <1>1, <1>2
  <2>3. QED
    BY <1>1, <1>3, <1>5, <1>7, <2>1, <2>2
<1>9. QED
  BY <1>6, <1>8 DEF OuterScales

(* What is handed to the loops below l is how often l runs per entry.      *)
LEMMA ScaleOfLoop ==
  ASSUME IInv, OuterScales, CountsFit, set # 0,
         NEW l \in Loops, NEW outer \in Nat, <<l, outer>> \in agenda,
         SetColor[l] = set, ~Splits(l)
  PROVE  ScaledBy(l, outer) = RunsPerEntry(l, SetHeader(set))
<1> DEFINE h == SetHeader(set)
           m == 2^CounterBits
<1>1. /\ loops \in LoopFacts
      /\ set \in Nat /\ set < LOOP_SF_SET
  BY DEF IInv, VarTypes
<1>2. h \in Loops /\ ~HasParentInSet(h)
  BY <1>1, Header, HeaderIsTop DEF IInv, SetsAreTrees
<1>3. l = h \/ HasParentInSet(l)
  BY DEF IInv, SetsAreTrees
<1>4. /\ RunsPerEntry(l, h) \in Nat
      /\ RunsPerEntry(l, h) < m
      /\ m \in Nat \ {0}
  BY <1>1, <1>2, RunsPerEntryIs, Moduli DEF CountsFit
<1>5. RunsPerEntry(l, h) = IF l = h THEN loops[l].btc + 1
                           ELSE IF Parent(l) = 0 \/ ~loops[l].always THEN 0
                           ELSE (loops[l].btc + 1) * RunsPerEntry(Parent(l), h)
  BY <1>1, <1>2, RunsPerEntryIs
<1>6. ScaleFactor(l) = loops[l].btc + 1 /\ loops[l].btc \in Nat
  <2>1. ScaleFactor(l) # 0
    BY DEF IInv, SetsAreTrees
  <2>2. loops[l].scev = "constant" /\ loops[l].btc \in Nat
    BY <1>1, <2>1, FactsOf
  <2>3. QED
    BY <2>2 DEF CountsFit, ScaleFactor
<1> HIDE DEF h, m
<1>7. CASE l = h
  <2>1. ScaledBy(l, outer) = (ScaleFactor(l) * 1) % m
    BY <1>2, <1>7 DEF ScaledBy, m
  <2>2. ScaleFactor(l) * 1 = RunsPerEntry(l, h)
    BY <1>5, <1>6, <1>7
  <2>3. ScaledBy(l, outer) = RunsPerEntry(l, h)
    BY <1>4, <2>1, <2>2, Wraps
  <2>4. QED
    BY <2>3 DEF h
<1>8. CASE l # h
  <2>1. HasParentInSet(l) /\ loops[l].always /\ Parent(l) # 0
    BY <1>3, <1>8 DEF Splits, HasParentInSet
  <2>2. outer = RunsPerEntry(Parent(l), h)
    <3>1. \A v \in agenda : SetColor[v[1]] = set /\ HasParentInSet(v[1]) =>
            v[2] = RunsPerEntry(Parent(v[1]), h)
      BY DEF OuterScales, h
    <3>2. <<l, outer>>[1] = l /\ <<l, outer>>[2] = outer
      OBVIOUS
    <3>3. QED
      BY <2>1, <3>1, <3>2
  <2>3. ScaledBy(l, outer) = (ScaleFactor(l) * outer) % m
    BY <2>1 DEF ScaledBy, m
  <2>4. ScaleFactor(l) * outer = RunsPerEntry(l, h)
    BY <1>5, <1>6, <1>8, <2>1, <2>2
  <2>5. ScaledBy(l, outer) = RunsPerEntry(l, h)
    BY <1>4, <2>3, <2>4, Wraps
  <2>6. QED
    BY <2>5 DEF h
<1>9. QED
  BY <1>7, <1>8

LEMMA HoistLoopScales ==
  ASSUME IInv, OuterScales, CountsFit, stage = "sets",
         NEW l \in Loops, NEW outer \in Nat, <<l, outer>> \in agenda,
         HoistLoop(l, outer), UNCHANGED <<loops, stage, set, dynamic>>
  PROVE  OuterScales'
<1> DEFINE sf == ScaledBy(l, outer)
           every == OfLoop(l, "every")
           some == OfLoop(l, "some")
           h == SetHeader(set)
<1>1. /\ SetColor[l] = set /\ ~Splits(l)
      /\ counter' = [b \in Blocks |-> IF b \in every THEN [before |-> h, scale |-> sf]
                                      ELSE IF b \in some THEN InPlace ELSE counter[b]]
      /\ agenda' = (agenda \ {<<l, outer>>}) \cup {<<c, sf>> : c \in Children(l)}
      /\ UNCHANGED <<loops, SetColor, set>>
  BY DEF HoistLoop
<1>2. set # 0
  BY DEF IInv, Fresh
<1>3. sf = RunsPerEntry(l, h)
  BY <1>1, <1>2, ScaleOfLoop
<1>4. /\ \A k, a : RunsPerEntry(k, a)' = RunsPerEntry(k, a)
      /\ \A k : /\ Parent(k)' = Parent(k)
                /\ HasParentInSet(k)' <=> HasParentInSet(k)
                /\ SetHeader(k)' = SetHeader(k)
  BY <1>1, SameRuns, SameSets
<1>5. /\ \A b \in every : b = <<l, "every">>
      /\ InPlace.before = 0
      /\ Children(l) = {c \in Loops : Parent(c) = l}
  BY DEF OfLoop, InPlace, Children
<1>6. h' = h
  BY <1>1 DEF SetHeader, InSet
<1> HIDE DEF sf, every, some, h
<1>7. CountersExact'
  <2> SUFFICES ASSUME NEW b \in Blocks, counter'[b].before # 0
               PROVE  b[2] = "every" /\ counter'[b].scale = RunsPerEntry(b[1], counter'[b].before)
    BY <1>4 DEF CountersExact
  <2>1. CASE b \in every
    BY <1>1, <1>3, <1>5, <2>1
  <2>2. CASE b \notin every
    BY <1>1, <1>5, <2>2 DEF OuterScales, CountersExact
  <2>3. QED
    BY <2>1, <2>2
<1>8. ASSUME NEW v \in agenda', SetColor[v[1]] = set, HasParentInSet(v[1])
      PROVE  v[2] = RunsPerEntry(Parent(v[1]), h)
  <2>1. CASE v \in agenda
    BY <1>8, <2>1 DEF OuterScales, h
  <2>2. CASE v \in {<<c, sf>> : c \in Children(l)}
    BY <1>3, <1>5, <2>2
  <2>3. QED
    BY <1>1, <1>8, <2>1, <2>2
<1>9. \A v \in agenda' : SetColor'[v[1]] = set' /\ HasParentInSet(v[1])' =>
        v[2] = RunsPerEntry(Parent(v[1]), SetHeader(set))'
  BY <1>1, <1>4, <1>6, <1>8 DEF h
<1>10. QED
  BY <1>7, <1>9 DEF OuterScales

LEMMA DynamicLoopScales ==
  ASSUME IInv, OuterScales, CountsFit, NEW l \in Loops, instrumentDynamicLoop(l)
  PROVE  OuterScales'
<1> DEFINE every == OfLoop(l, "every")
           some == OfLoop(l, "some")
           in_place == LeftInPlace(l, every, some)
           hoisted == IF Hoists(l) THEN every ELSE {}
<1>1. /\ stage = "dynamic"
      /\ counter' = [b \in Blocks |-> IF b \in in_place THEN InPlace
                                      ELSE IF b \in hoisted THEN DynamicCounter(l)
                                      ELSE counter[b]]
      /\ UNCHANGED <<loops, stage, SetColor, LOOP_SF_SET, set, agenda>>
  BY DEF instrumentDynamicLoop
<1>2. agenda = {}
  BY <1>1 DEF IInv, Fresh
<1>3. DynamicCounter(l) = [before |-> l, scale |-> RunsPerEntry(l, l)]
  <2>1. loops \in LoopFacts
    BY DEF IInv, VarTypes
  <2>2. /\ RunsPerEntry(l, l) = loops[l].btc + 1
        /\ RunsPerEntry(l, l) \in Nat
        /\ RunsPerEntry(l, l) < 2^CounterBits
    BY <2>1, RunsPerEntryIs DEF CountsFit
  <2>3. (loops[l].btc + 1) % 2^CounterBits = RunsPerEntry(l, l)
    BY <2>2, Moduli, Wraps
  <2>4. QED
    BY <2>3 DEF DynamicCounter
<1>4. /\ \A b \in hoisted : b = <<l, "every">>
      /\ InPlace.before = 0
  BY DEF OfLoop, InPlace
<1>5. \A k, a : RunsPerEntry(k, a)' = RunsPerEntry(k, a)
  BY <1>1, SameRuns
<1> HIDE DEF in_place, hoisted
<1>6. CountersExact'
  <2> SUFFICES ASSUME NEW b \in Blocks, counter'[b].before # 0
               PROVE  b[2] = "every" /\ counter'[b].scale = RunsPerEntry(b[1], counter'[b].before)
    BY <1>5 DEF CountersExact
  <2>1. CASE b \in hoisted /\ b \notin in_place
    BY <1>1, <1>3, <1>4, <2>1
  <2>2. CASE b \notin hoisted \/ b \in in_place
    BY <1>1, <1>4, <2>2 DEF OuterScales, CountersExact
  <2>3. QED
    BY <2>1, <2>2
<1>7. QED
  BY <1>1, <1>2, <1>6 DEF OuterScales

LEMMA StepScales == IInv /\ OuterScales /\ CountsFit /\ [Next]_vars => OuterScales' /\ CountsFit'
<1> SUFFICES ASSUME IInv, OuterScales, CountsFit, [Next]_vars PROVE OuterScales' /\ CountsFit'
  OBVIOUS
<1>1. loops' = loops
  BY DEF Next, vars, colorLoopTreeSF, NextSet, instrumentSFLoopSet, instrumentDynamicLoop,
         SkipStaticLoop, DynamicDone, InstrumentRest, Finished
<1>2. SUFFICES OuterScales'
  BY <1>1, SameFit
<1>3. ASSUME agenda' = {}, CountersExact' PROVE OuterScales'
  BY <1>3 DEF OuterScales
<1>4. CASE colorLoopTreeSF
  <2>1. agenda' = {} /\ UNCHANGED <<loops, counter>>
    BY <1>4 DEF colorLoopTreeSF, IInv, Fresh
  <2>2. QED
    BY <1>3, <2>1, SameExact DEF OuterScales
<1>5. CASE NextSet
  <2>1. UNCHANGED <<loops, counter>>
    BY <1>5 DEF NextSet
  <2>2. CountersExact'
    BY <2>1, SameExact DEF OuterScales
  <2>3. CASE FollowedBySet(set)
    <3> DEFINE j == set + 1
    <3>1. /\ set' = j /\ agenda' = {<<SetHeader(j), 1>>}
          /\ UNCHANGED <<loops, SetColor>>
          /\ j \in Nat /\ j # 0 /\ j < LOOP_SF_SET
      BY <1>5, <2>3 DEF NextSet, FollowedBySet, IInv, VarTypes
    <3>2. ~HasParentInSet(SetHeader(j))
      BY <3>1, HeaderIsTop
    <3>3. \A k : HasParentInSet(k)' <=> HasParentInSet(k)
      BY <3>1, SameSets
    <3>4. \A v \in agenda' : v[1] = SetHeader(j)
      BY <3>1
    <3> HIDE DEF j
    <3>5. \A v \in agenda' : ~HasParentInSet(v[1])'
      BY <3>2, <3>3, <3>4
    <3>6. QED
      BY <2>2, <3>5 DEF OuterScales
  <2>4. CASE ~FollowedBySet(set)
    BY <1>3, <1>5, <2>2, <2>4 DEF NextSet
  <2>5. QED
    BY <2>3, <2>4
<1>6. CASE instrumentSFLoopSet
  <2>1. stage = "sets" /\ UNCHANGED <<loops, stage, set, dynamic>>
    BY <1>6 DEF instrumentSFLoopSet
  <2>2. PICK visit \in agenda : \/ SkipLoop(visit[1], visit[2])
                                \/ SplitSet(visit[1], visit[2])
                                \/ HoistLoop(visit[1], visit[2])
    BY <1>6 DEF instrumentSFLoopSet
  <2>3. PICK l \in Loops, outer \in Nat : visit = <<l, outer>>
    BY DEF IInv, VarTypes
  <2>4. visit[1] = l /\ visit[2] = outer /\ <<l, outer>> \in agenda
    BY <2>3
  <2>5. CASE SkipLoop(l, outer)
    <3>1. /\ UNCHANGED <<loops, counter, set, SetColor>>
          /\ agenda' \subseteq agenda
      BY <2>1, <2>5 DEF SkipLoop
    <3>2. CountersExact'
      BY <3>1, SameExact DEF OuterScales
    <3>3. /\ \A k, a : RunsPerEntry(k, a)' = RunsPerEntry(k, a)
          /\ \A k : /\ Parent(k)' = Parent(k)
                    /\ HasParentInSet(k)' <=> HasParentInSet(k)
                    /\ SetHeader(k)' = SetHeader(k)
      BY <3>1, SameRuns, SameSets
    <3>4. SetHeader(set)' = SetHeader(set)
      BY <3>1 DEF SetHeader, InSet
    <3>5. \A v \in agenda' : SetColor'[v[1]] = set' /\ HasParentInSet(v[1])' =>
            v[2] = RunsPerEntry(Parent(v[1]), SetHeader(set))'
      BY <3>1, <3>3, <3>4 DEF OuterScales
    <3>6. QED
      BY <3>2, <3>5 DEF OuterScales
  <2>6. CASE SplitSet(l, outer) \/ HoistLoop(l, outer)
    BY <2>1, <2>4, <2>6, SplitSetScales, HoistLoopScales
  <2>7. QED
    BY <2>2, <2>4, <2>5, <2>6
<1>7. ASSUME NEW l \in Loops, instrumentDynamicLoop(l) PROVE OuterScales'
  BY <1>7, DynamicLoopScales
<1>8. ASSUME UNCHANGED <<loops, agenda, counter, set, SetColor>> PROVE OuterScales'
  <2>1. CountersExact'
    BY <1>8, SameExact DEF OuterScales
  <2>2. /\ \A k, a : RunsPerEntry(k, a)' = RunsPerEntry(k, a)
        /\ \A k : /\ Parent(k)' = Parent(k)
                  /\ HasParentInSet(k)' <=> HasParentInSet(k)
    BY <1>8, SameRuns, SameSets
  <2>3. SetHeader(set)' = SetHeader(set)
    BY <1>8 DEF SetHeader, InSet
  <2>4. \A v \in agenda' : SetColor'[v[1]] = set' /\ HasParentInSet(v[1])' =>
          v[2] = RunsPerEntry(Parent(v[1]), SetHeader(set))'
    BY <1>8, <2>2, <2>3 DEF OuterScales
  <2>5. QED
    BY <2>1, <2>4 DEF OuterScales
<1>9. CASE InstrumentRest
  <2>1. /\ agenda' = {} /\ loops' = loops
        /\ counter' = [b \in Blocks |-> IF b \in pragmaBlocks THEN InPlace ELSE counter[b]]
    BY <1>9 DEF InstrumentRest, IInv, Fresh
  <2>2. InPlace.before = 0
    BY DEF InPlace
  <2>3. \A k, a : RunsPerEntry(k, a)' = RunsPerEntry(k, a)
    BY <2>1, SameRuns
  <2>4. CountersExact'
    BY <2>1, <2>2, <2>3 DEF OuterScales, CountersExact
  <2>5. QED
    BY <1>3, <2>1, <2>4
<1>10. QED
  BY <1>4, <1>5, <1>6, <1>7, <1>8, <1>9
     DEF Next, SkipStaticLoop, DynamicDone, Finished, vars

(* For any loop tree whose trip counts fit the counters, a hoisted counter,*)
(* scaled, is the number of times its block runs: through any nest of      *)
(* loops, and for sets split on the way as for the others.                 *)
THEOREM HoistedCountersAreExact == Spec /\ CountsFit => []CountersExact
<1>1. Init => OuterScales
  BY InitScales
<1>2. IInv /\ OuterScales /\ CountsFit /\ [Next]_vars => OuterScales' /\ CountsFit'
  BY StepScales
<1>3. OuterScales => CountersExact
  BY DEF OuterScales
<1>4. QED
  BY <1>1, <1>2, <1>3, HoistingInvariance, PTL DEF Spec

=============================================================================
