----------------------------- MODULE LoopHoisting -----------------------------
(***************************************************************************)
(* How the pass places the counters of a region that has loops             *)
(* (zray_loop.cc): a nest of loops with constant trip counts gets one      *)
(* counter before its outermost loop, scaled by the trip counts; a loop    *)
(* whose trip count is known on entry gets one before it, scaled at run    *)
(* time; all other blocks are counted where they stand.                    *)
(*                                                                         *)
(* Loops are numbered outside in.  A loop has a block "every" that runs in *)
(* each of its iterations (it post-dominates the header) and a block       *)
(* "some" that does not; each stands for all the blocks of its kind that   *)
(* are in the loop and in none of its subloops.  Loop 0 is the code        *)
(* outside the loops.  All blocks belong to the region.                    *)
(***************************************************************************)
EXTENDS Integers, FiniteSets, FiniteSetsExt

CONSTANTS
  LoopCount,         \* loops the region's loop tree holds
  BTCs,              \* possible backedge-taken counts
  IndexBits,         \* width of the type the loops count in
  CounterBits,       \* width of size_t
  ApplyLoopHoisting  \* the -loophoist option

ASSUME LoopAssumption ==
  /\ LoopCount \in Nat
  /\ IndexBits \in Nat \ {0, 1}
  /\ CounterBits \in Nat /\ CounterBits >= IndexBits
  /\ BTCs \subseteq 0 .. 2^IndexBits - 1
  /\ {2^(IndexBits - 1), 2^IndexBits, 2^CounterBits} \subseteq Nat \ {0}  \* as powers are
  /\ ApplyLoopHoisting \in BOOLEAN

Loops == 1 .. LoopCount
Blocks == (Loops \X {"every", "some"}) \cup {<<0, "every">>}

VARIABLES
  loops,         \* what LLVM's analyses say of the loops
  stage,
  SetColor,      \* the scale-factor set of each loop, 0 for none
  LOOP_SF_SET,   \* next set to hand out
  set,           \* the set being instrumented
  agenda,        \* its loops still to visit, with the outer scale factor
  dynamic,       \* loops the dynamic pass has still to visit
  pragmaBlocks,  \* blocks not given to a counter yet
  counter        \* where each block is counted, and the scale

vars == <<loops, stage, SetColor, LOOP_SF_SET, set, agenda, dynamic, pragmaBlocks, counter>>

\* A count of the loop's own type is printed as a signed number and read back
\* as a size_t.
Reread(btc) ==
  (IF btc < 2^(IndexBits - 1) THEN btc ELSE btc - 2^IndexBits) % 2^CounterBits

\* A loop's parent; its backedge-taken count when scalar evolution finds it
\* to be a constant or an invariant of the loop; whether its header
\* post-dominates its parent's header; whether scalar evolution loses the
\* count once the edge into the loop has been split.  A constant that reads
\* back as the largest size_t stops the pass (ASSERT in getLoopTripCount).
LoopFacts ==
  {f \in [Loops -> [parent : 0 .. LoopCount, scev : {"constant", "invariant", "none"},
                    btc : BTCs, always : BOOLEAN, loses : BOOLEAN]] :
     \A l \in Loops :
       /\ f[l].parent < l
       /\ f[l].parent = 0 => ~f[l].always
       /\ f[l].scev # "invariant" => ~f[l].loses
       /\ f[l].scev = "none" => f[l].btc = Min(BTCs)
       /\ f[l].scev = "constant" => Reread(f[l].btc) # 2^CounterBits - 1}

Parent(l) == loops[l].parent
Children(l) == {c \in Loops : Parent(c) = l}

NoCounter == [before |-> 0, scale |-> 0]  \* not counted
InPlace == [before |-> 0, scale |-> 1]    \* counted where the block stands

Init ==
  /\ loops \in LoopFacts
  /\ stage = IF ApplyLoopHoisting THEN "color" ELSE "rest"
  /\ SetColor = [l \in Loops |-> 0]
  /\ LOOP_SF_SET = 1
  /\ set = 0
  /\ agenda = {}
  /\ dynamic = Loops
  /\ pragmaBlocks = Blocks
  /\ counter = [b \in Blocks |-> NoCounter]

-----------------------------------------------------------------------------
InSet(j) == {l \in Loops : SetColor[l] = j}

-----------------------------------------------------------------------------
\* getLoopTripCount: 0 when the count is no constant.
ScaleFactor(l) == IF loops[l].scev = "constant" THEN Reread(loops[l].btc) + 1 ELSE 0

\* A loop joins its parent's set if the parent has one, else starts its own.
Roots == {l \in Loops : ScaleFactor(l) # 0 /\ (Parent(l) = 0 \/ ScaleFactor(Parent(l)) = 0)}

color[l \in Loops] ==
  IF ScaleFactor(l) = 0 THEN 0
  ELSE IF l \in Roots THEN Cardinality({k \in Roots : k <= l})
  ELSE color[Parent(l)]

colorLoopTreeSF ==
  /\ stage = "color"
  /\ SetColor' = color
  /\ LOOP_SF_SET' = 1 + Cardinality(Roots)
  /\ stage' = "sets"
  /\ UNCHANGED <<loops, set, agenda, dynamic, pragmaBlocks, counter>>

\* The set's outermost loop, in whose preheader its counter goes.
SetHeader(j) == Min(InSet(j))

\* Mutated form: only the sets of the first coloring.
FirstSets(j) == j < Cardinality(Roots)

\* Sets up to LOOP_SF_SET are instrumented, those split off on the way too.
FollowedBySet(j) == j + 1 < LOOP_SF_SET

NextSet ==
  /\ stage = "sets"
  /\ agenda = {}
  /\ IF FollowedBySet(set)
     THEN /\ set' = set + 1
          /\ agenda' = {<<SetHeader(set + 1), 1>>}
          /\ UNCHANGED stage
     ELSE /\ stage' = "dynamic"
          /\ UNCHANGED <<set, agenda>>
  /\ UNCHANGED <<loops, SetColor, LOOP_SF_SET, dynamic, pragmaBlocks, counter>>

-----------------------------------------------------------------------------
(* instrumentSFLoopSet, one loop of the tree at a time.                    *)

HasParentInSet(l) == Parent(l) # 0 /\ SetColor[Parent(l)] = SetColor[l]

\* Mutated forms: a loop that some iterations of its parent miss stays in the
\* set; its whole set is split off; counted blocks stay in the pool.
NeverSplits(l) == FALSE
WholeSet(l) == InSet(SetColor[l])
StaysInPool(blocks) == pragmaBlocks

\* The counter before the set cannot speak for a loop that some iterations
\* of its parent miss.
Splits(l) == HasParentInSet(l) /\ ~loops[l].always

ScaledBy(l, outer) ==
  (ScaleFactor(l) * IF HasParentInSet(l) THEN outer ELSE 1) % 2^CounterBits

Taken(blocks) == pragmaBlocks \ blocks

OfLoop(l, kind) == {b \in pragmaBlocks : b = <<l, kind>>}

SkipLoop(l, outer) ==
  /\ SetColor[l] # set
  /\ agenda' = agenda \ {<<l, outer>>}
  /\ UNCHANGED <<SetColor, LOOP_SF_SET, pragmaBlocks, counter>>

\* recolorSFLoopSet: the loop and those below it in the set become a new set.
SplitOff(l) ==
  LET below[k \in Loops] ==
        k = l \/ (Parent(k) # 0 /\ below[Parent(k)] /\ SetColor[k] = SetColor[l])
  IN  {k \in Loops : below[k]}

SplitSet(l, outer) ==
  /\ SetColor[l] = set
  /\ Splits(l)
  /\ SetColor' = [k \in Loops |-> IF k \in SplitOff(l) THEN LOOP_SF_SET ELSE SetColor[k]]
  /\ LOOP_SF_SET' = LOOP_SF_SET + 1
  /\ agenda' = agenda \ {<<l, outer>>}
  /\ UNCHANGED <<pragmaBlocks, counter>>

HoistLoop(l, outer) ==
  LET sf    == ScaledBy(l, outer)
      every == OfLoop(l, "every")
      some  == OfLoop(l, "some")
  IN  /\ SetColor[l] = set
      /\ ~Splits(l)
      /\ counter' = [b \in Blocks |->
                       IF b \in every THEN [before |-> SetHeader(set), scale |-> sf]
                       ELSE IF b \in some THEN InPlace
                       ELSE counter[b]]
      /\ pragmaBlocks' = Taken(every \cup some)
      /\ agenda' = (agenda \ {<<l, outer>>}) \cup {<<c, sf>> : c \in Children(l)}
      /\ UNCHANGED <<SetColor, LOOP_SF_SET>>

instrumentSFLoopSet ==
  /\ stage = "sets"
  /\ \E visit \in agenda : \/ SkipLoop(visit[1], visit[2])
                           \/ SplitSet(visit[1], visit[2])
                           \/ HoistLoop(visit[1], visit[2])
  /\ UNCHANGED <<loops, stage, set, dynamic>>

-----------------------------------------------------------------------------
(* _instrumentDynamicLoops: the loops that are in no set, outside in.      *)

IsNext(l) == l \in dynamic /\ \A k \in dynamic : l <= k

\* Mutated form: no fallback for a loop whose count is not known.
OnlySome(l, every, some) == some

\* insertDynamicLoopCounter gives up when splitting the edge loses the count.
Hoists(l) == loops[l].scev = "invariant" /\ ~loops[l].loses

\* Evaluated at each entry of the loop, from the backedge-taken count.
DynamicCounter(l) == [before |-> l, scale |-> (loops[l].btc + 1) % 2^CounterBits]

\* What is counted where it stands.  When the count is lost, the code looks in
\* the pool for the loop's blocks, which it has already taken out of it.
LeftInPlace(l, every, some) ==
  CASE loops[l].scev = "none" -> every \cup some
    [] loops[l].loses         -> Taken(every \cup some) \cap (every \cup some)
    [] OTHER                  -> some

instrumentDynamicLoop(l) ==
  LET every    == OfLoop(l, "every")
      some     == OfLoop(l, "some")
      in_place == LeftInPlace(l, every, some)
      hoisted  == IF Hoists(l) THEN every ELSE {}
  IN  /\ stage = "dynamic"
      /\ IsNext(l)
      /\ SetColor[l] = 0
      /\ counter' = [b \in Blocks |->
                       IF b \in in_place THEN InPlace
                       ELSE IF b \in hoisted THEN DynamicCounter(l)
                       ELSE counter[b]]
      /\ pragmaBlocks' = Taken(every \cup some)
      /\ dynamic' = dynamic \ {l}
      /\ UNCHANGED <<loops, stage, SetColor, LOOP_SF_SET, set, agenda>>

SkipStaticLoop(l) ==
  /\ stage = "dynamic"
  /\ IsNext(l)
  /\ SetColor[l] # 0
  /\ dynamic' = dynamic \ {l}
  /\ UNCHANGED <<loops, stage, SetColor, LOOP_SF_SET, set, agenda, pragmaBlocks, counter>>

DynamicDone ==
  /\ stage = "dynamic"
  /\ dynamic = {}
  /\ stage' = "rest"
  /\ UNCHANGED <<loops, SetColor, LOOP_SF_SET, set, agenda, dynamic, pragmaBlocks, counter>>

\* instrumentPostDomSet takes what is left of the region, one counter for
\* each class of blocks that run equally often.
InstrumentRest ==
  /\ stage = "rest"
  /\ counter' = [b \in Blocks |-> IF b \in pragmaBlocks THEN InPlace ELSE counter[b]]
  /\ pragmaBlocks' = {}
  /\ stage' = "done"
  /\ UNCHANGED <<loops, SetColor, LOOP_SF_SET, set, agenda, dynamic>>

Finished == stage = "done" /\ UNCHANGED vars

Next ==
  \/ colorLoopTreeSF
  \/ NextSet
  \/ instrumentSFLoopSet
  \/ \E l \in Loops : instrumentDynamicLoop(l) \/ SkipStaticLoop(l)
  \/ DynamicDone
  \/ InstrumentRest
  \/ Finished

Spec == Init /\ [][Next]_vars

-----------------------------------------------------------------------------
(* Properties.                                                             *)

Counted(b) == counter[b] # NoCounter

\* Type invariant: a block is in the pool exactly until it is given a counter
\* or its loop's count is lost.
TypeOK ==
  /\ stage \in {"color", "sets", "dynamic", "rest", "done"}
  /\ SetColor \in [Loops -> 0 .. LOOP_SF_SET - 1]
  /\ set \in 0 .. LOOP_SF_SET - 1
  /\ agenda \subseteq Loops \X Nat
  /\ dynamic \subseteq Loops
  /\ \A b \in Blocks : Counted(b) => b \notin pragmaBlocks

\* How often "every" of loop l runs for one entry of loop a; 0 when that is
\* not fixed by the trip counts.
RunsPerEntry(l, a) ==
  LET runs[k \in Loops] ==
        IF k = a THEN loops[k].btc + 1
        ELSE IF Parent(k) = 0 \/ ~loops[k].always THEN 0
        ELSE (loops[k].btc + 1) * runs[Parent(k)]
  IN  runs[l]

\* The counter of a hoisted block, scaled, is the number of times the block
\* runs: one entry of the loop it stands before runs the block "scale" times,
\* through any nest of loops (zray_loop.cc 392-402).
CountersExact ==
  \A b \in Blocks :
    counter[b].before # 0 =>
      b[2] = "every" /\ counter[b].scale = RunsPerEntry(b[1], counter[b].before)

\* Every set handed out has a loop to put its counter before, also after sets
\* were split: findLoopTreeSet finds one, which runOnModule relies on
\* (zray_pass.cc 1022-1029).
SetsHaveHeaders ==
  \A j \in 1 .. LOOP_SF_SET - 1 : InSet(j) # {}

\* "loop blocks are claimed and erased from npd ... before this runs, so the
\* pool is at one nesting level" (zray_pass.cc 104-107): shared counters
\* never mix blocks of different loops.
LoopBlocksClaimed ==
  (stage = "rest" /\ ApplyLoopHoisting) => pragmaBlocks \subseteq {<<0, "every">>}

\* When the region is done a block has a counter unless its loop's trip count
\* was lost after the loop had been taken up for hoisting.
BlocksCounted ==
  stage = "done" => \A b \in Blocks :
                      Counted(b) \/ (b[1] # 0 /\ loops[b[1]].loses)

\* A block that has a counter never gets another one: nothing is counted
\* twice, whatever sets and passes its loop goes through.
CountersKept ==
  [][\A b \in Blocks : Counted(b) => counter'[b] = counter[b]]_vars
=============================================================================
