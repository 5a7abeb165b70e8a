---------------------------- MODULE RegionCounters ----------------------------
(***************************************************************************)
(* What InstrumentPragmaRegion (zray_pass.cc) makes of the regions that    *)
(* RegionDiscovery found in a function, and what the counters then hold    *)
(* when the function runs: bounds and begin block of a region, counters    *)
(* shared by control-equivalent blocks, counters hoisted out of loops, the *)
(* entry event, and the order in which all of them stand in the code.      *)
(*                                                                         *)
(* Loops here have a trip count known on entry or none; sets of loops with *)
(* constant counts are LoopHoisting's.  A region's sets are numbered from  *)
(* 1.  The function runs once, outside any other region; the runtime it    *)
(* calls is RegionRuntime's, with rows for regions and no sampling.        *)
(***************************************************************************)
EXTENDS RegionDiscovery

CONSTANT MaxSteps  \* bound: blocks a run passes

VARIABLES
  region,   \* the next region to instrument
  head,     \* the events each block starts with
  sets,     \* of each region: what each of its counters stands for
  at,       \* the block to run next
  steps,
  runtime,  \* what the calls into the runtime did
  ran,      \* history: how often each block ran
  within    \* history: blocks that ran, with the regions open then

vars == <<discoveryVars, region, head, sets, at, steps, runtime, ran, within>>

\* One more x.
Added(bag, x) == bag (+) SetToBag({x})

\* The row counted into (0: counting is off), entries of each region, saved
\* rows; the counters; loops entered past a hoisted counter and the row it
\* adds to; exits without an entry and counters passed with counting off.
Idle == [row |-> 0, depth |-> [r \in 1 .. Cardinality(GroupIDs) |-> 0], save |-> <<>>,
         count |-> EmptyBag, pending |-> {}, stray |-> {}, dropped |-> {}]

Init ==
  /\ DiscoveryInit
  /\ region = 1
  /\ head = <<>>
  /\ sets = <<>>
  /\ at = Entry
  /\ steps = 0
  /\ runtime = Idle
  /\ ran = EmptyBag
  /\ within = {}

Discover ==
  /\ DiscoveryNext
  /\ UNCHANGED <<region, head, sets, at, steps, runtime, ran, within>>

Found ==
  /\ stage = "record"
  /\ todo = <<>>
  /\ stage' = "instrument"
  /\ head' = [b \in Blocks |-> <<>>]
  /\ UNCHANGED <<succ, body, unsplit, OrderedCFG, PreDomTree, PostDomTree, LI, counted, todo,
                 BasicBlocksVisited, BasicBlockGroupList, exits,
                 region, sets, at, steps, runtime, ran, within>>

-----------------------------------------------------------------------------
(* The bounds of a region in OrderedCFG.                                   *)

Position(b) == SelectInSeq(OrderedCFG, LAMBDA c : c = b)
Positions(r) == {Position(b) : b \in Range(BBList(r))}

beginBlock(r) == OrderedCFG[Min(Positions(r))]

\* getPreviousBBOffset reaches one block further back, from the third on.
FirstPosition(r) ==
  LET first == Min(Positions(r))
  IN  IF first > 2 /\ Markers(beginBlock(r), "begin") # <<>> THEN first - 1 ELSE first

\* createLoopTree: both bounds count as inside, so a loop that follows the
\* region's last block does too.
LoopsOf(r) ==
  Among(OrderedCFG, {h \in Blocks : /\ LI[h] # {}
                                    /\ Position(h) \in FirstPosition(r) .. Max(Positions(r)) + 1})

-----------------------------------------------------------------------------
(* The sets of blocks that share a counter.                                *)

\* getUniqueLoopBB: blocks of the loop and of none of its subloops.
UniqueLoopBB(h) ==
  LI[h] \ UNION {LI[c] : c \in {k \in LI[h] \ {h} : LI[k] # {}}}

\* Mutated form: control equivalence is post-domination alone.
PostDominates(a, x) == <<x, a>> \in PostDomTree

\* One runs exactly when the other does.
ControlEquivalent(a, x) == <<x, a>> \in PostDomTree /\ <<a, x>> \in PreDomTree

\* The first block of the pool not yet in a set starts one, and takes all
\* later ones that are control equivalent to it.
createPostDomSets(pool) ==
  LET place(done, x) ==
        LET i == SelectInSeq(done, LAMBDA s : ControlEquivalent(Head(s.blocks), x))
        IN  IF i = 0 THEN Append(done, [blocks |-> <<x>>, loop |-> 0])
            ELSE [done EXCEPT ![i].blocks = Append(@, x)]
  IN  FoldLeft(place, <<>>, pool)

\* Mutated form: blocks that have a counter stay in the pool.
KeptInPool(pool, blocks) == pool

Erased(pool, blocks) == Among(pool, Range(pool) \ Range(blocks))

\* _instrumentDynamicLoops: the blocks that run in each iteration of a loop
\* with a known count are counted before it, the others where they stand.
InstrumentLoop(done, h) ==
  LET mine  == Among(done.pool, UniqueLoopBB(h))
      every == IF h \in counted THEN Among(mine, {b \in Blocks : <<b, h>> \in PostDomTree})
               ELSE <<>>
      some  == Erased(mine, every)
  IN  [pool |-> Erased(done.pool, mine),
       sets |-> done.sets
                  \o (IF every = <<>> THEN <<>> ELSE <<[blocks |-> every, loop |-> h]>>)
                  \o createPostDomSets(some)]

\* All sets of the region: those of its loops, then those of what is left.
SetsOf(r) ==
  LET done == FoldLeft(InstrumentLoop, [pool |-> BBList(r), sets |-> <<>>], LoopsOf(r))
  IN  done.sets \o createPostDomSets(done.pool)

-----------------------------------------------------------------------------
(* Placing the events.  Each goes to the head of its block, before those   *)
(* already there; the region's entry event comes last of all.              *)

Count(r, k) == [op |-> "count", region |-> r, set |-> k]
Hoist(r, k, h) == [op |-> "hoist", region |-> r, set |-> k, loop |-> h]
Enter(r) == [op |-> "enter", region |-> r]

EventsAt(r, b, mine) ==
  LET anchored == Among([k \in DOMAIN mine |-> k],
                        {k \in DOMAIN mine : mine[k].loop = 0 /\ Head(mine[k].blocks) = b})
  IN  (IF b = beginBlock(r) THEN <<Enter(r)>> ELSE <<>>)
        \o [i \in DOMAIN anchored |-> Count(r, anchored[i])]

\* llvm::SplitEdge from the loop's predecessor to its header.
SplitEdge(graph, h) ==
  LET p == CHOOSE b \in DOMAIN graph : h \in Range(graph[b]) /\ b \notin LI[h]
  IN  Append([graph EXCEPT ![p] = [i \in DOMAIN @ |-> IF @[i] = h THEN Len(graph) + 1 ELSE @[i]]],
             <<h>>)

InstrumentPragmaRegion ==
  LET r       == region
      mine    == SetsOf(r)
      hoisted == Among([k \in DOMAIN mine |-> k], {k \in DOMAIN mine : mine[k].loop # 0})
  IN  /\ stage = "instrument"
      /\ r \in Regions
      /\ sets' = Append(sets, mine)
      /\ succ' = FoldLeft(LAMBDA graph, k : SplitEdge(graph, mine[k].loop), succ, hoisted)
      /\ head' = [b \in Blocks |-> EventsAt(r, b, mine) \o head[b]]
                   \o [i \in DOMAIN hoisted |-> <<Hoist(r, hoisted[i], mine[hoisted[i]].loop)>>]
      /\ body' = body \o [i \in DOMAIN hoisted |-> <<>>]
      /\ exits' = exits \o [i \in DOMAIN hoisted |-> <<>>]
      /\ OrderedCFG' = orderBasicBlocks(succ')
      /\ PreDomTree' = DominatorTree(succ')
      /\ PostDomTree' = PostDominatorTree(succ')
      /\ LI' = LoopInfo(succ', PreDomTree')
      /\ region' = r + 1
      /\ UNCHANGED <<stage, unsplit, counted, todo, BasicBlocksVisited, BasicBlockGroupList,
                     at, steps, runtime, ran, within>>

Instrumented ==
  /\ stage = "instrument"
  /\ region \notin Regions
  /\ stage' = "run"
  /\ UNCHANGED <<succ, body, unsplit, OrderedCFG, PreDomTree, PostDomTree, LI, counted, todo,
                 BasicBlocksVisited, BasicBlockGroupList, exits,
                 region, head, sets, at, steps, runtime, ran, within>>

-----------------------------------------------------------------------------
(* A run of the function: what each event does in the runtime.             *)

\* startTimingEvent: the outermost entry saves the row and takes its own.
Entered(m, r) ==
  [m EXCEPT !.depth[r] = @ + 1,
            !.save = IF m.depth[r] = 0 THEN Append(@, m.row) ELSE @,
            !.row = IF m.depth[r] = 0 THEN r ELSE @]

\* endTimingEvent: the outermost exit restores the row saved last.
Exited(m, r) ==
  IF m.depth[r] = 0 THEN [m EXCEPT !.stray = @ \cup {r}]
  ELSE IF m.depth[r] > 1 THEN [m EXCEPT !.depth[r] = @ - 1]
  ELSE [m EXCEPT !.depth[r] = 0, !.row = Last(m.save), !.save = Front(m.save)]

\* incrementCounterArray looks at the set id only, and adds to the row in force.
InRow(m, e) == <<m.row, e.set>>

Counted(m, e) ==
  IF m.row = 0 THEN [m EXCEPT !.dropped = @ \cup {e.region}]
  ELSE [m EXCEPT !.count = Added(@, InRow(m, e))]

\* A hoisted counter adds the trip count before the loop is entered: one for
\* each time the header is going to run.
Hoisted(m, e) ==
  LET others == {p \in m.pending : <<p.loop, p.region>> # <<e.loop, e.region>>}
  IN  IF m.row = 0 THEN [m EXCEPT !.dropped = @ \cup {e.region}, !.pending = others]
      ELSE [m EXCEPT !.pending = others \cup
                       {[loop |-> e.loop, region |-> e.region, slot |-> InRow(m, e)]}]

Happened(m, e) ==
  CASE e.op = "enter" -> Entered(m, e.region)
    [] e.op = "count" -> Counted(m, e)
    [] e.op = "hoist" -> Hoisted(m, e)

\* The iteration that begins in block b is one of those added up before.
Iterated(m, b) ==
  [m EXCEPT !.count = FoldSet(LAMBDA p, bag : Added(bag, p.slot), @,
                              {p \in m.pending : p.loop = b})]

Open(m) == {r \in DOMAIN m.depth : m.depth[r] > 0}

RunBlock ==
  LET here == FoldLeft(Happened, Iterated(runtime, at), head[at])
  IN  /\ stage = "run"
      /\ steps < MaxSteps
      /\ steps' = steps + 1
      /\ runtime' = FoldLeft(Exited, here, exits[at])
      /\ IF at \in BasicBlocksVisited
         THEN ran' = Added(ran, at) /\ within' = within \cup {<<at, Open(here)>>}
         ELSE UNCHANGED <<ran, within>>
      /\ IF succ[at] = <<>>
         THEN stage' = "returned" /\ UNCHANGED at
         ELSE at' \in Range(succ[at]) /\ UNCHANGED stage
      /\ UNCHANGED <<succ, body, unsplit, OrderedCFG, PreDomTree, PostDomTree, LI, counted, todo,
                     BasicBlocksVisited, BasicBlockGroupList, exits, region, head, sets>>

\* The function has returned, or its run is longer than is followed.
Finished == (stage = "returned" \/ steps = MaxSteps) /\ UNCHANGED vars

Next == Discover \/ Found \/ InstrumentPragmaRegion \/ Instrumented \/ RunBlock \/ Finished

Spec == Init /\ [][Next]_vars

-----------------------------------------------------------------------------
(* Properties.                                                             *)

Ready == stage \in {"run", "returned"}

\* Type invariant, with what the split leaves to recordPragmaRegions: a block
\* has at most one BEGIN, before all else, and at most one END, after it.
TypeOK ==
  /\ stage \in {"split", "record", "instrument", "run", "returned"}
  /\ Len(body) = Len(succ)
  /\ \A b \in Blocks : Range(succ[b]) \subseteq Blocks
  /\ stage # "split" =>
       \A b \in Blocks : \A i \in DOMAIN body[b] :
         /\ body[b][i].op = "begin" => i = 1
         /\ body[b][i].op = "end" => i = Len(body[b])
  /\ runtime.row \in Nat

\* A block is in the list of a region exactly if the region is open whenever
\* it runs: where blocks are split, which path found them first and which
\* block takes the entry event make no difference.
BlocksInRegion ==
  \A w \in within : w[2] = {r \in Regions : w[1] \in Range(BBList(r))}

\* A run that returns has left each region as often as it entered it.
RegionsBalanced ==
  stage = "returned" => runtime.save = <<>> /\ Open(runtime) = {} /\ runtime.stray = {}

\* Where block b stands in the sets of mine.
Places(b, mine) ==
  UNION {{<<k, i>> : i \in {j \in DOMAIN mine[k].blocks : mine[k].blocks[j] = b}}
         : k \in DOMAIN mine}

\* Through all the passes over its loops each block of a region is put in
\* exactly one set, and no other block is in any ("resulting partition",
\* zray_pass.cc 116): nothing is counted twice or not at all.
SetsPartitionRegions ==
  Ready => \A r \in Regions :
    /\ \A b \in Range(BBList(r)) : Cardinality(Places(b, sets[r])) = 1
    /\ \A k \in DOMAIN sets[r] : Range(sets[r][k].blocks) \subseteq Range(BBList(r))

\* How often x was counted.
Times(x, bag) == IF x \in DOMAIN bag THEN bag[x] ELSE 0

\* A counter hoisted out of a loop the region begins in.
BeforeRegion(r, s) == s.loop # 0 /\ beginBlock(r) \in LI[s.loop]

\* "The smallest set of counters that still lets every block's execution count
\* be recovered" (readme.md): when the function returns, the counter of a set
\* is the number of times each of its blocks ran.
CountersMeanTheirSets ==
  stage = "returned" =>
    \A r \in Regions : \A k \in DOMAIN sets[r] :
      BeforeRegion(r, sets[r][k])
        \/ \A b \in Range(sets[r][k].blocks) :
             Times(<<r, k>>, runtime.count) = Times(b, ran)

\* A counter of a region never holds more than its set's blocks ran: nothing
\* else is counted in it.
RowsCountTheirOwnSets ==
  stage = "returned" =>
    \A r \in Regions : \A k \in DOMAIN sets[r] : \A b \in Range(sets[r][k].blocks) :
      Times(<<r, k>>, runtime.count) <= Times(b, ran)

\* "This ensures that a counter increment for the first block in a region will
\* be called after we enable sampling in the timing event" (zray_pass.cc 1052).
CountersRunCounting == runtime.dropped = {}
=============================================================================
