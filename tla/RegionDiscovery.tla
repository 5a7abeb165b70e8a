--------------------------- MODULE RegionDiscovery ---------------------------
(***************************************************************************)
(* How the pass finds the regions of a function that holds ROI markers     *)
(* (zray_pass.cc runOnFunction, zray_parse.cc): blocks are split at the    *)
(* markers, the analyses are run again, and a walk of the graph collects   *)
(* the blocks of each group id and lowers the END markers to exit events.  *)
(*                                                                         *)
(* A block is the sequence of what matters of its instructions: markers,   *)
(* with their group id, and code between them.  The function is the first  *)
(* the pass meets, so its regions are numbered by their group's place in   *)
(* BasicBlockGroupList.                                                    *)
(***************************************************************************)
EXTENDS ControlFlow

CONSTANTS
  GroupIDs,  \* ids the markers carry
  Sources    \* functions to parse: [succ |-> graph, body |-> blocks]

VARIABLES
  stage,
  succ,                  \* the function's graph
  body,                  \* and its blocks
  unsplit,               \* blocks splitInstrumentedBlocks has not visited
  OrderedCFG,
  PreDomTree,
  PostDomTree,
  LI,                    \* the natural loops, by header
  counted,               \* loops whose trip count is known on entry
  todo,                  \* calls of recordPragmaRegions still to make, innermost first
  BasicBlocksVisited,
  BasicBlockGroupList,
  exits                  \* the exit events each block ends with

discoveryVars == <<stage, succ, body, unsplit, OrderedCFG, PreDomTree, PostDomTree, LI, counted,
                   todo, BasicBlocksVisited, BasicBlockGroupList, exits>>

Blocks == DOMAIN succ

Code == [op |-> "code"]
Begin(g) == [op |-> "begin", group |-> g]
End(g) == [op |-> "end", group |-> g]

Instr == {Code} \cup {Begin(g) : g \in GroupIDs} \cup {End(g) : g \in GroupIDs}

\* A function has an entry block, and its terminators lead to its blocks.
ASSUME SourcesAssumption ==
  /\ IsFiniteSet(GroupIDs)
  /\ \A f \in Sources :
       /\ f.succ # <<>>
       /\ f.succ \in Seq(Seq(DOMAIN f.succ))
       /\ f.body \in Seq(Seq(Instr))
       /\ Len(f.body) = Len(f.succ)

DiscoveryInit ==
  /\ \E f \in Sources : succ = f.succ /\ body = f.body
  /\ stage = "split"
  /\ unsplit = BlocksOf(succ)
  /\ OrderedCFG = <<>>
  /\ PreDomTree = {}
  /\ PostDomTree = {}
  /\ LI = <<>>
  /\ counted = {}
  /\ todo = <<>>
  /\ BasicBlocksVisited = {}
  /\ BasicBlockGroupList = <<>>
  /\ exits = <<>>

-----------------------------------------------------------------------------
(* splitInstrumentedBlocks: one cut a block, the rest is visited next.     *)

\* Mutated form: an END marker is left in the middle of its block.
CutsAtBegins(b) == {i - 1 : i \in {j \in 2 .. Len(body[b]) : body[b][j].op = "begin"}}

\* A block is cut before a BEGIN that is not its first instruction and after
\* an END, wherever it stands.
Cuts(b) ==
  {i - 1 : i \in {j \in 2 .. Len(body[b]) : body[b][j].op = "begin"}}
    \cup {i \in DOMAIN body[b] : body[b][i].op = "end"}

\* llvm::SplitBlock: the rest becomes a block of its own and takes over the
\* successors.
SplitBlock(b, keep) ==
  LET rest == Len(succ) + 1
  IN  /\ succ' = Append([succ EXCEPT ![b] = <<rest>>], succ[b])
      /\ body' = Append([body EXCEPT ![b] = SubSeq(@, 1, keep)],
                        SubSeq(body[b], keep + 1, Len(body[b])))
      /\ unsplit' = (unsplit \ {b}) \cup {rest}

splitInstrumentedBlocks ==
  /\ stage = "split"
  /\ unsplit # {}
  /\ LET b == Min(unsplit)
     IN  IF Cuts(b) = {}
         THEN unsplit' = unsplit \ {b} /\ UNCHANGED <<succ, body>>
         ELSE SplitBlock(b, Min(Cuts(b)))
  /\ UNCHANGED <<stage, OrderedCFG, PreDomTree, PostDomTree, LI, counted,
                 todo, BasicBlocksVisited, BasicBlockGroupList, exits>>

\* The analyses of the split function; scalar evolution knows the trip counts
\* of some of its loops.
Recalculate ==
  /\ stage = "split"
  /\ unsplit = {}
  /\ OrderedCFG' = orderBasicBlocks(succ)
  /\ PreDomTree' = DominatorTree(succ)
  /\ PostDomTree' = PostDominatorTree(succ)
  /\ LI' = LoopInfo(succ, PreDomTree')
  /\ counted' \in SUBSET {h \in Blocks : PassesExits(succ, h, PreDomTree')}
  /\ todo' = <<[bb |-> OrderedCFG'[1], open |-> [g \in GroupIDs |-> 0]]>>
  /\ exits' = [b \in Blocks |-> <<>>]
  /\ stage' = "record"
  /\ UNCHANGED <<succ, body, unsplit, BasicBlocksVisited, BasicBlockGroupList>>

-----------------------------------------------------------------------------
(* recordPragmaRegions.  Each call has its own copy of the stack of open   *)
(* groups; only whether a group's stack is empty matters.                  *)

Markers(b, op) == Among(body[b], {i \in Instr : i.op = op})
Marks(b, op, g) == Len(Among(Markers(b, op), {Begin(g), End(g)}))

Known(list) == {list[i].group : i \in DOMAIN list}

\* A group seen for the first time is allocated a list.
Allocated(b) ==
  FoldLeft(LAMBDA list, i : IF i.group \in Known(list) THEN list
                            ELSE Append(list, [group |-> i.group, blocks |-> <<>>]),
           BasicBlockGroupList, Markers(b, "begin"))

Opened(b, open) == [g \in GroupIDs |-> open[g] + Marks(b, "begin", g)]

\* An END with no open group of its id is ignored with a warning.
Closed(b, opened) ==
  [g \in GroupIDs |-> IF Marks(b, "end", g) > opened[g] THEN 0
                      ELSE opened[g] - Marks(b, "end", g)]

\* Mutated form: the successors are visited before END markers are looked at.
BeforeEnds(opened, closed) == opened

\* The stack handed to the calls for the successors.
Passed(opened, closed) == closed

\* The region a marker of group g belongs to: its group's place in the list.
RegionID(list, g) == SelectInSeq(list, LAMBDA e : e.group = g)

\* Mutated form: the exit closes the region found last.
LastRegion(list, i) == Len(list)

ExitOf(list, i) == RegionID(list, i.group)

\* Exit events of block b: one per END whose group is open there.
Lowered(b, list, opened) ==
  LET lower(done, i) ==
        IF Len(Among(done, {ExitOf(list, i)})) < opened[i.group]
        THEN Append(done, ExitOf(list, i)) ELSE done
  IN  FoldLeft(lower, <<>>, Markers(b, "end"))

recordPragmaRegions ==
  LET b      == Head(todo).bb
      list   == Allocated(b)
      opened == Opened(b, Head(todo).open)
      passed == Passed(opened, Closed(b, opened))
  IN  /\ stage = "record"
      /\ todo # <<>>
      /\ IF b \in BasicBlocksVisited
         THEN /\ todo' = Tail(todo)
              /\ UNCHANGED <<BasicBlocksVisited, BasicBlockGroupList, exits>>
         ELSE /\ BasicBlocksVisited' = BasicBlocksVisited \cup {b}
              /\ BasicBlockGroupList' =
                   [i \in DOMAIN list |->
                      IF opened[list[i].group] > 0 THEN [list[i] EXCEPT !.blocks = Append(@, b)]
                      ELSE list[i]]
              /\ exits' = [exits EXCEPT ![b] = Lowered(b, list, opened)]
              /\ todo' = [i \in DOMAIN succ[b] |-> [bb |-> succ[b][i], open |-> passed]]
                           \o Tail(todo)
      /\ UNCHANGED <<stage, succ, body, unsplit, OrderedCFG, PreDomTree, PostDomTree, LI, counted>>

\* The function's regions, as PRList takes them.
Regions == DOMAIN BasicBlockGroupList
BBList(r) == BasicBlockGroupList[r].blocks

DiscoveryNext == splitInstrumentedBlocks \/ Recalculate \/ recordPragmaRegions

=============================================================================
