----------------------------- MODULE ControlFlow -----------------------------
(***************************************************************************)
(* What the pass asks LLVM about a function's control-flow graph: orders   *)
(* of its blocks, domination, post-domination and natural loops, and what  *)
(* the pass computes from the first of them (zray_pass.cc,                 *)
(* orderBasicBlocks).                                                      *)
(*                                                                         *)
(* A graph is a sequence: succ[b] lists the successors of block b, in the  *)
(* order of its terminator.  Block 1 is the entry; a block that returns    *)
(* has no successor.                                                       *)
(***************************************************************************)
EXTENDS Naturals, SequencesExt

\* The elements of s that are in S, in the order of s.
Among(s, S) == FoldLeft(LAMBDA kept, x : IF x \in S THEN Append(kept, x) ELSE kept, <<>>, s)

Entry == 1

BlocksOf(succ) == DOMAIN succ

Returns(succ) == {b \in BlocksOf(succ) : succ[b] = <<>>}

Ahead(succ) == [b \in BlocksOf(succ) |-> Range(succ[b])]
Back(succ) == [b \in BlocksOf(succ) |-> {a \in BlocksOf(succ) : b \in Range(succ[a])}]

\* The blocks of left that can be reached from the blocks from, in left.
Reach(step, from, left) ==
  FoldLeft(LAMBDA seen, i : seen \cup UNION {step[b] \cap left : b \in seen},
           from \cap left, [i \in 1 .. Cardinality(left) |-> i])

-----------------------------------------------------------------------------
(* Domination: every way from the entry to x goes through b, every way     *)
(* from b to a return goes through x.  Both as sets of pairs.              *)

DominatorTree(succ) ==
  UNION {{<<b, x>> : x \in BlocksOf(succ)
                             \ Reach(Ahead(succ), {Entry}, BlocksOf(succ) \ {b})}
         : b \in BlocksOf(succ)}

PostDominatorTree(succ) ==
  UNION {{<<x, b>> : b \in BlocksOf(succ)
                             \ Reach(Back(succ), Returns(succ), BlocksOf(succ) \ {x})}
         : x \in BlocksOf(succ)}

-----------------------------------------------------------------------------
(* Natural loops, as LoopInfo has them.                                    *)

Latches(succ, h, dom) == {l \in BlocksOf(succ) : h \in Range(succ[l]) /\ <<h, l>> \in dom}

\* The blocks that reach a back edge of h without passing h, and h.
LoopOf(succ, h, dom) ==
  LET latches == Latches(succ, h, dom)
  IN  IF latches = {} THEN {}
      ELSE Reach(Back(succ), latches, BlocksOf(succ) \ {h}) \cup {h}

\* The loop has one latch and every block it can be left from is passed in
\* each iteration: scalar evolution has no exact trip count otherwise.
PassesExits(succ, h, dom) ==
  LET loop    == LoopOf(succ, h, dom)
      exiting == {b \in loop : ~(Range(succ[b]) \subseteq loop)}
  IN  /\ loop # {}
      /\ \E l \in loop : Latches(succ, h, dom) = {l} /\ \A b \in exiting : <<b, l>> \in dom

\* The loops of the graph, by header; no loop at the other blocks.
LoopInfo(succ, dom) == [h \in BlocksOf(succ) |-> LoopOf(succ, h, dom)]

-----------------------------------------------------------------------------
(* Depth-first order, successors first to last.                            *)

Preorder(succ) ==
  LET visit(walk, i) ==
        IF walk.todo = <<>> THEN walk
        ELSE IF Head(walk.todo) \in Range(walk.seen) THEN [walk EXCEPT !.todo = Tail(@)]
        ELSE [todo |-> succ[Head(walk.todo)] \o Tail(walk.todo),
              seen |-> Append(walk.seen, Head(walk.todo))]
      edges == FoldLeft(LAMBDA n, s : n + Len(s), 0, succ)
  IN  FoldLeft(visit, [todo |-> <<Entry>>, seen |-> <<>>], [i \in 1 .. edges + 1 |-> i]).seen

\* scc_iterator gives the components of the graph as their roots are left,
\* each as a stack of its blocks; orderBasicBlocks turns the list around.  A
\* component comes before another if it reaches it below itself in the
\* depth-first tree, or is beside it and was visited later.  Ranks gives each
\* block's place.
Ranks(succ, pre) ==
  LET ids     == [i \in DOMAIN pre |-> i]
      step    == Ahead(succ)
      from(i) == Reach(step, {pre[i]}, BlocksOf(succ))
      below   == FoldLeft(LAMBDA f, i : Append(f, Reach(step, {pre[i]}, Range(SubSeq(pre, i, Len(pre))))),
                          <<>>, ids)
      on      == FoldLeft(LAMBDA f, i : Append(f, from(i)), <<>>, ids)
      root    == FoldLeft(LAMBDA f, i :
                            Append(f, Min({j \in 1 .. i : pre[j] \in on[i] /\ pre[i] \in on[j]})),
                          <<>>, ids)
      before(i, j) ==
        IF root[i] = root[j] THEN i < j
        ELSE IF root[i] < root[j] THEN pre[root[j]] \in below[root[i]]
        ELSE pre[root[i]] \notin below[root[j]]
  IN  [i \in DOMAIN pre |-> Cardinality({j \in DOMAIN pre : j # i /\ before(j, i)}) + 1]

orderBasicBlocks(succ) ==
  LET pre  == Preorder(succ)
      rank == Ranks(succ, pre)
  IN  FoldLeft(LAMBDA order, i : [order EXCEPT ![rank[i]] = pre[i]], pre, [i \in DOMAIN pre |-> i])

=============================================================================
