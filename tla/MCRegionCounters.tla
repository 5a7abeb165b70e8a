-------------------------- MODULE MCRegionCounters --------------------------
(* Functions for checking RegionCounters.                                  *)
EXTENDS RegionCounters

CONSTANT Size  \* blocks of a function before it is split

\* Block 1 is the entry, blocks are numbered as the walk meets them, and
\* every block can return.
FlowGraphs(n) ==
  LET outs == {<<>>} \cup {<<a>> : a \in 2 .. n} \cup {<<a, b>> : a, b \in 2 .. n}
  IN  {g \in [1 .. n -> outs] :
         /\ \A b \in 1 .. n : Len(g[b]) = 2 => g[b][1] # g[b][2]
         /\ Preorder(g) = [i \in 1 .. n |-> i]
         /\ Reach(Back(g), Returns(g), 1 .. n) = 1 .. n}

\* A loop left from its middle.
BrokenOff == << <<2>>, <<3>>, <<4, 5>>, <<2>>, <<>> >>

\* A loop in a loop, left at the foot and at the head; a branch in a loop; one
\* loop after another; a tail that not all ways share.
Shapes ==
  {<< <<2>>, <<3>>, <<3, 4>>, <<2, 5>>, <<>> >>,
   << <<2>>, <<3, 5>>, <<4>>, <<4, 2>>, <<>> >>,
   << <<2>>, <<3, 4>>, <<5>>, <<5>>, <<2, 6>>, <<>> >>,
   << <<2>>, <<2, 3>>, <<4>>, <<4, 5>>, <<>> >>,
   << <<2, 5>>, <<3>>, <<4>>, <<>>, <<3, 4>> >>,
   BrokenOff}

\* Every cycle is a natural loop, entered from one block, in which every
\* iteration passes all exits.
Structured(g) ==
  LET dom   == DominatorTree(g)
      ahead == [b \in DOMAIN g |-> {c \in Range(g[b]) : <<c, b>> \notin dom}]
  IN  \A h \in DOMAIN g :
        /\ h \notin Reach(ahead, ahead[h], DOMAIN g)
        /\ LoopOf(g, h, dom) # {} =>
             /\ PassesExits(g, h, dom)
             /\ Cardinality({b \in DOMAIN g \ LoopOf(g, h, dom) : h \in Range(g[b])}) = 1

\* What is open where a block starts (0: nothing): all ways into a block
\* agree, returns are outside.
Inside(g) ==
  {in \in [DOMAIN g -> {0} \cup GroupIDs] :
     /\ in[1] = 0
     /\ \A b \in DOMAIN g : \A c, d \in Range(g[b]) : in[c] = in[d]}

Out(g, in, b) == IF g[b] = <<>> THEN 0 ELSE in[g[b][1]]

Begins(g, in, r) == {b \in DOMAIN g : in[b] # r /\ Out(g, in, b) = r}

\* There is a region, and each has one BEGIN.
Marked(g) ==
  {in \in Inside(g) : /\ \E b \in DOMAIN g : in[b] # 0
                      /\ \A r \in GroupIDs : Cardinality(Begins(g, in, r)) <= 1}

\* A region that begins in a loop is left in it.
Confined(g, in) ==
  LET dom == DominatorTree(g)
  IN  \A r \in GroupIDs, h \in DOMAIN g :
        Begins(g, in, r) \cap LoopOf(g, h, dom) # {} =>
          \A b \in DOMAIN g : in[b] = r => b \in LoopOf(g, h, dom)

MarkedBlock(from, to) ==
  <<Code>> \o (IF from = to THEN <<>>
               ELSE (IF from = 0 THEN <<>> ELSE <<End(from), Code>>)
                      \o (IF to = 0 THEN <<>> ELSE <<Begin(to), Code>>))

Program(g, in) ==
  [succ |-> g, body |-> [b \in DOMAIN g |-> MarkedBlock(in[b], Out(g, in, b))]]

Programs ==
  UNION {{Program(g, in) : in \in {i \in Marked(g) : Confined(g, i)}}
         : g \in {k \in FlowGraphs(Size) \cup Shapes : Structured(k)}}

\* for (;;) { ...; BEGIN; if (...) { END; break; } END; }
LeftByBreak ==
  {Program(BrokenOff, in) : in \in {i \in Marked(BrokenOff) : ~Confined(BrokenOff, i)}}

\* BEGIN(1); if (...) { BEGIN(2); if (...) ...; END(2); ... } END(1);
InnerInBranch ==
  {[succ |-> << <<2, 5>>, <<3, 4>>, <<4>>, <<5>>, <<>> >>,
    body |-> << <<Code, Begin(1), Code>>,
                <<Begin(2), Code>>,
                <<Code>>,
                <<Code, End(2), Code>>,
                <<Code, End(1), Code>> >>]}
=============================================================================
