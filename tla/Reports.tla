------------------------------- MODULE Reports -------------------------------
(***************************************************************************)
(* From the counters to the report (zray_dyn.cc, read_pd_sets and          *)
(* apply_indirect_counts): the module the pass of FunctionCloning made is  *)
(* run, and what it counted is put back together from the records the pass *)
(* left in the .zlog file, region by region.                               *)
(*                                                                         *)
(* The instruction mix of a record is one occurrence of its code, so a     *)
(* profile is how often the code of each record is credited.  A run is a   *)
(* sequence of counter increments the instrumented code can make; that the *)
(* row in force is that of the region entered last, re-entries apart, is   *)
(* InstrumentedThread's.                                                   *)
(***************************************************************************)
EXTENDS FunctionCloning, SequencesExt

CONSTANTS
  GroupOf,       \* the group id of each region
  ActiveGroups,  \* settings of ZRAY_PATCH_ID, 0 for none
  MaxIncrements  \* bound: counter increments of a run

ASSUME ReportsAssumption ==
  /\ IsFiniteSet(Functions)
  /\ GroupOf \in [Regions -> Nat \ {0}]
  /\ ActiveGroups \subseteq Nat
  /\ MaxIncrements \in Nat

VARIABLES
  phase,              \* of the run and its report
  running,            \* what the program can run, in which regions
  CounterArray,
  ran,                \* history: how often each code ran under each region
  ActiveGroupNumber,
  RegionProfileList

reportVars == <<vars, phase, running, CounterArray, ran, ActiveGroupNumber, RegionProfileList>>

\* The code each record stands for: that of a region's or a clone's counter.
Codes == UNION {{<<x, s>> : s \in slots[x]} : x \in DOMAIN slots}

\* Counters are reached by row: a region's id times the row width.
Index(r, s) == s + CountArraySize * r

NoCounts == [c \in Codes |-> 0]

ReportsInit ==
  /\ Init
  /\ phase = "pass"
  /\ running = {}
  /\ CounterArray = <<>>
  /\ ran = <<>>
  /\ ActiveGroupNumber \in ActiveGroups
  /\ RegionProfileList = <<>>

Pass ==
  /\ Next
  /\ phase = "pass"
  /\ UNCHANGED <<phase, running, CounterArray, ran, ActiveGroupNumber, RegionProfileList>>

-----------------------------------------------------------------------------
(* The instrumented program.                                               *)

\* An entry event opens its region, unless it is open already.
Opening(open, r) == IF Contains(open, r) THEN open ELSE Append(open, r)

\* The regions open in part p of body c, oldest first: those of the caller, the
\* one a microtask's clone opens, the part itself if its entry stands in c.
OpenIn(open, c, p) ==
  LET called == IF c[2] = "clone" /\ c[1] \in Outlined THEN Opening(open, owner[c[1]]) ELSE open
  IN  IF p \in code[c].starts THEN Opening(called, p) ELSE called

Callees(w) ==
  LET called == {call[1] : call \in code[w[2]].calls[w[3]]}
  IN  {<<OpenIn(w[1], s[1], s[2]), s[1], s[2]>> :
         s \in {t \in called \X Parts : <<t[1][1], t[2]>> \in Sites}}

\* Which parts of which bodies run with which regions open, as <<open, body,
\* part>>: one level of calls a step, of those found by the step before.
Running ==
  LET regions == {<<<<r>>, Original(Home[r]), r>> : r \in Regions}
      calls(found) ==
        LET new == UNION {Callees(w) : w \in found.last} \ found.all
        IN  [all |-> found.all \cup new, last |-> new]
  IN  FoldFunction(LAMBDA i, found : calls(found), [all |-> regions, last |-> regions],
                   [i \in 1 .. (2 * Cardinality(Functions) + 1) * ROI_Count |-> i]).all

\* The counters of a region stand in its blocks, also in a copy of them; those
\* of a clone in all its blocks.
Increments(w) ==
  {[row |-> Last(w[1]), code |-> c] :
     c \in {d \in Codes : \/ w[2] = CloneOf(d[1])
                          \/ /\ d[1] = w[3]
                             /\ Original(Home[w[3]]) \in code[w[2]].counters[w[3]]}}

Start ==
  /\ phase = "pass"
  /\ stage = "done"
  /\ running' = Running
  /\ CounterArray' = [i \in 0 .. ROI_Count * CountArraySize - 1 |-> 0]
  /\ ran' = [r \in Regions |-> NoCounts]
  /\ phase' = "run"
  /\ UNCHANGED <<vars, ActiveGroupNumber, RegionProfileList>>

Total(counts) == FoldSet(LAMBDA i, n : n + counts[i], 0, DOMAIN counts)

incrementCounterArray(i) ==
  /\ phase = "run"
  /\ Total(CounterArray) < MaxIncrements
  /\ CounterArray' = [CounterArray EXCEPT ![Index(i.row, i.code[2])] = @ + 1]
  /\ ran' = [ran EXCEPT ![i.row][i.code] = @ + 1]
  /\ UNCHANGED <<vars, phase, running, ActiveGroupNumber, RegionProfileList>>

-----------------------------------------------------------------------------
(* The report.                                                             *)

Active(r) == ActiveGroupNumber = 0 \/ GroupOf[r] = ActiveGroupNumber

\* ApplyCounter on each record of a region; the entry of a region with no
\* record in the report keeps the id 0.
read_pd_sets ==
  [r \in Regions |->
     IF Active(r)
     THEN [PragmaRegionID |-> r,
           counts |-> [c \in Codes |-> IF c[1] = r THEN CounterArray[Index(r, c[2])] ELSE 0]]
     ELSE [PragmaRegionID |-> 0, counts |-> NoCounts]]

\* Mutated form: a clone's counter is looked for in the row of the region the
\* clone was made for.
InOwnersRow(p, c) == CounterArray[Index(owner[c[1]], c[2])]

\* A clone's counter in the row of the region reported.
InReportedRow(p, c) == CounterArray[Index(p, c[2])]

WithIndirect(p, counts) ==
  [c \in Codes |-> counts[c] + IF c[1] \in Functions THEN InReportedRow(p, c) ELSE 0]

\* Every entry of the list has the records of all clones added to the entry
\* of the region it names.
apply_indirect_counts(entries) ==
  LET add(list, r) ==
        LET p == entries[r].PragmaRegionID
        IN  [list EXCEPT ![p].counts = WithIndirect(p, @)]
  IN  FoldFunction(LAMBDA r, list : add(list, r), entries, [r \in Regions |-> r])

zray_finalize ==
  /\ phase = "run"
  /\ RegionProfileList' = apply_indirect_counts(read_pd_sets)
  /\ phase' = "reported"
  /\ UNCHANGED <<vars, running, CounterArray, ran, ActiveGroupNumber>>

Reported == phase = "reported" /\ UNCHANGED reportVars

ReportsNext ==
  \/ Pass
  \/ Start
  \/ \E w \in running : \E i \in Increments(w) : incrementCounterArray(i)
  \/ zray_finalize
  \/ Reported

ReportsSpec == ReportsInit /\ [][ReportsNext]_reportVars

-----------------------------------------------------------------------------
(* Properties.                                                             *)

\* A region entered again keeps the row in force (zray_dyn.cc 213-215), so
\* this fails when it is entered from a region opened inside it.  Clones call
\* originals, which hold entry events, by the forks ClonesClosed leaves only.
NoneReenteredFromWithin ==
  \A w \in running : w[2][2] = "original" /\ w[3] \in Regions => Last(w[1]) = w[3]

\* Readme: functions called from a region are cloned so that their traffic is
\* attributed to it.  What is reported of a region is what ran under it: its
\* own code and that of the clones, which share one record between the regions
\* they are called from (zray_pass.cc 698).  No other row's counts and no
\* other body's slots get into it, unless a body was instrumented twice or a
\* region is entered again from within another.
ReportsMatchRuns ==
  phase = "reported" /\ ActiveGroupNumber = 0
    /\ ClonedBodyInstrumentedOnce /\ NoneReenteredFromWithin =>
    \A r \in Regions : RegionProfileList[r].counts = ran[r]
=============================================================================
