# ZRay in TLA+

ZRay measures the memory traffic of regions of a program. A developer puts
markers around a region; an LLVM module pass finds the regions, puts counters
and timing events in them, clones the functions they call, and sizes the
counter array; a runtime linked into the program keeps the counts per thread and
per region and writes a report when a thread ends. With `--hostmonitor` a poll
thread also logs the counters of all threads while the program runs, and an
offline program turns that log into rows.

This directory models the parts where an order of events, a shared resource or
a count over a structure decides whether the numbers are right, checks them with
TLC and proves with TLAPS what holds for every instance: the counting state and
who is credited for every program, the poll thread, the reports and the reader
for any number of threads, cloning for every call graph, hoisting for every loop
tree, the partition of a region into sets for every control-flow graph.

## Inventory

| Component | State it keeps | Operations | Correct when |
|---|---|---|---|
| Region runtime (`zray_dyn.cc`, 99-366) | per thread: `RegionDepth`, `RegionSaveStack`, `counterBaseIndex`, `globalDisable`, `TimingProfiles`, the counter arrays | `startTimingEvent`, `endTimingEvent`, `incrementCounterArray` and siblings | an access is credited to the innermost open sampled region; an exit restores what its entry found; counting is off outside; elapsed time is time inside |
| Host monitor (`zray_dyn.cc`, 859-1284) | `registered_threads`, `host_interface_mutex`, `host_poll_stop`, `zray_host_log.bin` | register, unregister, poll, start, stop and join | no poll reads a dead thread; every live thread's work reaches the log; the process can end |
| Reports (`zray_dyn.cc`, 368-857) | `LogIteration`, `log_mutex`, the CSV, records read from the `.zlog` | `zray_finalize`, `read_pd_sets`, `ApplyCounter`, `apply_indirect_counts` | no report is lost; a counter is multiplied by the records of its own slot |
| Post-processing (`post_process.cc`) | last counters per thread id | reading the log record by record | deltas add up to the counters; any log the monitor writes can be read |
| Region discovery (`zray_parse.cc`, 29-281; `runOnFunction`) | `PRList`, `BasicBlockGroupList`, the open-group stacks | splitting blocks at markers, a depth-first walk of the graph | each block between markers is in its region; each end marker closes its own region |
| Cloning and slots (`zray_pass.cc`, 172-353, 560-799; `zray_codegen.cc`, 155-435) | `CloneFunctionMap`, `PendingFunctionClones`, `RegionCounterEventMax`, `maxIndirect`, the module's code | `processCallInst`, `processFunctionClone`, `InstrumentPragmaRegion`, the three loops of `runOnModule` | slots of bodies that run under one region are apart; everything called from a region is counted, once, but for OpenMP forks the pass cannot rewrite; nothing else is |
| Loop hoisting (`zray_loop.cc`) | the loop tree's `SetColor`, `LOOP_SF_SET`, the pool of blocks | `colorLoopTreeSF`, `instrumentSFLoopSet`, `instrumentDynamicLoops` | a hoisted counter's scale is the number of times its blocks run; every block is counted exactly once |
| Control-equivalence sets (`createPostDomSets`) | a partition of blocks | one pass over the pool | blocks that share a counter run equally often |
| Instruction classification (`recordInst`) | none | a table by opcode | not modelled |

How they interact: discovery hands `PRList` to the pass; the pass calls the
loop code for each region and each clone, both drawing counter slots from the
same running totals; the code it emits calls the runtime; the runtime's
thread_local arrays are what the poll thread reads through raw addresses and
what the exit handler reports; the pass's records (`.zlog`) tell the runtime and
the post-processor what one counter stands for; the log of the poll thread is
the only thing the post-processor sees of a run.

What is hard: the order of entries and exits (recursion, overlap, lost exits),
threads that end while they are polled, `atexit` against thread_local
destructors, reuse of thread ids, a worklist that grows while it is drained, one
pool of blocks claimed by several passes, sets that are split while they are
walked, and widths of numbers. `PROJECT.json` lists each hazard at its line.

## Modules

| Module | Models | Role |
|---|---|---|
| `RegionRuntime` | the runtime of one thread | calls in any order; the module the proofs are about |
| `RegionAttribution` | what the runtime promises | abstract: the regions entered, and who is credited |
| `InstrumentedThread` | a thread whose regions nest, driving `RegionRuntime` | implements `RegionAttribution` by the mapping in `Attribution` |
| `HostMonitor` | registration, thread exit, reports, the poll thread, process end | the concurrent part |
| `PostProcess` | the offline reader, composed with `HostMonitor` | each poll's records are read as they are written |
| `ControlFlow` | domination, loops and block orders of a graph | operators; what LLVM answers, and `orderBasicBlocks` |
| `RegionDiscovery` | a function with markers, to its regions | sequential, over every small function; used by the next |
| `RegionCounters` | `InstrumentPragmaRegion` on those regions, then a run of the function | discovery, sharing, hoisting and the runtime together |
| `LoopHoisting` | one region's loops with constant, invariant and unknown counts | sequential, over every small loop tree |
| `FunctionCloning` | the module pass after discovery | sequential, over every small program |
| `Reports` | the cloned module run and reported | `FunctionCloning`, counter increments, `.zlog` records and the exit report together |
| `RegionRuntime_proofs` | theorems about `RegionRuntime` | |
| `InstrumentedThread_proofs` | theorems about a thread and its call stack; the thread implements `RegionAttribution` | on top of the runtime's |
| `HostMonitor_proofs` | theorems about `HostMonitor` | |
| `PostProcess_proofs` | theorems about `PostProcess`, on top of the monitor's | |
| `FunctionCloning_proofs` | theorems about `FunctionCloning` | |
| `Reports_proofs` | a region's report is what ran under it | on top of the former |
| `LoopHoisting_proofs` | theorems about `LoopHoisting` | |
| `RegionCounters_proofs` | theorems about `RegionCounters` and the discovery it extends | |
| `MC*` | constants for TLC | |

Names of variables and actions are the code's where TLA+ allows it. Definitions
marked as mutated forms are plausible bugs; only mutation runs use them.

**RegionRuntime.** One action per runtime call: `startTimingEvent` is either
`Reenter` or `EnterOutermost`, `endTimingEvent` is `UnbalancedExit`, `ExitInner`
or `ExitOutermost`. The save stack is the fixed array of the code with its bound
checks. The load and store arrays are indexed and guarded exactly as the counter
array and are not repeated. All variables are thread_local, so one thread is
enough. `ZRAY_CounterDimension` is the row width the pass computed.

**InstrumentedThread.** The program: `Enter` pushes a frame where the pass put
a start event, `Leave` pops the last one, `Access` is an instrumented block, and
`Pass` lets time go by. `inside` and `parity` are history variables; `parity`
changes with every access, in the abstract specification too, so that an access
the runtime drops is not a stuttering step of `RegionAttribution`.

**HostMonitor.** A thread's `stage` goes from `unborn` through `outside`,
`registered`, `ending`, `reporting` and `reported` to `dead`; `gone` is a thread
that ends without having entered a region. The critical sections that
contain no other wait (register, unregister) are one action; the poll's is kept
open over several actions because counting goes on meanwhile, and the report's
because another thread may end between truncation and append. An id is what
`std::hash<std::thread::id>` gives; `StartThread` may give an id again once its
thread is dead. `StopHostProc` needs main's destructors to have run: that is the
order of thread_local destructors and `atexit` handlers.

**PostProcess.** What the reader has done to the log so far; since it reads front
to back, its state on a log is its state after the poll that wrote the last
record, and the log needs no variable.

**FunctionCloning.** A body is its calls by region, the regions it opens and
closes, and who put counters in each region's blocks. `CloneRegionCall` and
`NextRegion` are the first loop of `runOnModule`, `InstrumentRegion` the second,
`CloneNestedCall` and `InstrumentClone` the worklist. Calls may be taken in any
order inside one part of a body: the code's block order is one of them.
A call has a form, which says what `processCallInst` can do with it. A call by name
is *replaced*: it names the clone from then on. So is a `__kmpc_fork_call` whose
printed form has the name of its microtask and whose operand is a constant
expression. A fork with another operand is *kept* (259-262): the clone is made and
queued, and the call still names the original. A fork whose printed form has no
`.omp` name, or a name the module does not have, is *skipped* with a warning
(223-229, 236-242). Only calls of `Outlined` functions can have the last two forms.
How a fork prints is LLVM's, so the form is an input, any of the three at every
fork. With opaque pointers, the default of LLVM 15, the name cut out of the call
ends in the comma of the operand list and is not found: skipping is then the
ordinary case.

**Reports.** When the pass is done, `Running` works out which part of which body
can run with which regions open, and a run is any sequence of the counter
increments those parts carry. It starts from each region alone and follows the
calls, one level a step, to clones and, over forks that were skipped or kept, to
originals; an entry event in the body opens its region, and one of a region that is
open already does nothing, as in `startTimingEvent`. Counters add to the row of the
region opened last.
`read_pd_sets` and `apply_indirect_counts` are composed in `zray_finalize`. The
instruction mix of a record is one occurrence of its code, so a profile says how
often the code of each record is credited; `ran` is what happened.

**ControlFlow and RegionDiscovery.** A function is a graph of blocks and, for
each, its markers with code between them. `splitInstrumentedBlocks` cuts one
block a step; `Recalculate` runs the analyses again; `recordPragmaRegions` is one
call of the recursion, with the calls still to make in `todo`, each with its own
copy of the open groups as in the code. An END becomes the exit event of the
region its group is in `BasicBlockGroupList`.

**RegionCounters.** `InstrumentPragmaRegion` handles one region: its begin block
and bounds from `OrderedCFG`, the loops in bounds (`LoopsOf`), each taking its
blocks out of the pool (`InstrumentLoop`), the shared sets of what is left
(`createPostDomSets`), then the events. Later regions see the graph with the
preheaders of earlier ones. `RunBlock` passes one block of the instrumented
function: events at its head, its code, exit events at its end. A hoisted
counter adds its trip count before the loop; the model adds one at each passage
of the header, which is the same number when the run returns. `counted` is the
set of loops whose trip count scalar evolution knows on entry: any subset of
those with one latch whose exits are passed in every iteration.

**LoopHoisting.** `LoopFacts` is what LLVM's analyses may say of a tree of
loops. Blocks of a loop are two: one that post-dominates the header and one that
does not. A counter is the loop it stands before and its scale. `Reread` is the
printed form of a constant count read back by `strtoumax`.

## Runs

| Run | cfg | Question | Bounds |
|---|---|---|---|
| calls | `MCRegionRuntime.cfg` | does the counting state survive any order of calls? | 3 regions, so a region can be inside, around and across others; depth 2, 2 invocations: sampled and not; rows of 2 |
| nesting | `MCNesting.cfg` | is every access credited as promised? | 3 regions, 5 frames: recursion above and below another region; period 2, 3 invocations |
| timing | `MCTiming.cfg` | is elapsed time the time inside? | 2 regions, 4 frames, 4 ticks |
| host | `MCPostProcess.cfg` | threads, poll, stop, reports and reader together; is only a reused id rejected? | main and 2 workers, 2 ids, so two threads overlap and an id comes back; one unit of work each |
| host_tail | `MCTail.cfg` | does the last poll see the tail? (violated) | main and 1 worker |
| reused_id | `MCReusedId.cfg` | can every log be read? (violated) | as host |
| function | `MCRegionCounters.cfg` | do a function's regions, counters and events mean what they stand for? | every structured graph of 4 blocks and 6 larger ones (loop in loop, loop after loop, branch in a loop, a tail some ways share), 2 groups marked anywhere; splitting makes up to three blocks of one; runs of 13 blocks: a nest is passed twice |
| left_by_break | `MCLeftByBreak.cfg` | and when a region begun in a loop is left by a break? (violated) | one graph, every marking of it that does so |
| nested_regions | `MCNestedRegions.cfg` | are rows right when regions nest in a function? (violated) | one function: a region inside a branch of another |
| early_hoist | `MCEarlyHoist.cfg` | is every counter behind its region's entry? (violated) | as function |
| reports | `MCReports.cfg` | slots, closure and events of clones; is what is reported what ran? | every program of 3 functions, 2 regions (one in a function, one in an OpenMP microtask), at most 3 call sites, forks of all three forms among them; 1 or 2 counters per body; one increment, any that the code can make: profiles are sums |
| loops | `MCLoopHoisting.cfg` | are hoisted counts exact, is each block claimed once? | every tree of 3 loops, backedge counts 0 and 2: single-iteration loops, chains split once and twice |

Deadlock is off in the thread and host runs: a thread stops at its bounds, and a
process really ends. In the runs of the pass it is on; the only stutter allowed is
`Finished` (`Reported`). In `loops` the counts stay in the lower half of the
loop's type: above it `Reread` gives a huge scale factor, since constants are
printed signed in the loop's own type and read back with `strtoumax`.

Fairness: only the poll thread's (`WF_vars(Poll)`, `WF_allVars(ReaderPoll)`):
the operating system runs it, its sleep is bounded, and no application thread
keeps `host_interface_mutex` across a wait. Nothing is assumed about the
application's threads; they need not register, work or end.

What the violations show:

- **host_tail**: threads take themselves off the list before the stop flag is
  raised, so the last poll cannot see what they counted since the one before.
- **reused_id**: the reader forgets no id; a later thread with the same id looks
  like counters running backwards, and the reader exits.
- **left_by_break**: a loop whose header lies before the region's bounds is not in
  the loop tree, so its blocks stay in the pool. A block after the loop that the
  region is left through is control equivalent to the begin block in the loop and
  shares its counter, once per iteration.
- **nested_regions**: an inner region's blocks are the outer one's too. Both
  number their sets from zero and count into the row in force, so an outer set
  anchored in an inner block counts for the inner set of that number.
- **early_hoist**: a region that begins inside a loop has that loop in its bounds,
  because the bounds are moved back by one block. Its counters are hoisted to the
  preheader, which runs before the region's entry event: with counting off, or
  into the row of another region.

Some properties leave out what the code is known, from the same models, to get
wrong; the premise says so each time:

- `ElapsedIsTimeInside` is about a sampling period of one. With a longer one, an
  invocation that was not sampled still adds to its region's elapsed time when an
  enclosing region is being counted.
- `ClonesClosed` leaves out two kinds of `__kmpc_fork_call`: those `processCallInst`
  skips with a warning, and those whose operand it does not replace. It says that
  nothing else in a region or a clone reaches an original, and that each microtask
  of the second kind has an instrumented clone all the same. The readme (134-139)
  says that a region enclosing a parallel construct is entered by every thread of
  the team; the threads of the forks left out run the original microtask, which
  neither enters it nor has its counters.
- `ReportsMatchRuns` leaves out modules in which a clone was instrumented twice
  (`ClonedBodyInstrumentedOnce`): a function holding a region that is first called
  from a clone is copied with its counters and then instrumented again. It also
  leaves out programs in which a region is entered again from one opened inside it
  (`NoneReenteredFromWithin`): the second entry keeps the inner region's row in
  force, and the outer one's counters add to it. The blocks that hold the outer one's
  counters are an original's, so it takes one of the forks above to come back to
  them; TLC finds such programs with three calls.
- `BlocksCounted` leaves out loops whose trip count is lost after their edge is
  split: the fallback searches the pool for blocks that have left it.
- `CountersMeanTheirSets` leaves out counters hoisted out of a loop the region
  begins in, which `early_hoist` is about.

## Proofs

`RegionRuntime_proofs` proves, for every number of regions, row width, sampling
period and array limit allowed by `RuntimeAssumption`, and for calls in any
order:

- `TypeCorrect`: `[]TypeOK`, in particular the base in force and every saved
  base start a row of the array;
- `SaveStackBounded`: `[]SaveTopCountsOpenRegions`;
- `CountingStops`: `[]CountingStopsWithLastRegion`;
- `CountsInBounds`: `[]CountsStayInTheArray`.

The argument: `IInv` adds two conjuncts to the first two invariants.
`BottomIsOff` says that the oldest saved entry, or the state in force when
nothing is saved, is "off": without it `CountingStopsWithLastRegion` is not
inductive, as the exit that empties the stack restores the bottom entry.
`ClockIsMonotonic` says that no measurement starts in the future, which the type
of `TotalTimeElapsed` needs. `SaveTopCountsOpenRegions` needs the cardinality of
the open regions to change by one exactly when a depth leaves or reaches 0; with
`PragmaRegionCount <= PRAGMA_REGION_LIMIT` it bounds the stack. `RowInArray` is
the one piece of arithmetic: a row inside the regions lies inside the array.

The only assumption is `RuntimeAssumption`. Its last part is the demand the
comment on `PRAGMA_REGION_LIMIT` makes (`zray_dyn.cc` 45-51); the code does not
check it.

`InstrumentedThread_proofs` proves of a thread whose regions nest, with no other
assumption:

- `DepthsCorrect`: `[]DepthsMatchFrames`;
- `CountingIsHandedBack`: `[]ExitsHandCountingBack`;
- `AttributionRefined`: `ImplementsAttribution`, so every access is credited as
  `RegionAttribution` promises;
- `ElapsedCorrect`: `[]ElapsedIsTimeInside`.

`ThreadInv` is the runtime's `IInv` with the two invariants and
`SaveTopCountsFrames`: the save stack has one entry for each *outermost* entry on
the call stack, the entry that raised a depth from 0. `ExitsHandCountingBack`
speaks of the state to be restored at each level of the call stack; the save
stack is indexed by outermost entries only, so without the count an exit could
not be shown to pop the entry its own level pushed. `Enter` and `Leave` add or
take away the last frame; the frames below keep their ranks. For the refinement,
`CountingIsTheOwners` reads off the invariant at the top of the stack that counting
is on exactly if some open invocation is sampled, and then in the row of the owner
`RegionAttribution` names; `RowsApart` is the arithmetic that a slot of one row is
no slot of another.

`HostMonitor_proofs` proves, for any finite set of threads, any set of ids and
any amount of work:

- `PollIsSafe`: `[]PollReadsLiveThreads`;
- `EntriesAreOfLiveThreads`: `[]EntriesFollowIds`;
- `NoReportIsLost`: `[]ReportsSurvive`;
- `MonitorTypes`: `[]TypeOK`.

The first two follow from `ListInv`. An entry of the list belongs to a thread that
is *not yet past* its removal (`EntriesAreListed`, stronger than being alive), and
the poll thread has the mutex exactly while it walks the list (`PollHoldsList`),
so neither registration nor removal can happen under it. `LiveIdsDiffer` is what
the operating system promises of `std::thread::id`; without it a thread could
take another one's entry off the list. `NoReportIsLost` follows from `ReportInv`,
which counts: `LogIteration` is the number of threads that have reported, so the
file is truncated only when there is no report in it, and the thread in
`log_mutex` is the one between truncation and append. That a copy is a number a
thread can have counted needs `ListInv` too.

`PostProcess_proofs` proves of the reader and the monitor together:

- `NoEpochIsLost`: `[]DeltasAddUp`;
- `RejectionIsReuse`: `[]OnlyReuseIsRejected`.

`ReaderInv` says what the two properties need of each other: a thread has one id
in its life (`OwnersFollowIds`); a copy lies between what was logged last and
what has been counted since (`CopiesAreInOrder`), so deltas of one thread are
never negative; and the reader remembers, of an id with one owner, what was
logged last of that owner (`ReaderFollowsLog`). The reader's steps are steps of the
monitor (`ReaderStepsAreMonitorSteps`), so `ListInv` carries over.

Assumed are `HostAssumption` (main is a thread, there is an id, threads are
finitely many, the names of nobody and of the poll thread are nobody's) and
`ReaderAssumption` (a counter is never taken for "no record").

`FunctionCloning_proofs` proves, for any functions, regions, calls and counters
per body:

- `CloningTypeCorrect`: `[]TypeOK`;
- `SlotsAreApart`: `[]SlotsApart`;
- `CloningClosed`: `[]ClonesClosed`, when the option is on: the forks that were
  skipped, or whose clone was not put in, are all that still reaches originals;
- `OutsideCallsAreKept`: `[]OutsideCallsKept`;
- `ClonesAreBalanced`: `[]ClonesBalanced`.

`IInv` has what the three loops of `runOnModule` leave to each other.
`WidthCoversSlots`: the running maximum is above every index given out, which is
why the next body's indices are apart from all of them. `PendingOnce`: the
worklist holds each clone at most once and none that has counters, so no clone
gets two ranges. `ClonesGetDone`: a clone waits in the worklist or has counters
and no call left to process; when the worklist is empty that is closure, for
recursive call graphs too. `RegionsGetDone` is the same of the first loop, region
by region. `OnlyForksAreLeft`: a call whose form is not *replaced* is a fork of a
microtask, in copies of code too, so what the pass leaves alone is a fork.
`EventsOfOriginals`: an original has all its exits from the start, and all its
entries or none at the times it can be copied, which makes clones balanced.
Assumed is `CloningAssumption`; functions and regions are different things there,
because the model indexes `slots` by both.

`Reports_proofs` proves, for every module and every run of it, with the option on or
off:

- `ReportsAreRuns`: `[]ReportsMatchRuns`;
- `ReportsInvariance`: the invariant it follows from, `ReportsInv`.

Three facts about the pass are added to `IInv` first (`CloningInv`): a call that
names a clone names one that was made, a clone that has left the worklist counts in
its own copies of regions' blocks, and only a region's host and its clone put
counters in the region's blocks. They bound what can run (`RunningRunnable`):
originals, and the clones that were made. An original counts only in its own
regions' blocks, and by `NoneReenteredFromWithin` in that region's row; a clone
counts in any row. A clone of a function that holds a region carries that region's
counters only if it was copied after they were placed; then it has two sets of
them (`OnlyTheCloneCounts`), which is the case `ReportsMatchRuns` leaves out. So
in the row of region `r` only `r`'s own code and clones are counted
(`IncrementsCanCount`), and as their indices are apart and fit the row, each
counter of the array stands for one code in one row (`IndexFacts`).
`CountersMatchRuns` says that it has counted that code, and `ReportFacts` that the
two passes over the records read it back. `FoldInduction` carries both through the
folds of the model, whatever order the elements are taken in. `ReportsAssumption`
adds that a module defines finitely many functions.

`LoopHoisting_proofs` proves, for every tree of loops and everything scalar
evolution may say of them:

- `HoistingTypeCorrect`: `[]TypeOK`;
- `EverySetHasAHeader`: `[]SetsHaveHeaders`;
- `LoopBlocksAreClaimed`: `[]LoopBlocksClaimed`;
- `BlocksGetCounters`: `[]BlocksCounted`;
- `CountersAreKept`: `CountersKept`;
- `HoistedCountersAreExact`: `Spec /\ CountsFit => []CountersExact`.

`SetsAreTrees` says that a set hangs together below its least loop, its header.
It is what splitting must preserve: the loops split off are those at and below a
loop with a parent in the set, so neither part is empty and both are connected.
`SetsInOrder` describes the walk: in the set being visited, a loop not yet
claimed is on the agenda or hangs below one that is not claimed. When the agenda
is empty the outermost unclaimed loop would contradict that (`SetIsDone`), so the
whole set is claimed. `ThenTheOthers` carries this through the dynamic pass, and
`PoolAndCounters` says that leaving the pool and getting a counter are one thing.
Exactness needs `OuterScales` too: the factor handed to a loop on the agenda is
the number of times its parent runs for one entry of the set. Its hypothesis
`CountsFit` is about the loops found in the program, which never change: each
constant count reads back as itself, and the number of runs per entry of nested
loops is below `2^CounterBits`. Beyond it the pass's products wrap; the bounds of
`loops` keep within it.

The recursions of this module (`color`, `SplitOff`, `RunsPerEntry`) are functions
on loops, each loop's value computed from its parent's. `ParentRecursion` proves
that such functions exist, once for all three, by the least number of loops
without one; `BelowIs`, `ColorIs` and `RunsPerEntryIs` are their defining
equations. Assumed is `LoopAssumption`. Its line on powers of two states that
they are positive naturals: the provers know nothing of `^`.

`RegionCounters_proofs` proves, for every function with markers anywhere, every
set of group ids, and every answer of scalar evolution:

- `CountersTypeCorrect`: `[]TypeOK`;
- `RegionsArePartitioned`: `[]SetsPartitionRegions`;
- `RowsAreSaved`: the rows saved are as many as the regions open, so the
  outermost exit always finds one.

`IInv` has four parts. `Split`: a block is in `unsplit` or has its BEGIN first and
its END last, and every edge leads to a block there is, whatever `SplitBlock` and
`SplitEdge` add. `Recorded`: no group has two lists, no list has a block twice
(the second needs that `recordPragmaRegions` lists unvisited blocks only), and
what a pending call was handed as open has a list, which is why an END finds its
region. `Placed`: the sets of each region instrumented so far are a partition of
its blocks. `Running`: one saved row for each open region.

`FoldLeft` is defined by a choice of a recursive function. `FoldExists` shows by
well-founded induction that there is one, and `FoldEndsIn` turns a fold into a
chain of values, one for each element; `ChainInduction` is then induction along
the chain. Each fold of the model has one lemma that unfolds it (`...Unfolds`) and
one that says what it computes. For the partition these are `AmongFacts`,
`CreatePostDomSetsPartitions` (a block that starts a set or joins one is in no
other) and `InstrumentLoopDivides`: at any time the blocks of a region are in the
pool or in exactly one set, never both. `SetsOfPartitions` puts them together;
nothing in it depends on what domination, loops or the order of the blocks are.
Assumed is `SourcesAssumption`: a function has an entry block, its terminators
lead to its blocks, its markers carry ids of a finite set. LLVM's verifier demands
the first two of any function the pass is given.

Only model-checked:

- liveness (`WorkReachesTheLog`, `StopEndsThePoll`): out of the prover's reach;
- `BlocksInRegion`, `RegionsBalanced` and `CountersMeanTheirSets` of
  `RegionCounters`: they hold of the functions described under Abstractions, not
  of every function, and depend on what domination and reachability say of the
  paths of a graph.

## Abstractions

- Hardware performance counters (`USE_HW_PERF_COUNTERS`) are compiled out by
  default and left out.
- Counters are unbounded naturals below a bound in the guard of `Access`; a
  64-bit counter does not wrap within a run.
- A thread's counters are one number in `HostMonitor`. The torn or mixed copies
  the unsynchronised read allows are not distinguished.
- One process run: the log of an earlier run is not there.
- `FullScan`, which makes every function a region, and `-loophoist=false` are left
  out of the modules of the pass.
- Calls of functions without a body do not appear, except `__kmpc_fork_call`, which
  stands for a call of the microtask it is given. The runtime's exit handler, which
  the pass passes over by name, does not appear either.
- `RegionCounters`: the functions checked have natural loops only, each entered
  from one block (the pass runs after LLVM's loop simplification), and every
  iteration of a loop passes all its exits. Without the last, a latch that
  bypasses a block (`continue`) makes control equivalent blocks of one loop run a
  different number of times; TLC finds that with four blocks. Markers agree on
  all ways into a block, a group has one BEGIN, and a region begun in a loop is
  left in it (`left_by_break` shows why). Nested regions are kept apart in
  `nested_regions`.
- `RegionCounters` takes the function as the first one parsed, so region ids are
  places in `BasicBlockGroupList`. Blocks of a loop keep the pool's order;
  LLVM's differs, which only moves the counter of a shared set. Static loop sets and
  lost trip counts are `LoopHoisting`'s, clones `FunctionCloning`'s.
- `Reports`: which row is in force is decided by calls and entry events, not by a
  run of the control flow, which `InstrumentedThread` and `RegionCounters` have.
  The group filter (`ZRAY_PATCH_ID`, "non-functional" by the readme) is in the
  module and unset in the run.
- In `LoopHoisting` all loops lie within the region's bounds and all blocks have
  one region. Sharing of a counter by control-equivalent blocks is
  `RegionCounters`': `InstrumentRest` counts every block left.
- A constant count that reads back as the largest `size_t` stops the pass (an
  assertion, on in the default build), so it is not an input.

## Not modelled

- Instruction classification (`recordInst`): a table of cases by opcode, size and
  alias queries to LLVM, with no state.
- The `.zlog` format and its checksum, the CSV's columns, bandwidth and totals:
  input and output. A mismatching checksum is only reported.
- The building of LLVM IR and name mangling in `zray_codegen.cc`.
- The scale-factor checker, the no-inline pass, utilities, scripts, examples.
- A second run of the process on an existing host log: it appends a second header
  to a file the reader takes for records; nothing in the code handles it.
- Two BEGIN/END pairs of one group in a function (one region and one entry event
  for both) and the bound on the number of regions (no check in the code).

## Plan

Done: the modules above. Left, in this order:

1. `PostProcess`: the per-epoch rows and the indirect-call accounting of the
   reader, which looks counters up the way `Reports` does.
2. Instrumentation of clones in `RegionCounters`, so that nested calls and control
   flow meet in one model.
