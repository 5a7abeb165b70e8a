---------------------------- MODULE RegionRuntime ----------------------------
(***************************************************************************)
(* The per-thread region runtime of src/zray_dyn.cc: what the calls the    *)
(* pass inserts (startTimingEvent, endTimingEvent, incrementCounterArray)  *)
(* do to the thread_local counting state.                                  *)
(*                                                                         *)
(* Every variable here is thread_local in the code, so one thread is the   *)
(* whole story.  Spec lets the calls come in ANY order: overlapping        *)
(* regions, exits with no entry, entries never closed (an exception or a   *)
(* longjmp over the END marker).  InstrumentedThread composes this module  *)
(* with a program whose regions nest.                                      *)
(***************************************************************************)
EXTENDS Integers, FiniteSets

CONSTANTS
  PragmaRegionCount,      (* regions the pass found                          *)
  ZRAY_CounterDimension,  (* counter slots in the row of one region          *)
  SAMPLING_PERIOD,        (* ZRAY_SAMPLE_RATE: count every N-th invocation   *)
  PRAGMA_REGION_LIMIT,    (* length of the per-region thread_local arrays    *)
  Scales,                 (* what one counter call may add: 1, or a SF       *)
  MaxDepth,               (* bound: re-entries of one region                 *)
  MaxInvocations,         (* bound: completed invocations of one region      *)
  MaxCounter,             (* bound: value of one counter                     *)
  MaxTime                 (* bound: the monotonic clock                      *)

(* PRAGMA_REGION_LIMIT must not be smaller than the number of regions in   *)
(* the target, as the comment on it in zray_dyn.cc demands.                *)
ASSUME RuntimeAssumption ==
  /\ PragmaRegionCount \in Nat \ {0}
  /\ ZRAY_CounterDimension \in Nat \ {0}
  /\ SAMPLING_PERIOD \in Nat
  /\ PRAGMA_REGION_LIMIT \in Nat
  /\ PragmaRegionCount <= PRAGMA_REGION_LIMIT
  /\ Scales \subseteq Nat
  /\ {MaxDepth, MaxInvocations, MaxCounter, MaxTime} \subseteq Nat

VARIABLES
  RegionDepth,       (* entries of a region not yet left                     *)
  RegionSaveStack,   (* counting state to hand back, an array                *)
  RegionSaveTop,     (* next free entry of RegionSaveStack                   *)
  counterBaseIndex,  (* first slot of the row being counted into             *)
  globalDisable,     (* counting is off                                      *)
  Count,             (* TimingProfiles[r].Count                              *)
  StartTime,         (* TimingProfiles[r].StartTime                          *)
  TotalTimeElapsed,  (* TimingProfiles[r].TotalTimeElapsed                   *)
  CounterArray,      (* the counters, one row of slots per region            *)
  now                (* CLOCK_MONOTONIC                                      *)

saveVars   == <<RegionSaveStack, RegionSaveTop>>
stateVars  == <<counterBaseIndex, globalDisable>>
timingVars == <<Count, StartTime, TotalTimeElapsed>>
vars == <<RegionDepth, saveVars, stateVars, timingVars, CounterArray, now>>

Regions == 0 .. PragmaRegionCount - 1
Slots   == 0 .. ZRAY_CounterDimension - 1

(* The 2-d array the pass allocates, row after row.                        *)
CounterIndex == 0 .. PragmaRegionCount * ZRAY_CounterDimension - 1

RowStarts  == {r * ZRAY_CounterDimension : r \in Regions}
RegionSave == [base : RowStarts, disable : BOOLEAN]

-----------------------------------------------------------------------------
(* Mutated forms of the helpers below, used by the mutation runs only.     *)

RowAfterRegion(r) == (r + 1) * ZRAY_CounterDimension
FlagDepth(r)      == [RegionDepth EXCEPT ![r] = 1]
AnyExit(r)        == RegionDepth[r] # 0
SaveCounting      == [base |-> counterBaseIndex, disable |-> FALSE]
StopCounting      == [base |-> counterBaseIndex, disable |-> TRUE]
KeepInnerRow      == [base |-> counterBaseIndex,
                      disable |-> IF RegionSaveTop > 0
                                    THEN RegionSaveStack[RegionSaveTop - 1].disable
                                    ELSE TRUE]

-----------------------------------------------------------------------------
RowBase(r) == r * ZRAY_CounterDimension

(* Count holds the completed invocations, so the first of every            *)
(* SAMPLING_PERIOD invocations is counted; a period of 0 counts none.      *)
Sampled(r) == SAMPLING_PERIOD # 0 /\ Count[r] % SAMPLING_PERIOD = 0

DeeperBy1(r)     == [RegionDepth EXCEPT ![r] = @ + 1]
OutermostExit(r) == RegionDepth[r] = 1

Saved == [base |-> counterBaseIndex, disable |-> globalDisable]

(* What the outermost exit restores.  The stack is never empty nor past    *)
(* its limit there (SaveTopCountsOpenRegions); the code checks both.       *)
HandedBack ==
  IF RegionSaveTop > 0 /\ RegionSaveTop - 1 < PRAGMA_REGION_LIMIT
    THEN RegionSaveStack[RegionSaveTop - 1]
    ELSE [base |-> counterBaseIndex, disable |-> TRUE]

Init ==
  /\ RegionDepth      = [r \in Regions |-> 0]
  /\ RegionSaveStack  = [i \in 0 .. PRAGMA_REGION_LIMIT - 1 |->
                           [base |-> 0, disable |-> FALSE]]
  /\ RegionSaveTop    = 0
  /\ counterBaseIndex = 0
  /\ globalDisable    = TRUE
  /\ Count            = [r \in Regions |-> 0]
  /\ StartTime        = [r \in Regions |-> 0]
  /\ TotalTimeElapsed = [r \in Regions |-> 0]
  /\ CounterArray     = [i \in CounterIndex |-> 0]
  /\ now              = 0

-----------------------------------------------------------------------------
(* Re-entry leaves the running measurement alone.                          *)
Reenter(r) ==
  /\ RegionDepth[r] # 0
  /\ RegionDepth' = DeeperBy1(r)
  /\ UNCHANGED <<saveVars, stateVars, timingVars>>

(* The outermost entry saves the enclosing counting state; an invocation   *)
(* that is sampled then takes counting over, one that is not leaves it     *)
(* with the enclosing region.                                              *)
EnterOutermost(r) ==
  /\ RegionDepth[r] = 0
  /\ RegionDepth' = DeeperBy1(r)
  /\ RegionSaveStack' =
       IF RegionSaveTop < PRAGMA_REGION_LIMIT
         THEN [RegionSaveStack EXCEPT ![RegionSaveTop] = Saved]
         ELSE RegionSaveStack
  /\ RegionSaveTop' = RegionSaveTop + 1
  /\ \/ /\ Sampled(r)
        /\ globalDisable' = FALSE
        /\ counterBaseIndex' = RowBase(r)
        /\ StartTime' = [StartTime EXCEPT ![r] = now]
     \/ /\ ~ Sampled(r)
        /\ UNCHANGED <<stateVars, StartTime>>
  /\ UNCHANGED <<Count, TotalTimeElapsed>>

startTimingEvent(r) ==
  /\ Reenter(r) \/ EnterOutermost(r)
  /\ UNCHANGED <<CounterArray, now>>

(* An exit with no entry is reported and ignored.                          *)
UnbalancedExit(r) ==
  /\ RegionDepth[r] = 0
  /\ UNCHANGED <<RegionDepth, saveVars, stateVars, timingVars>>

ExitInner(r) ==
  /\ RegionDepth[r] # 0
  /\ ~ OutermostExit(r)
  /\ RegionDepth' = [RegionDepth EXCEPT ![r] = @ - 1]
  /\ UNCHANGED <<saveVars, stateVars, timingVars>>

(* The outermost exit adds the elapsed time whenever counting is on,       *)
(* whether or not this region's own invocation was the sampled one.        *)
ExitOutermost(r) ==
  /\ OutermostExit(r)
  /\ RegionDepth' = [RegionDepth EXCEPT ![r] = @ - 1]
  /\ RegionSaveTop' = IF RegionSaveTop > 0 THEN RegionSaveTop - 1 ELSE 0
  /\ Count' = [Count EXCEPT ![r] = @ + 1]
  /\ TotalTimeElapsed' =
       IF globalDisable
         THEN TotalTimeElapsed
         ELSE [TotalTimeElapsed EXCEPT ![r] = @ + (now - StartTime[r])]
  /\ counterBaseIndex' = HandedBack.base
  /\ globalDisable' = HandedBack.disable
  /\ UNCHANGED <<RegionSaveStack, StartTime>>

endTimingEvent(r) ==
  /\ UnbalancedExit(r) \/ ExitInner(r) \/ ExitOutermost(r)
  /\ UNCHANGED <<CounterArray, now>>

(* A counter call goes to the row counterBaseIndex selects; the region id  *)
(* the pass passes along is not used.  The load and store arrays are       *)
(* indexed and guarded the same way.                                       *)
incrementCounterArray(s, sf) ==
  /\ CounterArray' =
       IF globalDisable
         THEN CounterArray
         ELSE [CounterArray EXCEPT ![s + counterBaseIndex] = @ + sf]
  /\ UNCHANGED <<RegionDepth, saveVars, stateVars, timingVars, now>>

-----------------------------------------------------------------------------
(* The environment: calls in any order within the bounds.                  *)

MayEnter(r) == RegionDepth[r] < MaxDepth /\ Count[r] < MaxInvocations

MayCount(s, sf) ==
  globalDisable \/ CounterArray[s + counterBaseIndex] + sf <= MaxCounter

Tick ==
  /\ now < MaxTime
  /\ now' = now + 1
  /\ UNCHANGED <<RegionDepth, saveVars, stateVars, timingVars, CounterArray>>

Next ==
  \/ \E r \in Regions : MayEnter(r) /\ startTimingEvent(r)
  \/ \E r \in Regions : endTimingEvent(r)
  \/ \E s \in Slots, sf \in Scales :
       MayCount(s, sf) /\ incrementCounterArray(s, sf)
  \/ Tick

Spec == Init /\ [][Next]_vars

-----------------------------------------------------------------------------
Open == {r \in Regions : RegionDepth[r] > 0}

(* Every variable has its type: the base being counted from and every saved*)
(* one start a row of the counter array.                                   *)
TypeOK ==
  /\ RegionDepth \in [Regions -> Nat]
  /\ RegionSaveStack \in [0 .. PRAGMA_REGION_LIMIT - 1 -> RegionSave]
  /\ RegionSaveTop \in Nat
  /\ counterBaseIndex \in RowStarts
  /\ globalDisable \in BOOLEAN
  /\ Count \in [Regions -> Nat]
  /\ StartTime \in [Regions -> Nat]
  /\ TotalTimeElapsed \in [Regions -> Nat]
  /\ CounterArray \in [CounterIndex -> Nat]
  /\ now \in Nat

(* The save stack holds one entry per region now open, however the calls   *)
(* interleave: so the array bound in startTimingEvent and the empty-stack  *)
(* case of endTimingEvent are never reached ("Depth is bounded by the      *)
(* number of distinct regions that can be simultaneously live").           *)
SaveTopCountsOpenRegions ==
  /\ RegionSaveTop = Cardinality(Open)
  /\ RegionSaveTop <= PRAGMA_REGION_LIMIT

(* Once every region has been left, counting is off, even if the regions   *)
(* overlapped or were left in the wrong order: "the bottom of the stack    *)
(* has to be right for counting to stop when the last region closes".      *)
CountingStopsWithLastRegion == Open = {} => globalDisable

(* While counting is on, every slot of the selected row is a slot of the   *)
(* array, so no counter call can write past the array's end.               *)
CountsStayInTheArray ==
  ~ globalDisable => \A s \in Slots : s + counterBaseIndex \in CounterIndex

=============================================================================
