------------------------- MODULE RegionRuntime_proofs -------------------------
(***************************************************************************)
(* Proofs about RegionRuntime: whatever the order in which an instrumented *)
(* program enters and leaves its regions, the save stack is as deep as the *)
(* number of open regions, counting is off once the last of them is left,  *)
(* and every counter call lands inside the counter array.                  *)
(***************************************************************************)
EXTENDS RegionRuntime, FiniteSetTheorems, TLAPS

(* The entry at the bottom of the save stack was pushed by a thread that   *)
(* was in no region, so it says that counting is off; and so does the      *)
(* state in force when the stack is empty.                                 *)
BottomIsOff ==
  /\ RegionSaveTop = 0 => globalDisable
  /\ RegionSaveTop > 0 => RegionSaveStack[0].disable

(* No measurement starts in the future: the elapsed time added at an exit  *)
(* is not negative.                                                        *)
ClockIsMonotonic == \A r \in Regions : StartTime[r] <= now

IInv ==
  /\ TypeOK
  /\ SaveTopCountsOpenRegions
  /\ BottomIsOff
  /\ ClockIsMonotonic

-----------------------------------------------------------------------------
(* Every slot of every row lies inside the counter array.                  *)
LEMMA RowInArray ==
  ASSUME NEW r \in Regions, NEW s \in Slots
  PROVE  s + RowBase(r) \in CounterIndex
<1> DEFINE N == PragmaRegionCount  D == ZRAY_CounterDimension
<1>1. N \in Nat /\ D \in Nat /\ D > 0
  BY RuntimeAssumption
<1>2. r \in Nat /\ r + 1 <= N /\ s \in Nat /\ s < D
  BY <1>1 DEF Regions, Slots
<1>3. (r + 1) * D <= N * D
  BY <1>1, <1>2
<1>4. (r + 1) * D = r * D + D /\ r * D \in Nat /\ N * D \in Nat
  BY <1>1, <1>2
<1>5. QED
  BY <1>1, <1>2, <1>3, <1>4 DEF RowBase, CounterIndex

(* The open regions are finitely many, at most PRAGMA_REGION_LIMIT.        *)
LEMMA OpenIsFinite ==
  /\ IsFiniteSet(Open)
  /\ Cardinality(Open) \in Nat
  /\ Cardinality(Open) <= PRAGMA_REGION_LIMIT
<1>1. PragmaRegionCount \in Nat /\ PRAGMA_REGION_LIMIT \in Nat
      /\ PragmaRegionCount <= PRAGMA_REGION_LIMIT /\ PragmaRegionCount # 0
  BY RuntimeAssumption
<1>2. IsFiniteSet(Regions) /\ Cardinality(Regions) = PragmaRegionCount
  BY <1>1, FS_Interval DEF Regions
<1>3. Open \in SUBSET Regions
  BY DEF Open
<1>4. IsFiniteSet(Open) /\ Cardinality(Open) <= Cardinality(Regions)
  BY <1>2, <1>3, FS_Subset
<1>5. Cardinality(Open) \in Nat
  BY <1>4, FS_CardinalityType
<1>6. QED
  BY <1>1, <1>2, <1>4, <1>5

LEMMA InitIInv == Init => IInv
<1> SUFFICES ASSUME Init PROVE IInv
  OBVIOUS
<1>1. 0 \in RowStarts
  <2>1. 0 \in Regions /\ 0 * ZRAY_CounterDimension = 0
    BY RuntimeAssumption DEF Regions
  <2>2. QED
    BY <2>1 DEF RowStarts
<1>2. TypeOK
  BY <1>1, RuntimeAssumption DEF Init, TypeOK, RegionSave
<1>3. Open = {}
  BY DEF Init, Open
<1>4. SaveTopCountsOpenRegions
  BY <1>3, FS_EmptySet, RuntimeAssumption DEF Init, SaveTopCountsOpenRegions
<1>5. BottomIsOff /\ ClockIsMonotonic
  BY DEF Init, BottomIsOff, ClockIsMonotonic
<1>6. QED
  BY <1>2, <1>4, <1>5 DEF IInv

-----------------------------------------------------------------------------
(* An entry pushes exactly when it opens a region.                         *)
LEMMA EntryStep ==
  ASSUME IInv, NEW r \in Regions, startTimingEvent(r)
  PROVE  IInv'
<1> USE DEF IInv
<1>1. UNCHANGED <<CounterArray, now>>
  BY DEF startTimingEvent
<1>2. CASE Reenter(r)
  <2>1. TypeOK'
    BY <1>1, <1>2 DEF Reenter, TypeOK, DeeperBy1, saveVars, stateVars, timingVars
  <2>2. Open' = Open
    BY <1>2 DEF Reenter, Open, TypeOK, DeeperBy1
  <2>3. UNCHANGED <<RegionSaveTop, RegionSaveStack, globalDisable, StartTime>>
    BY <1>2 DEF Reenter, saveVars, stateVars, timingVars
  <2>4. SaveTopCountsOpenRegions' /\ BottomIsOff' /\ ClockIsMonotonic'
    BY <1>1, <2>2, <2>3
    DEF SaveTopCountsOpenRegions, BottomIsOff, ClockIsMonotonic
  <2>5. QED
    BY <2>1, <2>4
<1>3. CASE EnterOutermost(r)
  <2>1. RegionDepth[r] = 0 /\ RegionDepth' = [RegionDepth EXCEPT ![r] = @ + 1]
    BY <1>3 DEF EnterOutermost, DeeperBy1
  <2>2. Open' = Open \cup {r} /\ r \notin Open
    BY <2>1 DEF Open, TypeOK
  <2>3. Cardinality(Open') = Cardinality(Open) + 1
    BY <2>2, OpenIsFinite, FS_AddElement
  <2>4. RegionSaveTop' = RegionSaveTop + 1
    BY <1>3 DEF EnterOutermost
  <2>5. Cardinality(Open') <= PRAGMA_REGION_LIMIT
    <3>1. PragmaRegionCount \in Nat /\ PRAGMA_REGION_LIMIT \in Nat
          /\ PragmaRegionCount <= PRAGMA_REGION_LIMIT /\ PragmaRegionCount # 0
      BY RuntimeAssumption
    <3>2. IsFiniteSet(Regions) /\ Cardinality(Regions) = PragmaRegionCount
      BY <3>1, FS_Interval DEF Regions
    <3>3. Open' \in SUBSET Regions
      BY DEF Open
    <3>4. Cardinality(Open') <= Cardinality(Regions)
      BY <3>2, <3>3, FS_Subset
    <3>5. QED
      BY <3>1, <3>2, <3>4, <2>3, OpenIsFinite
  <2>6. SaveTopCountsOpenRegions'
    BY <2>3, <2>4, <2>5 DEF SaveTopCountsOpenRegions
  <2>7. /\ RegionSaveTop < PRAGMA_REGION_LIMIT
        /\ RegionSaveStack' = [RegionSaveStack EXCEPT ![RegionSaveTop] = Saved]
    <3>1. RegionSaveTop < PRAGMA_REGION_LIMIT
      BY <2>3, <2>4, <2>5, RuntimeAssumption
      DEF SaveTopCountsOpenRegions, TypeOK
    <3>2. QED
      BY <3>1, <1>3 DEF EnterOutermost
  <2>8. /\ counterBaseIndex' \in RowStarts
        /\ globalDisable' \in BOOLEAN
        /\ StartTime' \in [Regions -> Nat]
        /\ ClockIsMonotonic'
    <3>1. RowBase(r) \in RowStarts
      BY DEF RowBase, RowStarts
    <3>2. CASE Sampled(r)
      <4>1. /\ globalDisable' = FALSE
            /\ counterBaseIndex' = RowBase(r)
            /\ StartTime' = [StartTime EXCEPT ![r] = now]
        BY <1>3, <3>2 DEF EnterOutermost
      <4>2. StartTime' \in [Regions -> Nat]
        BY <4>1 DEF TypeOK
      <4>3. \A q \in Regions : StartTime'[q] = IF q = r THEN now ELSE StartTime[q]
        BY <4>1 DEF TypeOK
      <4>4. ClockIsMonotonic'
        <5> SUFFICES ASSUME NEW q \in Regions PROVE StartTime'[q] <= now'
          BY DEF ClockIsMonotonic
        <5>1. now' = now /\ now \in Nat /\ StartTime[q] <= now
          BY <1>1 DEF ClockIsMonotonic, TypeOK
        <5>2. QED
          BY <4>3, <5>1
      <4>5. QED
        BY <3>1, <4>1, <4>2, <4>4
    <3>3. CASE ~ Sampled(r)
      BY <1>1, <1>3, <3>3
      DEF EnterOutermost, TypeOK, ClockIsMonotonic, stateVars
    <3>4. QED
      BY <3>2, <3>3
  <2>9. TypeOK'
    <3>1. Saved \in RegionSave
      BY DEF Saved, RegionSave, TypeOK
    <3>2. RegionSaveStack' \in [0 .. PRAGMA_REGION_LIMIT - 1 -> RegionSave]
      BY <2>7, <3>1 DEF TypeOK
    <3>3. UNCHANGED <<Count, TotalTimeElapsed>>
      BY <1>3 DEF EnterOutermost
    <3>4. RegionDepth' \in [Regions -> Nat] /\ RegionSaveTop' \in Nat
      BY <2>1, <2>4 DEF TypeOK
    <3>5. QED
      BY <1>1, <2>8, <3>2, <3>3, <3>4 DEF TypeOK
  <2>10. BottomIsOff'
    <3>1. RegionSaveTop \in Nat /\ RegionSaveTop' > 0
      BY <2>4 DEF TypeOK
    <3>2. RegionSaveStack'[0].disable
      BY <3>1, <2>7, RuntimeAssumption DEF BottomIsOff, TypeOK, Saved
    <3>3. QED
      BY <3>1, <3>2 DEF BottomIsOff
  <2>11. QED
    BY <2>6, <2>8, <2>9, <2>10
<1>4. QED
  BY <1>2, <1>3 DEF startTimingEvent

(* An exit pops exactly when it closes a region.                           *)
LEMMA ExitStep ==
  ASSUME IInv, NEW r \in Regions, endTimingEvent(r)
  PROVE  IInv'
<1> USE DEF IInv
<1>1. UNCHANGED <<CounterArray, now>>
  BY DEF endTimingEvent
<1>2. CASE UnbalancedExit(r)
  BY <1>1, <1>2
  DEF UnbalancedExit, TypeOK, SaveTopCountsOpenRegions, Open, BottomIsOff,
      ClockIsMonotonic, saveVars, stateVars, timingVars
<1>3. CASE ExitInner(r)
  <2>1. /\ RegionDepth[r] > 1
        /\ RegionDepth' = [RegionDepth EXCEPT ![r] = @ - 1]
    BY <1>3 DEF ExitInner, OutermostExit, TypeOK
  <2>2. TypeOK'
    BY <1>1, <1>3, <2>1 DEF ExitInner, TypeOK, saveVars, stateVars, timingVars
  <2>3. Open' = Open
    BY <2>1 DEF Open, TypeOK
  <2>4. SaveTopCountsOpenRegions' /\ BottomIsOff' /\ ClockIsMonotonic'
    BY <1>1, <1>3, <2>3
    DEF ExitInner, SaveTopCountsOpenRegions, BottomIsOff, ClockIsMonotonic,
        saveVars, stateVars, timingVars
  <2>5. QED
    BY <2>2, <2>4
<1>4. CASE ExitOutermost(r)
  <2>1. /\ RegionDepth[r] = 1
        /\ RegionDepth' = [RegionDepth EXCEPT ![r] = @ - 1]
    BY <1>4 DEF ExitOutermost, OutermostExit
  <2>2. Open' = Open \ {r} /\ r \in Open
    BY <2>1 DEF Open, TypeOK
  <2>3. Cardinality(Open') = Cardinality(Open) - 1
    BY <2>2, OpenIsFinite, FS_RemoveElement
  <2>4. RegionSaveTop > 0
    BY <2>2, OpenIsFinite, FS_EmptySet DEF SaveTopCountsOpenRegions, TypeOK
  <2>5. RegionSaveTop' = RegionSaveTop - 1
    BY <1>4, <2>4 DEF ExitOutermost
  <2>6. SaveTopCountsOpenRegions'
    BY <2>3, <2>5, OpenIsFinite, RuntimeAssumption
    DEF SaveTopCountsOpenRegions
  <2>7. HandedBack = RegionSaveStack[RegionSaveTop - 1]
    BY <2>4, RuntimeAssumption
    DEF HandedBack, SaveTopCountsOpenRegions, TypeOK
  <2>8. HandedBack \in RegionSave
    BY <2>4, <2>7, RuntimeAssumption DEF SaveTopCountsOpenRegions, TypeOK
  <2>9. /\ counterBaseIndex' = HandedBack.base
        /\ globalDisable' = HandedBack.disable
        /\ UNCHANGED <<RegionSaveStack, StartTime>>
        /\ Count' = [Count EXCEPT ![r] = @ + 1]
    BY <1>4 DEF ExitOutermost
  <2>10. TotalTimeElapsed' \in [Regions -> Nat]
    <3>1. now - StartTime[r] \in Nat
      BY DEF ClockIsMonotonic, TypeOK
    <3>2. QED
      BY <1>4, <3>1 DEF ExitOutermost, TypeOK
  <2>11. TypeOK'
    <3>1. counterBaseIndex' \in RowStarts /\ globalDisable' \in BOOLEAN
      BY <2>8, <2>9 DEF RegionSave
    <3>2. RegionDepth' \in [Regions -> Nat] /\ RegionSaveTop' \in Nat
      BY <2>1, <2>4, <2>5 DEF TypeOK
    <3>3. Count' \in [Regions -> Nat]
      BY <2>9 DEF TypeOK
    <3>4. QED
      BY <1>1, <2>9, <2>10, <3>1, <3>2, <3>3 DEF TypeOK
  <2>12. BottomIsOff'
    BY <2>4, <2>5, <2>7, <2>9 DEF BottomIsOff, TypeOK
  <2>13. ClockIsMonotonic'
    BY <1>1, <2>9 DEF ClockIsMonotonic
  <2>14. QED
    BY <2>6, <2>11, <2>12, <2>13
<1>5. QED
  BY <1>2, <1>3, <1>4 DEF endTimingEvent

LEMMA CountStep ==
  ASSUME IInv, NEW s \in Slots, NEW sf \in Scales, incrementCounterArray(s, sf)
  PROVE  IInv'
<1> USE DEF IInv
<1>1. UNCHANGED <<RegionDepth, saveVars, stateVars, timingVars, now>>
  BY DEF incrementCounterArray
<1>2. CounterArray' \in [CounterIndex -> Nat]
  <2>1. sf \in Nat
    BY RuntimeAssumption
  <2>2. CASE globalDisable
    BY <2>2 DEF incrementCounterArray, TypeOK
  <2>3. CASE ~ globalDisable
    <3> DEFINE i == s + counterBaseIndex
    <3>1. CounterArray' = [CounterArray EXCEPT ![i] = @ + sf]
      BY <2>3 DEF incrementCounterArray
    <3>2. i \in CounterIndex => CounterArray[i] + sf \in Nat
      BY <2>1 DEF TypeOK
    <3>3. QED
      BY <3>1, <3>2 DEF TypeOK
  <2>4. QED
    BY <2>2, <2>3
<1>3. TypeOK'
  BY <1>1, <1>2 DEF TypeOK, saveVars, stateVars, timingVars
<1>4. SaveTopCountsOpenRegions' /\ BottomIsOff' /\ ClockIsMonotonic'
  BY <1>1
  DEF SaveTopCountsOpenRegions, Open, BottomIsOff, ClockIsMonotonic, saveVars,
      stateVars, timingVars
<1>5. QED
  BY <1>3, <1>4

LEMMA TickStep == IInv /\ Tick => IInv'
BY DEF IInv, Tick, TypeOK, SaveTopCountsOpenRegions, Open, BottomIsOff,
       ClockIsMonotonic, saveVars, stateVars, timingVars

LEMMA NextStep == IInv /\ [Next]_vars => IInv'
<1> SUFFICES ASSUME IInv, [Next]_vars PROVE IInv'
  OBVIOUS
<1>1. CASE \E r \in Regions : MayEnter(r) /\ startTimingEvent(r)
  BY <1>1, EntryStep
<1>2. CASE \E r \in Regions : endTimingEvent(r)
  BY <1>2, ExitStep
<1>3. CASE \E s \in Slots, sf \in Scales :
             MayCount(s, sf) /\ incrementCounterArray(s, sf)
  BY <1>3, CountStep
<1>4. CASE Tick
  BY <1>4, TickStep
<1>5. CASE UNCHANGED vars
  BY <1>5
  DEF IInv, TypeOK, SaveTopCountsOpenRegions, Open, BottomIsOff,
      ClockIsMonotonic, vars, saveVars, stateVars, timingVars
<1>6. QED
  BY <1>1, <1>2, <1>3, <1>4, <1>5 DEF Next

(* The inductive invariant holds for every number of regions, sampling     *)
(* period and order of calls.                                              *)
THEOREM Invariance == Spec => []IInv
BY InitIInv, NextStep, PTL DEF Spec

-----------------------------------------------------------------------------
(* Every variable keeps its type: in particular the row counted into, and  *)
(* every row saved for an enclosing region, starts inside the array.       *)
THEOREM TypeCorrect == Spec => []TypeOK
<1>1. IInv => TypeOK
  BY DEF IInv
<1>2. QED
  BY <1>1, Invariance, PTL

(* The save stack holds one entry per open region and never reaches the    *)
(* end of its array, even when regions overlap.                            *)
THEOREM SaveStackBounded == Spec => []SaveTopCountsOpenRegions
<1>1. IInv => SaveTopCountsOpenRegions
  BY DEF IInv
<1>2. QED
  BY <1>1, Invariance, PTL

(* When the last region is left, in whatever order, counting is off.       *)
THEOREM CountingStops == Spec => []CountingStopsWithLastRegion
<1>1. IInv => CountingStopsWithLastRegion
  BY FS_EmptySet
  DEF IInv, SaveTopCountsOpenRegions, BottomIsOff, CountingStopsWithLastRegion
<1>2. QED
  BY <1>1, Invariance, PTL

(* No counter call, in any order of calls, writes outside the counter      *)
(* array: the selected base is always the start of a row of it.            *)
THEOREM CountsInBounds == Spec => []CountsStayInTheArray
<1>1. TypeOK => CountsStayInTheArray
  <2> SUFFICES ASSUME TypeOK, NEW s \in Slots
               PROVE  s + counterBaseIndex \in CounterIndex
    BY DEF CountsStayInTheArray
  <2>1. PICK r \in Regions : counterBaseIndex = RowBase(r)
    BY DEF TypeOK, RowStarts, RowBase
  <2>2. QED
    BY <2>1, RowInArray
<1>2. QED
  BY <1>1, TypeCorrect, PTL

=============================================================================
