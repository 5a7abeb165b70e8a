----------------------- MODULE InstrumentedThread_proofs -----------------------
(***************************************************************************)
(* Proofs about InstrumentedThread: for any number of regions, any nesting *)
(* and recursion and any sampling period, every exit hands counting back   *)
(* to the region it belongs to, and the thread implements                  *)
(* RegionAttribution.                                                      *)
(***************************************************************************)
EXTENDS InstrumentedThread, RegionRuntime_proofs, SequenceTheorems, WellFoundedInduction

Outermost == Attribution!OutermostEntries
Crediting == Attribution!Crediting

FrameTypes ==
  /\ frames \in Seq(Regions)
  /\ inside \in [Regions -> Nat]
  /\ parity \in {0, 1}

(* The save stack has one entry per outermost entry on the call stack.     *)
SaveTopCountsFrames == RegionSaveTop = Cardinality(Outermost)

ThreadInv ==
  /\ IInv
  /\ FrameTypes
  /\ DepthsMatchFrames
  /\ SaveTopCountsFrames
  /\ ExitsHandCountingBack

-----------------------------------------------------------------------------
(* Max.  A nonempty set of naturals with an upper bound has its greatest   *)
(* element: the least of its upper bounds.                                 *)
LEMMA GreatestIsMax ==
  ASSUME NEW S \in SUBSET Nat, NEW m \in S, \A x \in S : m >= x
  PROVE  Max(S) = m
<1>1. \A k \in S : (\A x \in S : k >= x) => k = m
  <2> SUFFICES ASSUME NEW k \in S, \A x \in S : k >= x PROVE k = m
    OBVIOUS
  <2>1. k >= m /\ m >= k /\ k \in Nat /\ m \in Nat
    OBVIOUS
  <2>2. QED
    BY <2>1
<1>2. QED
  BY <1>1 DEF Max

LEMMA MaxIsGreatest ==
  ASSUME NEW S \in SUBSET Nat, S # {}, NEW b \in Nat, \A x \in S : x <= b
  PROVE  Max(S) \in S /\ \A x \in S : x <= Max(S)
<1> DEFINE Bounds == {n \in Nat : \A x \in S : x <= n}
<1>1. PICK u \in Bounds : \A n \in Bounds : <<n, u>> \notin OpToRel(<, Nat)
  <2>1. Bounds \subseteq Nat /\ Bounds # {}
    OBVIOUS
  <2>2. QED
    BY <2>1, NatLessThanWellFounded, WFMin
<1>2. \A n \in Bounds : ~ n < u
  BY <1>1 DEF OpToRel
<1>3. u \in S
  <2> SUFFICES ASSUME u \notin S PROVE FALSE
    OBVIOUS
  <2>1. PICK x \in S : TRUE
    OBVIOUS
  <2>2. u \in Nat /\ u # 0
    BY <2>1
  <2>3. u - 1 \in Bounds
    BY <2>2
  <2>4. QED
    BY <1>2, <2>2, <2>3
<1>4. Max(S) = u
  BY <1>3, GreatestIsMax
<1>5. QED
  BY <1>3, <1>4

(* A slot of one row is no slot of another.                                *)
LEMMA RowsApart ==
  ASSUME NEW q \in Regions, NEW r \in Regions, NEW s \in Slots, NEW t \in Slots,
         RowBase(q) + s = RowBase(r) + t
  PROVE  q = r /\ s = t
<1> DEFINE D == ZRAY_CounterDimension
<1>1. D \in Nat /\ D > 0
  BY RuntimeAssumption
<1>2. q \in Nat /\ r \in Nat /\ s \in Nat /\ t \in Nat /\ s < D /\ t < D
  BY <1>1, RuntimeAssumption DEF Regions, Slots
<1>3. \A x, y \in Nat : x < y => (x + 1) * D <= y * D
  BY <1>1
<1>4. \A x \in Nat : (x + 1) * D = x * D + D /\ x * D \in Nat
  BY <1>1
<1>5. q * D + s = r * D + t
  BY DEF RowBase
<1>6. ~ q < r
  <2>1. q < r => q * D + D <= r * D
    BY <1>2, <1>3, <1>4
  <2>2. QED
    BY <1>1, <1>2, <1>4, <1>5, <2>1
<1>7. ~ r < q
  <2>1. r < q => r * D + D <= q * D
    BY <1>2, <1>3, <1>4
  <2>2. QED
    BY <1>1, <1>2, <1>4, <1>5, <2>1
<1>8. q = r
  BY <1>2, <1>6, <1>7
<1>9. QED
  BY <1>2, <1>4, <1>5, <1>8

-----------------------------------------------------------------------------
(* The call stack.                                                         *)

LEMMA Occurrences ==
  ASSUME frames \in Seq(Regions)
  PROVE  /\ \A r \in Regions : IsFiniteSet({i \in DOMAIN frames : frames[i] = r})
         /\ IsFiniteSet(Outermost)
         /\ Outermost \subseteq 1 .. Len(frames)
         /\ Crediting \subseteq Outermost
<1>1. DOMAIN frames = 1 .. Len(frames) /\ Len(frames) \in Nat
  OBVIOUS
<1>2. IsFiniteSet(1 .. Len(frames))
  BY <1>1, FS_Interval
<1>3. Outermost \subseteq 1 .. Len(frames)
  BY <1>1 DEF Outermost, Attribution!OutermostEntries
<1>4. IsFiniteSet(Outermost)
  BY <1>2, <1>3, FS_Subset
<1>5. ASSUME NEW r \in Regions PROVE IsFiniteSet({i \in DOMAIN frames : frames[i] = r})
  BY <1>1, <1>2, FS_Subset
<1>6. QED
  BY <1>3, <1>4, <1>5 DEF Crediting, Outermost, Attribution!Crediting

(* A region is open when it is on the call stack, and then it has just one *)
(* outermost entry.                                                        *)
LEMMA DepthZero ==
  ASSUME frames \in Seq(Regions), DepthsMatchFrames, NEW r \in Regions
  PROVE  RegionDepth[r] = 0 <=> \A i \in 1 .. Len(frames) : frames[i] # r
<1> DEFINE Here == {i \in DOMAIN frames : frames[i] = r}
<1>1. RegionDepth[r] = Cardinality(Here) /\ IsFiniteSet(Here)
  BY Occurrences DEF DepthsMatchFrames
<1>2. RegionDepth[r] = 0 <=> Here = {}
  BY <1>1, FS_EmptySet
<1>3. DOMAIN frames = 1 .. Len(frames)
  OBVIOUS
<1>4. QED
  BY <1>2, <1>3

LEMMA DepthOne ==
  ASSUME frames \in Seq(Regions), DepthsMatchFrames, frames # <<>>
  PROVE  /\ Len(frames) \in Nat \ {0}
         /\ Last(frames) = frames[Len(frames)]
         /\ Last(frames) \in Regions
         /\ RegionDepth[Last(frames)] # 0
         /\ RegionDepth[Last(frames)] = 1 <=> Len(frames) \in Outermost
<1> DEFINE n == Len(frames)
           r == Last(frames)
           Here == {i \in DOMAIN frames : frames[i] = r}
<1>1. n \in Nat \ {0} /\ r = frames[n] /\ r \in Regions /\ DOMAIN frames = 1 .. n
  BY DEF Last
<1>2. RegionDepth[r] = Cardinality(Here) /\ IsFiniteSet(Here)
  BY <1>1, Occurrences DEF DepthsMatchFrames
<1>3. n \in Here
  BY <1>1
<1>4. RegionDepth[r] # 0
  BY <1>2, <1>3, FS_EmptySet
<1>5. Cardinality(Here \ {n}) = Cardinality(Here) - 1 /\ IsFiniteSet(Here \ {n})
  BY <1>2, <1>3, FS_RemoveElement
<1>6. Cardinality(Here) = 1 <=> Here \ {n} = {}
  <2>1. Cardinality(Here) \in Nat
    BY <1>2, FS_CardinalityType
  <2>2. Cardinality(Here \ {n}) = 0 <=> Here \ {n} = {}
    BY <1>5, FS_EmptySet
  <2>3. QED
    BY <1>5, <2>1, <2>2
<1>7. Here \ {n} = {} <=> n \in Outermost
  BY <1>1 DEF Outermost, Attribution!OutermostEntries
<1>8. QED
  BY <1>1, <1>2, <1>4, <1>6, <1>7

-----------------------------------------------------------------------------
(* The counting state that credited entries of a call stack f call for.    *)
CountingFor(credited, f) ==
  [disable |-> credited = {},
   row     |-> IF credited = {} THEN 0 ELSE RowBase(f[Max(credited)])]

Before(S, i) == {j \in S : j < i}

LEMMA BeforeEnd ==
  ASSUME NEW n \in Nat, NEW C, C \subseteq 1 .. n
  PROVE  /\ Before(C, n + 1) = C
         /\ Before(C, n + 2) = C
         /\ Before(C \cup {n + 1}, n + 2) = C \cup {n + 1}
         /\ \A i \in 1 .. n + 1 : /\ Before(C \cup {n + 1}, i) = Before(C, i)
                                 /\ Before(C, i) \subseteq 1 .. n
<1>1. \A j \in C : j < n + 1 /\ j < n + 2
  OBVIOUS
<1>2. \A i \in 1 .. n + 1 : ~ n + 1 < i
  OBVIOUS
<1>3. n + 1 < n + 2
  OBVIOUS
<1>4. QED
  BY <1>1, <1>2, <1>3 DEF Before

LEMMA SameCounting ==
  ASSUME NEW f, NEW g, Len(f) \in Nat, \A j \in 1 .. Len(f) : f[j] = g[j],
         NEW C, C \subseteq 1 .. Len(f)
  PROVE  CountingFor(C, g) = CountingFor(C, f)
<1>1. C # {} => Max(C) \in C
  <2>1. \A j \in C : j \in Nat /\ j <= Len(f)
    OBVIOUS
  <2>2. QED
    BY <2>1, MaxIsGreatest
<1>2. QED
  BY <1>1 DEF CountingFor

LEMMA CountingBelowIs ==
  \A i : /\ CountingBelow(i) = CountingFor(Before(Crediting, i), frames)
         /\ CountingBelow(i)' = CountingFor(Before(Crediting', i), frames')
BY DEF CountingBelow, CountingFor, Before, Crediting

LEMMA SaveIndexIs ==
  \A i : /\ SaveIndex(i) = Cardinality(Before(Outermost, i))
         /\ SaveIndex(i)' = Cardinality(Before(Outermost', i))
BY DEF SaveIndex, Before, Outermost

(* The entry an outermost frame filled lies on the save stack.             *)
LEMMA SaveIndexBound ==
  ASSUME ThreadInv, NEW i \in Outermost
  PROVE  SaveIndex(i) \in 0 .. RegionSaveTop - 1
<1>1. IsFiniteSet(Outermost) /\ Outermost \subseteq 1 .. Len(frames)
  BY Occurrences DEF ThreadInv, FrameTypes
<1>2. Before(Outermost, i) \subseteq Outermost \ {i}
  BY <1>1 DEF Before
<1>3. /\ IsFiniteSet(Outermost \ {i})
      /\ Cardinality(Outermost \ {i}) = Cardinality(Outermost) - 1
  BY <1>1, FS_RemoveElement
<1>4. /\ IsFiniteSet(Before(Outermost, i))
      /\ Cardinality(Before(Outermost, i)) <= Cardinality(Outermost) - 1
  BY <1>2, <1>3, FS_Subset
<1>5. Cardinality(Before(Outermost, i)) \in Nat /\ Cardinality(Outermost) \in Nat
  BY <1>1, <1>4, FS_CardinalityType
<1>6. QED
  BY <1>4, <1>5, SaveIndexIs DEF ThreadInv, SaveTopCountsFrames

-----------------------------------------------------------------------------
(* Entering a region.                                                      *)

LEMMA PushedFrame ==
  ASSUME frames \in Seq(Regions), NEW r \in Regions, frames' = Append(frames, r),
         Count' = Count
  PROVE  LET n     == Len(frames)
             First == \A i \in 1 .. n : frames[i] # r
         IN  /\ n \in Nat
             /\ frames' \in Seq(Regions)
             /\ Len(frames') = n + 1
             /\ frames'[n + 1] = r
             /\ \A i \in 1 .. n : frames'[i] = frames[i]
             /\ Outermost' = IF First THEN Outermost \cup {n + 1} ELSE Outermost
             /\ Crediting' = IF First /\ Sampled(r) THEN Crediting \cup {n + 1}
                                                    ELSE Crediting
<1> DEFINE n     == Len(frames)
           First == \A i \in 1 .. n : frames[i] # r
<1>1. /\ n \in Nat
      /\ frames' \in Seq(Regions)
      /\ Len(frames') = n + 1
      /\ frames'[n + 1] = r
      /\ \A i \in 1 .. n : frames'[i] = frames[i]
  OBVIOUS
<1>2. DOMAIN frames = 1 .. n /\ DOMAIN frames' = 1 .. n + 1
  BY <1>1
<1>3. Outermost' = {i \in 1 .. n + 1 : \A j \in 1 .. i - 1 : frames'[j] # frames'[i]}
  BY <1>2 DEF Outermost, Attribution!OutermostEntries
<1>4. Outermost = {i \in 1 .. n : \A j \in 1 .. i - 1 : frames[j] # frames[i]}
  BY <1>2 DEF Outermost, Attribution!OutermostEntries
<1>5. \A i \in 1 .. n : i \in Outermost' <=> i \in Outermost
  BY <1>1, <1>3, <1>4
<1>6. n + 1 \in Outermost' <=> First
  BY <1>1, <1>3
<1>7. Outermost' = IF First THEN Outermost \cup {n + 1} ELSE Outermost
  <2>1. \A i : i \in Outermost' => i \in 1 .. n \/ i = n + 1
    BY <1>1, <1>3
  <2>2. \A i : i \in Outermost => i \in 1 .. n
    BY <1>4
  <2>3. CASE First
    BY <1>5, <1>6, <2>1, <2>2, <2>3
  <2>4. CASE ~ First
    <3>1. n + 1 \notin Outermost'
      BY <1>6, <2>4
    <3>2. \A i : i \in Outermost' <=> i \in Outermost
      BY <1>5, <2>1, <2>2, <3>1
    <3>3. QED
      BY <2>4, <3>2
  <2>5. QED
    BY <2>3, <2>4
<1>8. /\ Crediting = {i \in Outermost : Sampled(frames[i])}
      /\ Crediting' = {i \in Outermost' : Sampled(frames'[i])}
  BY DEF Crediting, Outermost, Sampled, Attribution!Crediting, Attribution!IsSampled
<1>9. Crediting' = IF First /\ Sampled(r) THEN Crediting \cup {n + 1} ELSE Crediting
  BY <1>1, <1>4, <1>7, <1>8
<1>10. QED
  BY <1>1, <1>7, <1>9

LEMMA DepthsAfterEnter ==
  ASSUME ThreadInv, NEW r \in Regions, Enter(r)
  PROVE  DepthsMatchFrames'
<1> DEFINE n == Len(frames)
<1>1. frames \in Seq(Regions) /\ RegionDepth \in [Regions -> Nat] /\ DepthsMatchFrames
  BY DEF ThreadInv, FrameTypes, IInv, TypeOK
<1>2. RegionDepth' = [RegionDepth EXCEPT ![r] = @ + 1] /\ frames' = Append(frames, r)
  BY DEF Enter, startTimingEvent, Reenter, EnterOutermost, DeeperBy1
<1>3. /\ n \in Nat /\ DOMAIN frames = 1 .. n /\ DOMAIN frames' = 1 .. n + 1
      /\ frames'[n + 1] = r
      /\ \A i \in 1 .. n : frames'[i] = frames[i]
  BY <1>1, <1>2
<1> SUFFICES ASSUME NEW q \in Regions
             PROVE  RegionDepth'[q] = Cardinality({i \in DOMAIN frames' : frames'[i] = q})
  BY DEF DepthsMatchFrames
<1> DEFINE Old == {i \in DOMAIN frames : frames[i] = q}
           New == {i \in DOMAIN frames' : frames'[i] = q}
<1>4. RegionDepth[q] = Cardinality(Old) /\ IsFiniteSet(Old)
  BY <1>1, Occurrences DEF DepthsMatchFrames
<1>5. CASE q = r
  <2>1. New = Old \cup {n + 1} /\ n + 1 \notin Old
    BY <1>3, <1>5
  <2>2. Cardinality(New) = Cardinality(Old) + 1
    BY <1>4, <2>1, FS_AddElement
  <2>3. QED
    BY <1>1, <1>2, <1>4, <1>5, <2>2
<1>6. CASE q # r
  <2>1. New = Old
    BY <1>3, <1>6
  <2>2. QED
    BY <1>1, <1>2, <1>4, <1>6, <2>1
<1>7. QED
  BY <1>5, <1>6

(* The outermost entry saves what the enclosing frames call for; a re-entry*)
(* changes neither the stack of saved states nor the state in force.       *)
LEMMA ThreadEnter ==
  ASSUME ThreadInv, NEW r \in Regions, Enter(r)
  PROVE  ThreadInv'
<1>0. PICK n \in Nat : n = Len(frames)
  BY DEF ThreadInv, FrameTypes
<1> DEFINE First == \A i \in 1 .. n : frames[i] # r
<1>1. startTimingEvent(r) /\ MayEnter(r) /\ frames' = Append(frames, r)
      /\ UNCHANGED <<inside, parity, Count>>
  BY DEF Enter, startTimingEvent, Reenter, EnterOutermost, timingVars
<1>2. frames \in Seq(Regions) /\ IInv /\ DepthsMatchFrames
  BY DEF ThreadInv, FrameTypes
<1>3. IInv'
  BY <1>1, <1>2, NextStep DEF Next
<1>4. /\ frames' \in Seq(Regions)
      /\ Len(frames') = n + 1
      /\ frames'[n + 1] = r
      /\ \A i \in 1 .. n : frames'[i] = frames[i]
  BY <1>0, <1>1, <1>2, PushedFrame
<1>5. /\ Outermost \subseteq 1 .. n /\ Crediting \subseteq 1 .. n /\ IsFiniteSet(Outermost)
      /\ Outermost' = IF First THEN Outermost \cup {n + 1} ELSE Outermost
      /\ Crediting' = IF First /\ Sampled(r) THEN Crediting \cup {n + 1} ELSE Crediting
  BY <1>0, <1>1, <1>2, PushedFrame, Occurrences
<1>6. FrameTypes'
  BY <1>1, <1>4 DEF ThreadInv, FrameTypes
<1>7. DepthsMatchFrames'
  BY DepthsAfterEnter
<1>8. \A i \in 1 .. n + 1 : CountingBelow(i)' = CountingBelow(i)
  <2> SUFFICES ASSUME NEW i \in 1 .. n + 1
               PROVE  CountingFor(Before(Crediting', i), frames')
                        = CountingFor(Before(Crediting, i), frames)
    BY CountingBelowIs
  <2>1. Before(Crediting, i) \subseteq 1 .. n
    BY <1>4, <1>5, BeforeEnd
  <2>2. Before(Crediting', i) = Before(Crediting, i)
    BY <1>4, <1>5, BeforeEnd
  <2>3. CountingFor(Before(Crediting, i), frames') = CountingFor(Before(Crediting, i), frames)
    BY <1>0, <1>4, <2>1, SameCounting
  <2>4. QED
    BY <2>2, <2>3
<1>9. \A i \in 1 .. n + 1 : SaveIndex(i)' = SaveIndex(i)
  <2>1. \A i \in 1 .. n + 1 : Before(Outermost', i) = Before(Outermost, i)
    BY <1>4, <1>5, BeforeEnd
  <2>2. QED
    BY <2>1, SaveIndexIs
<1>10. /\ CountingBelow(n + 1) = CountingFor(Crediting, frames)
       /\ CountingFor(Crediting, frames') = CountingFor(Crediting, frames)
  <2>1. Before(Crediting, n + 1) = Crediting
    BY <1>4, <1>5, BeforeEnd
  <2>2. CountingFor(Crediting, frames') = CountingFor(Crediting, frames)
    BY <1>0, <1>4, <1>5, SameCounting
  <2>3. QED
    BY <2>1, <2>2, CountingBelowIs
<1>11. CountingBelow(n + 2)' = CountingFor(Crediting', frames')
  <2>1. Before(Crediting', n + 2) = Crediting'
    BY <1>4, <1>5, BeforeEnd
  <2>2. QED
    BY <2>1, CountingBelowIs
<1>12. CASE Reenter(r)
  <2>1. ~ First
    BY <1>0, <1>2, <1>12, DepthZero DEF Reenter
  <2>2. UNCHANGED <<Outermost, Crediting>>
    BY <1>5, <2>1
  <2>3. UNCHANGED <<RegionSaveStack, RegionSaveTop, counterBaseIndex, globalDisable>>
    BY <1>12 DEF Reenter, saveVars, stateVars
  <2>4. SaveTopCountsFrames'
    BY <2>2, <2>3 DEF ThreadInv, SaveTopCountsFrames
  <2>5. CountingBelow(n + 2)' = CountingBelow(n + 1)
    BY <1>10, <1>11, <2>2
  <2>6. ExitsHandCountingBack'
    <3>1. Calls([base |-> counterBaseIndex, disable |-> globalDisable],
                CountingBelow(Len(frames) + 1))'
      BY <1>0, <1>4, <2>3, <2>5 DEF ThreadInv, ExitsHandCountingBack, Calls
    <3>2. \A i \in Outermost : Calls(RegionSaveStack[SaveIndex(i)], CountingBelow(i))'
      BY <1>5, <1>8, <1>9, <2>3 DEF ThreadInv, ExitsHandCountingBack, Calls, Outermost
    <3>3. QED
      BY <2>2, <3>1, <3>2 DEF ExitsHandCountingBack, Outermost
  <2>7. QED
    BY <1>3, <1>6, <1>7, <2>4, <2>6 DEF ThreadInv
<1>13. CASE EnterOutermost(r)
  <2>1. First
    BY <1>0, <1>2, <1>13, DepthZero DEF EnterOutermost
  <2>2. Outermost' = Outermost \cup {n + 1} /\ n + 1 \notin Outermost
    BY <1>4, <1>5, <2>1
  <2>3. RegionSaveTop = Cardinality(Outermost) /\ RegionSaveTop \in Nat
    BY DEF ThreadInv, SaveTopCountsFrames, IInv, TypeOK
  <2>4. RegionSaveTop' = RegionSaveTop + 1
    BY <1>13 DEF EnterOutermost
  <2>5. SaveTopCountsFrames'
    BY <1>5, <2>2, <2>3, <2>4, FS_AddElement DEF SaveTopCountsFrames
  <2>6. /\ RegionSaveTop < PRAGMA_REGION_LIMIT
        /\ RegionSaveStack' = [RegionSaveStack EXCEPT ![RegionSaveTop] = Saved]
    <3>1. RegionSaveTop < PRAGMA_REGION_LIMIT
      BY <1>3, <2>3, <2>4, RuntimeAssumption DEF IInv, SaveTopCountsOpenRegions
    <3>2. QED
      BY <1>13, <3>1 DEF EnterOutermost
  <2>7. RegionSaveStack'[RegionSaveTop] = Saved
        /\ \A k \in 0 .. RegionSaveTop - 1 : RegionSaveStack'[k] = RegionSaveStack[k]
    BY <2>3, <2>6, RuntimeAssumption DEF ThreadInv, IInv, TypeOK
  <2>8. Calls(Saved, CountingBelow(n + 1))
    BY <1>0 DEF ThreadInv, ExitsHandCountingBack, Saved
  <2>9. SaveIndex(n + 1) = RegionSaveTop
    <3>1. Before(Outermost, n + 1) = Outermost
      BY <1>4, <1>5, BeforeEnd
    <3>2. QED
      BY <2>3, <3>1, SaveIndexIs
  <2>10. \A i \in Outermost' : Calls(RegionSaveStack[SaveIndex(i)], CountingBelow(i))'
    <3> SUFFICES ASSUME NEW i \in Outermost'
                 PROVE  Calls(RegionSaveStack'[SaveIndex(i)], CountingBelow(i))
      <4>1. \A i \in Outermost' : i \in 1 .. n + 1
        BY <1>5, <2>2
      <4>2. QED
        BY <1>8, <1>9, <4>1 DEF Calls
    <3>1. CASE i = n + 1
      BY <2>7, <2>8, <2>9, <3>1
    <3>2. CASE i # n + 1
      <4>1. i \in Outermost
        BY <2>2, <3>2
      <4>2. Calls(RegionSaveStack[SaveIndex(i)], CountingBelow(i))
        BY <4>1 DEF ThreadInv, ExitsHandCountingBack, Outermost
      <4>3. RegionSaveStack'[SaveIndex(i)] = RegionSaveStack[SaveIndex(i)]
        BY <2>7, <4>1, SaveIndexBound
      <4>4. QED
        BY <4>2, <4>3
    <3>3. QED
      BY <3>1, <3>2
  <2>11. Calls([base |-> counterBaseIndex', disable |-> globalDisable'],
               CountingFor(Crediting', frames'))
    <3>1. CASE Sampled(r)
      <4>1. Crediting' = Crediting \cup {n + 1}
        BY <1>5, <2>1, <3>1
      <4>2. Max(Crediting') = n + 1
        <5>1. \A j \in Crediting' : j \in Nat /\ n + 1 >= j
          BY <1>5, <4>1
        <5>2. QED
          BY <4>1, <5>1, GreatestIsMax
      <4>3. globalDisable' = FALSE /\ counterBaseIndex' = RowBase(r)
        BY <1>13, <3>1 DEF EnterOutermost
      <4>4. QED
        BY <1>4, <4>1, <4>2, <4>3 DEF CountingFor, Calls
    <3>2. CASE ~ Sampled(r)
      <4>1. Crediting' = Crediting
        BY <1>5, <3>2
      <4>2. CountingFor(Crediting', frames') = CountingFor(Crediting, frames)
        BY <1>10, <4>1
      <4>3. UNCHANGED <<counterBaseIndex, globalDisable>>
        BY <1>13, <3>2 DEF EnterOutermost, stateVars
      <4>4. QED
        BY <1>10, <2>8, <4>2, <4>3 DEF Saved
    <3>3. QED
      BY <3>1, <3>2
  <2>12. ExitsHandCountingBack'
    <3>1. Calls([base |-> counterBaseIndex, disable |-> globalDisable],
                CountingBelow(Len(frames) + 1))'
      BY <1>4, <1>11, <2>11 DEF Calls
    <3>2. QED
      BY <2>10, <3>1 DEF ExitsHandCountingBack, Outermost
  <2>13. QED
    BY <1>3, <1>6, <1>7, <2>5, <2>12 DEF ThreadInv
<1>14. QED
  BY <1>1, <1>12, <1>13 DEF startTimingEvent

-----------------------------------------------------------------------------
(* Leaving a region.                                                       *)

LEMMA FrontFacts ==
  ASSUME frames \in Seq(Regions), frames # <<>>, frames' = Front(frames)
  PROVE  /\ Len(frames) \in Nat \ {0}
         /\ frames' \in Seq(Regions)
         /\ Len(frames') = Len(frames) - 1
         /\ \A i \in 1 .. Len(frames) - 1 : frames'[i] = frames[i]
<1>1. Len(frames) \in Nat \ {0}
  OBVIOUS
<1>2. frames' = SubSeq(frames, 1, Len(frames) - 1)
  BY DEF Front
<1>3. frames' \in Seq(Regions)
  BY <1>1, <1>2
<1>4. PICK m \in Int : m = Len(frames) - 1
  BY <1>1
<1>5. \A i \in 1 .. m : frames[i] \in Regions
  BY <1>1, <1>4
<1>6. /\ \A i \in 1 .. m - 1 + 1 : SubSeq(frames, 1, m)[i] = frames[1 + i - 1]
      /\ Len(SubSeq(frames, 1, m)) = IF 1 <= m THEN m - 1 + 1 ELSE 0
  BY <1>5, SubSeqProperties
<1>7. \A i \in 1 .. m : SubSeq(frames, 1, m)[i] = frames[i]
  BY <1>6
<1>8. QED
  <2>1. Len(frames') = m
    BY <1>1, <1>2, <1>4, <1>6
  <2>2. QED
    BY <1>1, <1>2, <1>3, <1>4, <1>7, <2>1

(* Below the frame left, outermost entries stay so, and the invocation     *)
(* that has been completed is of a region that is not on the stack there.  *)
LEMMA PoppedFrame ==
  ASSUME frames \in Seq(Regions), frames # <<>>, frames' = Front(frames),
         \A q \in Regions : q # Last(frames) => Count'[q] = Count[q],
         Len(frames) \notin Outermost => Count' = Count
  PROVE  /\ Outermost' = Outermost \ {Len(frames)}
         /\ Crediting' = Crediting \ {Len(frames)}
<1>1. PICK n \in Nat \ {0} : n = Len(frames)
  BY FrontFacts
<1>2. /\ Len(frames') = n - 1
      /\ frames' \in Seq(Regions)
      /\ \A i \in 1 .. n - 1 : frames'[i] = frames[i]
  BY <1>1, FrontFacts
<1>3. DOMAIN frames = 1 .. n /\ DOMAIN frames' = 1 .. n - 1
  BY <1>1, <1>2
<1>4. Outermost' = {i \in 1 .. n - 1 : \A j \in 1 .. i - 1 : frames'[j] # frames'[i]}
  BY <1>3 DEF Outermost, Attribution!OutermostEntries
<1>5. Outermost = {i \in 1 .. n : \A j \in 1 .. i - 1 : frames[j] # frames[i]}
  BY <1>3 DEF Outermost, Attribution!OutermostEntries
<1>6. \A i \in 1 .. n - 1 : i \in Outermost' <=> i \in Outermost
  BY <1>2, <1>4, <1>5
<1>7. Outermost' = Outermost \ {n}
  <2>1. \A i : i \in Outermost' => i \in 1 .. n - 1
    BY <1>4
  <2>2. \A i : i \in Outermost => i \in 1 .. n - 1 \/ i = n
    BY <1>5
  <2>3. n \notin 1 .. n - 1
    OBVIOUS
  <2>4. QED
    BY <1>6, <2>1, <2>2, <2>3
<1>8. /\ Crediting = {i \in Outermost : Sampled(frames[i])}
      /\ Crediting' = {i \in Outermost' : SAMPLING_PERIOD # 0
                                         /\ Count'[frames'[i]] % SAMPLING_PERIOD = 0}
  BY DEF Crediting, Outermost, Sampled, Attribution!Crediting, Attribution!IsSampled
<1>9. \A i \in Outermost' : Count'[frames'[i]] = Count[frames[i]]
  <2> SUFFICES ASSUME NEW i \in Outermost' PROVE Count'[frames'[i]] = Count[frames[i]]
    OBVIOUS
  <2>1. i \in 1 .. n - 1 /\ frames'[i] = frames[i] /\ frames[i] \in Regions
    BY <1>1, <1>2, <1>4
  <2>2. CASE frames[i] # Last(frames)
    BY <2>1, <2>2
  <2>3. CASE frames[i] = Last(frames)
    <3>1. frames[i] = frames[n]
      BY <1>1, <2>3 DEF Last
    <3>2. n \notin Outermost
      BY <1>5, <2>1, <3>1
    <3>3. QED
      BY <1>1, <2>1, <3>2
  <2>4. QED
    BY <2>2, <2>3
<1>10. Crediting' = Crediting \ {n}
  BY <1>7, <1>8, <1>9 DEF Sampled
<1>11. QED
  BY <1>1, <1>7, <1>10

LEMMA DepthsAfterLeave ==
  ASSUME ThreadInv, Leave
  PROVE  DepthsMatchFrames'
<1>1. /\ frames \in Seq(Regions) /\ frames # <<>> /\ frames' = Front(frames)
      /\ RegionDepth \in [Regions -> Nat] /\ DepthsMatchFrames
  BY DEF ThreadInv, FrameTypes, IInv, TypeOK, Leave
<1>2. PICK n \in Nat \ {0} : n = Len(frames)
  BY <1>1, FrontFacts
<1>3. PICK r \in Regions : r = Last(frames) /\ r = frames[n]
  BY <1>1, <1>2, DepthOne
<1>4. RegionDepth' = [RegionDepth EXCEPT ![r] = @ - 1] /\ RegionDepth[r] # 0
  BY <1>1, <1>3, DepthOne
  DEF Leave, endTimingEvent, UnbalancedExit, ExitInner, ExitOutermost
<1>5. /\ Len(frames') = n - 1
      /\ frames' \in Seq(Regions)
      /\ \A i \in 1 .. n - 1 : frames'[i] = frames[i]
  BY <1>1, <1>2, FrontFacts
<1>6. DOMAIN frames = 1 .. n /\ DOMAIN frames' = 1 .. n - 1
  BY <1>1, <1>2, <1>5
<1> SUFFICES ASSUME NEW q \in Regions
             PROVE  RegionDepth'[q] = Cardinality({i \in DOMAIN frames' : frames'[i] = q})
  BY DEF DepthsMatchFrames
<1> DEFINE Old == {i \in DOMAIN frames : frames[i] = q}
           New == {i \in DOMAIN frames' : frames'[i] = q}
<1>7. RegionDepth[q] = Cardinality(Old) /\ IsFiniteSet(Old)
  BY <1>1, Occurrences DEF DepthsMatchFrames
<1>8. New = Old \ {n}
  BY <1>5, <1>6
<1>9. CASE q = r
  <2>1. n \in Old
    BY <1>3, <1>6, <1>9
  <2>2. Cardinality(New) = Cardinality(Old) - 1
    BY <1>7, <1>8, <2>1, FS_RemoveElement
  <2>3. QED
    BY <1>1, <1>4, <1>7, <1>9, <2>2
<1>10. CASE q # r
  <2>1. New = Old
    BY <1>3, <1>8, <1>10
  <2>2. QED
    BY <1>1, <1>4, <1>7, <1>10, <2>1
<1>11. QED
  BY <1>9, <1>10

(* The runtime takes an exit for the outermost one exactly when the frame  *)
(* left is its region's outermost.                                         *)
LEMMA LeaveCases ==
  ASSUME ThreadInv, Leave
  PROVE  /\ Len(frames) \in Outermost => ExitOutermost(Last(frames))
         /\ Len(frames) \notin Outermost => ExitInner(Last(frames))
<1>1. /\ RegionDepth[Last(frames)] # 0
      /\ RegionDepth[Last(frames)] = 1 <=> Len(frames) \in Outermost
  BY DepthOne DEF ThreadInv, FrameTypes, Leave
<1>2. QED
  BY <1>1
  DEF Leave, endTimingEvent, UnbalancedExit, ExitInner, ExitOutermost, OutermostExit

LEMMA ThreadLeave ==
  ASSUME ThreadInv, Leave
  PROVE  ThreadInv'
<1>1. /\ frames \in Seq(Regions) /\ frames # <<>> /\ frames' = Front(frames)
      /\ UNCHANGED <<inside, parity>>
      /\ endTimingEvent(Last(frames))
      /\ IInv /\ TypeOK
  BY DEF ThreadInv, FrameTypes, IInv, Leave
<1>2. PICK n \in Nat \ {0} : n = Len(frames)
  BY <1>1, FrontFacts
<1>3. /\ Len(frames') = n - 1
      /\ frames' \in Seq(Regions)
      /\ \A i \in 1 .. n - 1 : frames'[i] = frames[i]
      /\ Last(frames) \in Regions
  BY <1>1, <1>2, FrontFacts, DepthOne DEF ThreadInv
<1>4. IInv'
  BY <1>1, <1>3, NextStep DEF Next
<1>5. FrameTypes'
  BY <1>1, <1>3 DEF ThreadInv, FrameTypes
<1>6. DepthsMatchFrames'
  BY DepthsAfterLeave
<1>7. Outermost' = Outermost \ {n} /\ Crediting' = Crediting \ {n}
  <2>1. \A q \in Regions : q # Last(frames) => Count'[q] = Count[q]
    BY <1>1 DEF endTimingEvent, UnbalancedExit, ExitInner, ExitOutermost, timingVars, TypeOK
  <2>2. Len(frames) \notin Outermost => Count' = Count
    BY LeaveCases DEF ExitInner, timingVars
  <2>3. QED
    BY <1>1, <1>2, <2>1, <2>2, PoppedFrame
<1>8. Outermost \subseteq 1 .. n /\ Crediting \subseteq 1 .. n /\ IsFiniteSet(Outermost)
      /\ Crediting \subseteq Outermost
  BY <1>1, <1>2, Occurrences
<1>9. \A i \in 1 .. n : /\ Before(Outermost', i) = Before(Outermost, i)
                       /\ Before(Crediting', i) = Before(Crediting, i)
                       /\ Before(Crediting, i) \subseteq 1 .. n - 1
  <2> SUFFICES ASSUME NEW i \in 1 .. n
               PROVE  /\ Before(Outermost', i) = Before(Outermost, i)
                      /\ Before(Crediting', i) = Before(Crediting, i)
                      /\ Before(Crediting, i) \subseteq 1 .. n - 1
    OBVIOUS
  <2>1. ~ n < i
    OBVIOUS
  <2>2. \A j \in 1 .. n : j < i => j \in 1 .. n - 1
    OBVIOUS
  <2>3. QED
    BY <1>7, <1>8, <2>1, <2>2 DEF Before
<1>10. \A i \in 1 .. n : CountingBelow(i)' = CountingBelow(i)
  <2> SUFFICES ASSUME NEW i \in 1 .. n
               PROVE  CountingFor(Before(Crediting', i), frames')
                        = CountingFor(Before(Crediting, i), frames)
    BY CountingBelowIs
  <2>1. /\ Len(frames') \in Nat
        /\ \A j \in 1 .. Len(frames') : frames'[j] = frames[j]
        /\ Before(Crediting, i) \subseteq 1 .. Len(frames')
    BY <1>3, <1>9
  <2>2. CountingFor(Before(Crediting, i), frames) = CountingFor(Before(Crediting, i), frames')
    BY <2>1, SameCounting
  <2>3. QED
    BY <1>9, <2>2
<1>11. \A i \in 1 .. n : SaveIndex(i)' = SaveIndex(i)
  BY <1>9, SaveIndexIs
<1>12. RegionSaveStack' = RegionSaveStack
  BY <1>1 DEF endTimingEvent, UnbalancedExit, ExitInner, ExitOutermost, saveVars
<1>13. \A i \in Outermost' : Calls(RegionSaveStack[SaveIndex(i)], CountingBelow(i))'
  <2>1. \A i \in Outermost' : i \in Outermost /\ i \in 1 .. n
    BY <1>7, <1>8
  <2>2. QED
    BY <1>10, <1>11, <1>12, <2>1 DEF ThreadInv, ExitsHandCountingBack, Calls, Outermost
<1>14. CASE n \in Outermost
  <2>1. ExitOutermost(Last(frames))
    BY <1>2, <1>14, LeaveCases
  <2>2. RegionSaveTop = Cardinality(Outermost) /\ RegionSaveTop \in Nat
    BY <1>1 DEF ThreadInv, SaveTopCountsFrames, TypeOK
  <2>3. RegionSaveTop > 0
    BY <1>8, <1>14, <2>2, FS_EmptySet
  <2>4. RegionSaveTop' = RegionSaveTop - 1
    BY <2>1, <2>3 DEF ExitOutermost
  <2>5. Cardinality(Outermost \ {n}) = Cardinality(Outermost) - 1
    BY <1>8, <1>14, FS_RemoveElement
  <2>6. SaveTopCountsFrames'
    BY <1>7, <2>2, <2>4, <2>5 DEF SaveTopCountsFrames
  <2>7. SaveIndex(n) = RegionSaveTop - 1
    <3>1. \A j \in 1 .. n : j < n <=> j # n
      OBVIOUS
    <3>2. Before(Outermost, n) = Outermost \ {n}
      BY <1>8, <3>1 DEF Before
    <3>3. QED
      BY <2>2, <2>5, <3>2, SaveIndexIs
  <2>8. HandedBack = RegionSaveStack[SaveIndex(n)]
    BY <1>1, <2>2, <2>3, <2>7, RuntimeAssumption DEF HandedBack, IInv, SaveTopCountsOpenRegions
  <2>9. Calls(RegionSaveStack[SaveIndex(n)], CountingBelow(n))
    BY <1>14 DEF ThreadInv, ExitsHandCountingBack, Outermost
  <2>10. counterBaseIndex' = HandedBack.base /\ globalDisable' = HandedBack.disable
    BY <2>1 DEF ExitOutermost
  <2>11. ExitsHandCountingBack'
    <3>1. Calls([base |-> counterBaseIndex, disable |-> globalDisable],
                CountingBelow(n))'
      BY <1>10, <2>8, <2>9, <2>10 DEF Calls
    <3>2. Len(frames') + 1 = n
      BY <1>3
    <3>3. QED
      BY <1>13, <3>1, <3>2 DEF ExitsHandCountingBack, Outermost
  <2>12. QED
    BY <1>4, <1>5, <1>6, <2>6, <2>11 DEF ThreadInv
<1>15. CASE n \notin Outermost
  <2>1. ExitInner(Last(frames))
    BY <1>2, <1>15, LeaveCases
  <2>2. UNCHANGED <<RegionSaveTop, counterBaseIndex, globalDisable>>
    BY <2>1 DEF ExitInner, saveVars, stateVars
  <2>3. SaveTopCountsFrames'
    <3>1. Outermost' = Outermost
      BY <1>7, <1>15
    <3>2. QED
      BY <2>2, <3>1 DEF ThreadInv, SaveTopCountsFrames
  <2>4. CountingBelow(n + 1) = CountingBelow(n)
    <3>1. \A j \in Crediting : j \in 1 .. n /\ j # n
      BY <1>8, <1>15
    <3>2. \A j \in Crediting : j < n /\ j < n + 1
      BY <3>1
    <3>3. Before(Crediting, n + 1) = Crediting /\ Before(Crediting, n) = Crediting
      BY <3>2 DEF Before
    <3>4. QED
      BY <3>3, CountingBelowIs
  <2>5. ExitsHandCountingBack'
    <3>1. Calls([base |-> counterBaseIndex, disable |-> globalDisable],
                CountingBelow(n))'
      BY <1>2, <1>10, <2>2, <2>4 DEF ThreadInv, ExitsHandCountingBack, Calls
    <3>2. Len(frames') + 1 = n
      BY <1>3
    <3>3. QED
      BY <1>13, <3>1, <3>2 DEF ExitsHandCountingBack, Outermost
  <2>6. QED
    BY <1>4, <1>5, <1>6, <2>3, <2>5 DEF ThreadInv
<1>16. QED
  BY <1>14, <1>15

-----------------------------------------------------------------------------
LEMMA ThreadStarts == ThreadInit => ThreadInv
<1> SUFFICES ASSUME ThreadInit PROVE ThreadInv
  OBVIOUS
<1>1. Init /\ frames = <<>> /\ inside = [r \in Regions |-> 0] /\ parity = 0
  BY DEF ThreadInit
<1>2. IInv
  BY <1>1, InitIInv
<1>3. frames \in Seq(Regions) /\ Len(frames) = 0 /\ DOMAIN frames = {}
  BY <1>1
<1>4. FrameTypes
  BY <1>1, <1>3 DEF FrameTypes
<1>5. Outermost = {} /\ Crediting = {}
  BY <1>3 DEF Outermost, Crediting, Attribution!OutermostEntries, Attribution!Crediting
<1>6. DepthsMatchFrames
  <2>1. \A r \in Regions : {i \in DOMAIN frames : frames[i] = r} = {}
    BY <1>3
  <2>2. QED
    BY <1>1, <2>1, FS_EmptySet DEF Init, DepthsMatchFrames
<1>7. SaveTopCountsFrames
  BY <1>1, <1>5, FS_EmptySet DEF Init, SaveTopCountsFrames
<1>8. CountingBelow(Len(frames) + 1).disable
  BY <1>5 DEF CountingBelow, Crediting
<1>9. ExitsHandCountingBack
  BY <1>1, <1>5, <1>8 DEF Init, ExitsHandCountingBack, Calls, Outermost
<1>10. QED
  BY <1>2, <1>4, <1>6, <1>7, <1>9 DEF ThreadInv

(* Counter calls, the passing of time and stuttering leave the call stack  *)
(* and the counting state alone.                                           *)
LEMMA ThreadElsewhere ==
  ASSUME ThreadInv, IInv', FrameTypes',
         UNCHANGED <<frames, RegionDepth, saveVars, stateVars, Count>>
  PROVE  ThreadInv'
<1>1. UNCHANGED <<Outermost, Crediting>>
  BY DEF Outermost, Crediting, Attribution!OutermostEntries, Attribution!Crediting,
         Attribution!IsSampled
<1>2. \A i : SaveIndex(i)' = SaveIndex(i) /\ CountingBelow(i)' = CountingBelow(i)
  BY <1>1, SaveIndexIs, CountingBelowIs
<1>3. DepthsMatchFrames' /\ SaveTopCountsFrames'
  BY <1>1 DEF ThreadInv, DepthsMatchFrames, SaveTopCountsFrames, saveVars
<1>4. ExitsHandCountingBack'
  <2>1. CountingBelow(Len(frames) + 1)' = CountingBelow(Len(frames) + 1)
    BY <1>1, CountingBelowIs DEF CountingBelow, Crediting
  <2>2. QED
    BY <1>1, <1>2, <2>1 DEF ThreadInv, ExitsHandCountingBack, Calls, Outermost, saveVars, stateVars
<1>5. QED
  BY <1>3, <1>4 DEF ThreadInv

LEMMA ThreadStep == ThreadInv /\ [ThreadNext]_threadVars => ThreadInv'
<1> SUFFICES ASSUME ThreadInv, [ThreadNext]_threadVars PROVE ThreadInv'
  OBVIOUS
<1>1. CASE \E r \in Regions : Enter(r)
  BY <1>1, ThreadEnter
<1>2. CASE Leave
  BY <1>2, ThreadLeave
<1>3. CASE \E s \in Slots, sf \in Scales : Access(s, sf)
  <2>1. PICK s \in Slots, sf \in Scales : Access(s, sf)
    BY <1>3
  <2>2. IInv'
    BY <2>1, NextStep DEF Access, Next, ThreadInv
  <2>3. FrameTypes'
    BY <2>1 DEF Access, ThreadInv, FrameTypes
  <2>4. QED
    BY <2>1, <2>2, <2>3, ThreadElsewhere DEF Access, incrementCounterArray, timingVars
<1>4. CASE Pass
  <2>1. IInv'
    BY <1>4, NextStep DEF Pass, Next, ThreadInv
  <2>2. FrameTypes'
    BY <1>4 DEF Pass, ThreadInv, FrameTypes
  <2>3. QED
    BY <1>4, <2>1, <2>2, ThreadElsewhere DEF Pass, Tick, timingVars
<1>5. CASE UNCHANGED threadVars
  <2>1. UNCHANGED vars /\ UNCHANGED <<frames, inside, parity>>
    BY <1>5 DEF threadVars
  <2>2. IInv'
    BY <2>1, NextStep DEF ThreadInv
  <2>3. FrameTypes'
    BY <2>1 DEF ThreadInv, FrameTypes
  <2>4. QED
    BY <2>1, <2>2, <2>3, ThreadElsewhere DEF vars, timingVars
<1>6. QED
  BY <1>1, <1>2, <1>3, <1>4, <1>5 DEF ThreadNext

THEOREM ThreadInvariance == ThreadSpec => []ThreadInv
BY ThreadStarts, ThreadStep, PTL DEF ThreadSpec

-----------------------------------------------------------------------------
(* A region's depth is the number of its entries on the call stack, for    *)
(* any nesting and recursion.                                              *)
THEOREM DepthsCorrect == ThreadSpec => []DepthsMatchFrames
<1>1. ThreadInv => DepthsMatchFrames
  BY DEF ThreadInv
<1>2. QED
  BY <1>1, ThreadInvariance, PTL

(* The counting state in force, and every state saved for an exit, is the  *)
(* one the call stack calls for at that level.                             *)
THEOREM CountingIsHandedBack == ThreadSpec => []ExitsHandCountingBack
<1>1. ThreadInv => ExitsHandCountingBack
  BY DEF ThreadInv
<1>2. QED
  BY <1>1, ThreadInvariance, PTL

-----------------------------------------------------------------------------
(* The refinement: what the invariant buys.  The thread and its runtime    *)
(* implement RegionAttribution, and with every invocation sampled the      *)
(* elapsed times are the times spent inside the regions.                   *)

(* The rows of CounterArray, as the refinement mapping reads them.         *)
Credits == [r \in Regions |-> [s \in Slots |-> CounterArray[RowBase(r) + s]]]

LEMMA MappedVars ==
  UNCHANGED <<frames, Count, CounterArray, parity>> => UNCHANGED Attribution!vars
BY DEF Attribution!vars

-----------------------------------------------------------------------------
(* Counting is on exactly when an open invocation is sampled, and then in  *)
(* the row of the region RegionAttribution credits.                        *)
LEMMA CountingIsTheOwners ==
  ASSUME ThreadInv
  PROVE  /\ globalDisable <=> Crediting = {}
         /\ Crediting # {} => /\ Attribution!Owner \in Regions
                              /\ counterBaseIndex = RowBase(Attribution!Owner)
<1>1. frames \in Seq(Regions) /\ Len(frames) \in Nat
  BY DEF ThreadInv, FrameTypes
<1>2. PICK n \in Nat : n = Len(frames)
  BY <1>1
<1>3. Crediting \subseteq 1 .. n
  BY <1>1, <1>2, Occurrences
<1>4. Before(Crediting, n + 1) = Crediting
  BY <1>3, BeforeEnd
<1>5. CountingBelow(n + 1) = CountingFor(Crediting, frames)
  BY <1>4, CountingBelowIs
<1>6. Calls([base |-> counterBaseIndex, disable |-> globalDisable], CountingFor(Crediting, frames))
  BY <1>2, <1>5 DEF ThreadInv, ExitsHandCountingBack
<1>7. globalDisable <=> Crediting = {}
  BY <1>6 DEF Calls, CountingFor, ThreadInv, IInv, TypeOK
<1>8. ASSUME Crediting # {}
      PROVE  Attribution!Owner \in Regions /\ counterBaseIndex = RowBase(Attribution!Owner)
  <2>1. Max(Crediting) \in 1 .. n
    <3>1. \A j \in Crediting : j \in Nat /\ j <= n
      BY <1>2, <1>3
    <3>2. QED
      BY <1>2, <1>3, <1>8, <3>1, MaxIsGreatest
  <2>2. Attribution!Owner = frames[Max(Crediting)]
    BY DEF Attribution!Owner, Attribution!Max, Max, Crediting
  <2>3. counterBaseIndex = RowBase(frames[Max(Crediting)])
    BY <1>6, <1>7, <1>8 DEF Calls, CountingFor
  <2>4. QED
    BY <1>1, <1>2, <2>1, <2>2, <2>3
<1>9. QED
  BY <1>7, <1>8

(* A counter call adds to the credited slot of the row's region and leaves *)
(* every other slot of every row alone.                                    *)
LEMMA OneSlotCredited ==
  ASSUME TypeOK, NEW o \in Regions, NEW s \in Slots, NEW n,
         CounterArray' = [CounterArray EXCEPT ![s + RowBase(o)] = @ + n]
  PROVE  Credits' = [Credits EXCEPT ![o][s] = @ + n]
<1>1. \A q \in Regions, t \in Slots : /\ t + RowBase(q) \in CounterIndex
                                      /\ RowBase(q) + t = t + RowBase(q)
  <2> SUFFICES ASSUME NEW q \in Regions, NEW t \in Slots
               PROVE  t + RowBase(q) \in CounterIndex /\ RowBase(q) + t = t + RowBase(q)
    OBVIOUS
  <2>1. RowBase(q) \in Int /\ t \in Int
    BY RuntimeAssumption DEF Regions, Slots, RowBase
  <2>2. QED
    BY <2>1, RowInArray
<1>2. DOMAIN CounterArray = CounterIndex
  BY DEF TypeOK
<1>3. \A q \in Regions, t \in Slots :
        CounterArray'[RowBase(q) + t] = IF q = o /\ t = s THEN CounterArray[RowBase(q) + t] + n
                                                           ELSE CounterArray[RowBase(q) + t]
  <2> SUFFICES ASSUME NEW q \in Regions, NEW t \in Slots
               PROVE  CounterArray'[RowBase(q) + t]
                        = IF q = o /\ t = s THEN CounterArray[RowBase(q) + t] + n
                                            ELSE CounterArray[RowBase(q) + t]
    OBVIOUS
  <2>1. CASE q = o /\ t = s
    BY <1>1, <1>2, <2>1
  <2>2. CASE ~ (q = o /\ t = s)
    <3>1. RowBase(q) + t # RowBase(o) + s
      BY <2>2, RowsApart
    <3>2. RowBase(o) + s = s + RowBase(o) /\ RowBase(q) + t \in CounterIndex
      BY <1>1
    <3>3. QED
      BY <1>2, <2>2, <3>1, <3>2
  <2>3. QED
    BY <2>1, <2>2
<1>4. Credits' = [q \in Regions |-> [t \in Slots |->
                    IF q = o /\ t = s THEN CounterArray[RowBase(q) + t] + n
                                      ELSE CounterArray[RowBase(q) + t]]]
  BY <1>3 DEF Credits
<1>5. QED
  BY <1>4 DEF Credits

-----------------------------------------------------------------------------
LEMMA MappedInit == ThreadInit => Attribution!Init
<1> SUFFICES ASSUME ThreadInit PROVE Attribution!Init
  OBVIOUS
<1>1. CounterArray = [i \in CounterIndex |-> 0]
  BY DEF ThreadInit, Init
<1>2. \A r \in Regions, s \in Slots : CounterArray[RowBase(r) + s] = 0
  <2> SUFFICES ASSUME NEW r \in Regions, NEW s \in Slots PROVE RowBase(r) + s \in CounterIndex
    BY <1>1
  <2>1. RowBase(r) \in Int /\ s \in Int
    BY RuntimeAssumption DEF Regions, Slots, RowBase
  <2>2. QED
    BY <2>1, RowInArray
<1>3. QED
  BY <1>2 DEF ThreadInit, Init, Attribution!Init

LEMMA MappedEnter ==
  ASSUME NEW r \in Regions, Enter(r)
  PROVE  Attribution!Enter(r)
<1>1. frames' = Append(frames, r) /\ UNCHANGED <<Count, CounterArray, parity>>
  BY DEF Enter, startTimingEvent, Reenter, EnterOutermost, timingVars
<1>2. QED
  BY <1>1 DEF Attribution!Enter

LEMMA MappedLeave ==
  ASSUME ThreadInv, Leave
  PROVE  Attribution!Leave
<1>1. frames # <<>> /\ frames' = Front(frames) /\ UNCHANGED <<CounterArray, parity>>
  BY DEF Leave, endTimingEvent
<1>2. Count' = IF Len(frames) \in Attribution!OutermostEntries
                 THEN [Count EXCEPT ![Last(frames)] = @ + 1]
                 ELSE Count
  BY LeaveCases DEF ExitOutermost, ExitInner, timingVars, Outermost
<1>3. QED
  BY <1>1, <1>2 DEF Attribution!Leave, Attribution!Front, Attribution!Last, Front, Last

LEMMA MappedAccess ==
  ASSUME ThreadInv, NEW s \in Slots, NEW n \in Scales, Access(s, n)
  PROVE  Attribution!Access(s, n)
<1>1. /\ UNCHANGED <<frames, Count>> /\ parity' = 1 - parity
      /\ globalDisable => CounterArray' = CounterArray
      /\ ~ globalDisable =>
           CounterArray' = [CounterArray EXCEPT ![s + counterBaseIndex] = @ + n]
  BY DEF Access, incrementCounterArray, timingVars
<1>2. Credits' = IF Crediting = {} THEN Credits
                 ELSE [Credits EXCEPT ![Attribution!Owner][s] = @ + n]
  <2>1. CASE Crediting = {}
    <3>1. CounterArray' = CounterArray
      BY <1>1, <2>1, CountingIsTheOwners
    <3>2. QED
      BY <2>1, <3>1 DEF Credits
  <2>2. CASE Crediting # {}
    <3>1. PICK o \in Regions : o = Attribution!Owner /\ counterBaseIndex = RowBase(o)
      BY <2>2, CountingIsTheOwners
    <3>2. CounterArray' = [CounterArray EXCEPT ![s + RowBase(o)] = @ + n]
      BY <1>1, <2>2, <3>1, CountingIsTheOwners
    <3>3. TypeOK
      BY DEF ThreadInv, IInv
    <3>4. Credits' = [Credits EXCEPT ![o][s] = @ + n]
      BY <3>2, <3>3, OneSlotCredited
    <3>5. QED
      BY <2>2, <3>1, <3>4
  <2>3. QED
    BY <2>1, <2>2
<1>3. QED
  BY <1>1, <1>2 DEF Attribution!Access, Credits, Crediting

LEMMA MappedStep ==
  ThreadInv /\ [ThreadNext]_threadVars => [Attribution!Next]_(Attribution!vars)
<1> SUFFICES ASSUME ThreadInv, [ThreadNext]_threadVars
             PROVE  [Attribution!Next]_(Attribution!vars)
  OBVIOUS
<1>1. CASE \E r \in Regions : Enter(r)
  BY <1>1, MappedEnter DEF Attribution!Next
<1>2. CASE Leave
  BY <1>2, MappedLeave DEF Attribution!Next
<1>3. CASE \E s \in Slots, n \in Scales : Access(s, n)
  BY <1>3, MappedAccess DEF Attribution!Next
<1>4. CASE Pass
  BY <1>4, MappedVars DEF Pass, Tick, timingVars
<1>5. CASE UNCHANGED threadVars
  BY <1>5, MappedVars DEF threadVars, vars, timingVars
<1>6. QED
  BY <1>1, <1>2, <1>3, <1>4, <1>5 DEF ThreadNext

(* The thread and its runtime credit exactly the accesses RegionAttribution*)
(* credits, to the same region, for every number of regions and slots, any *)
(* depth of nesting and recursion, and every sampling period.              *)
THEOREM AttributionRefined == ThreadSpec => ImplementsAttribution
BY MappedInit, MappedStep, ThreadInvariance, PTL
DEF ThreadSpec, ImplementsAttribution, Attribution!Spec

-----------------------------------------------------------------------------
(* Elapsed time, when every invocation is sampled.                         *)

Measured(r) ==
  TotalTimeElapsed[r] + IF RegionDepth[r] > 0 THEN now - StartTime[r] ELSE 0

LEMMA ElapsedStarts == ThreadInit => ElapsedIsTimeInside
BY DEF ThreadInit, Init, ElapsedIsTimeInside

LEMMA EverySampled ==
  ASSUME TypeOK, SAMPLING_PERIOD = 1, NEW r \in Regions
  PROVE  Sampled(r)
<1>1. Count[r] \in Nat
  BY DEF TypeOK
<1>2. QED
  BY <1>1 DEF Sampled

(* Counting is on whenever the thread is in some region: the entry at the  *)
(* bottom of the call stack is outermost, and sampled.                     *)
LEMMA CountingIsOn ==
  ASSUME ThreadInv, SAMPLING_PERIOD = 1, frames # <<>>
  PROVE  ~ globalDisable
<1>1. Len(frames) \in Nat \ {0} /\ frames[1] \in Regions /\ DOMAIN frames = 1 .. Len(frames)
  BY DEF ThreadInv, FrameTypes
<1>2. 1 \in Outermost
  BY <1>1 DEF Outermost, Attribution!OutermostEntries
<1>3. Sampled(frames[1])
  BY <1>1, EverySampled DEF ThreadInv, IInv
<1>4. 1 \in Crediting
  BY <1>2, <1>3 DEF Crediting, Outermost, Sampled, Attribution!Crediting, Attribution!IsSampled
<1>5. QED
  BY <1>4, CountingIsTheOwners

(* The thread is inside the regions on its call stack.                     *)
LEMMA InsideMeansOpen ==
  ASSUME ThreadInv, NEW r \in Regions
  PROVE  r \in Range(frames) <=> RegionDepth[r] > 0
<1>1. frames \in Seq(Regions) /\ DepthsMatchFrames /\ RegionDepth[r] \in Nat
  BY DEF ThreadInv, FrameTypes, IInv, TypeOK
<1>2. RegionDepth[r] = 0 <=> \A i \in 1 .. Len(frames) : frames[i] # r
  BY <1>1, DepthZero
<1>3. DOMAIN frames = 1 .. Len(frames)
  BY <1>1
<1>4. QED
  BY <1>1, <1>2, <1>3 DEF Range

LEMMA ElapsedEnter ==
  ASSUME ThreadInv, ElapsedIsTimeInside, SAMPLING_PERIOD = 1, NEW q \in Regions, Enter(q)
  PROVE  \A r \in Regions : inside'[r] = Measured(r)'
<1> SUFFICES ASSUME NEW r \in Regions PROVE inside'[r] = Measured(r)'
  OBVIOUS
<1>1. inside' = inside /\ now' = now /\ TotalTimeElapsed' = TotalTimeElapsed
      /\ inside[r] = Measured(r) /\ TypeOK
  BY DEF Enter, startTimingEvent, Reenter, EnterOutermost, timingVars, ThreadInv, IInv,
         ElapsedIsTimeInside, Measured
<1>2. RegionDepth' = [RegionDepth EXCEPT ![q] = @ + 1]
  BY DEF Enter, startTimingEvent, Reenter, EnterOutermost, DeeperBy1
<1>3. RegionDepth[q] # 0 => StartTime' = StartTime
  BY DEF Enter, startTimingEvent, Reenter, EnterOutermost, timingVars
<1>4. RegionDepth[q] = 0 => StartTime' = [StartTime EXCEPT ![q] = now]
  BY <1>1, EverySampled DEF Enter, startTimingEvent, Reenter, EnterOutermost
<1>5. RegionDepth[r] \in Nat /\ RegionDepth[q] \in Nat /\ TotalTimeElapsed[r] \in Nat
      /\ now \in Nat /\ StartTime[r] \in Nat
      /\ DOMAIN RegionDepth = Regions /\ DOMAIN StartTime = Regions
  BY <1>1 DEF TypeOK
<1>6. CASE r # q
  BY <1>1, <1>2, <1>3, <1>4, <1>5, <1>6 DEF Measured
<1>7. CASE r = q /\ RegionDepth[q] = 0
  <2>1. RegionDepth'[r] = 1 /\ StartTime'[r] = now
    BY <1>2, <1>4, <1>5, <1>7
  <2>2. QED
    BY <1>1, <1>5, <1>7, <2>1 DEF Measured
<1>8. CASE r = q /\ RegionDepth[q] # 0
  <2>1. RegionDepth'[r] > 0 /\ RegionDepth[r] > 0 /\ StartTime'[r] = StartTime[r]
    BY <1>2, <1>3, <1>5, <1>8
  <2>2. QED
    BY <1>1, <2>1 DEF Measured
<1>9. QED
  BY <1>6, <1>7, <1>8

LEMMA ElapsedLeave ==
  ASSUME ThreadInv, ElapsedIsTimeInside, SAMPLING_PERIOD = 1, Leave
  PROVE  \A r \in Regions : inside'[r] = Measured(r)'
<1> SUFFICES ASSUME NEW r \in Regions PROVE inside'[r] = Measured(r)'
  OBVIOUS
<1>1. PICK q \in Regions : q = Last(frames) /\ RegionDepth[q] # 0
  BY DepthOne DEF Leave, ThreadInv, FrameTypes
<1>2. inside' = inside /\ now' = now /\ inside[r] = Measured(r) /\ TypeOK
  BY DEF Leave, endTimingEvent, ThreadInv, IInv, ElapsedIsTimeInside, Measured
<1>3. ExitInner(q) \/ ExitOutermost(q)
  BY <1>1, LeaveCases
<1>4. RegionDepth' = [RegionDepth EXCEPT ![q] = @ - 1] /\ StartTime' = StartTime
  BY <1>3 DEF ExitInner, ExitOutermost, timingVars
<1>5. RegionDepth[r] \in Nat /\ RegionDepth[q] \in Nat /\ TotalTimeElapsed[r] \in Nat
      /\ now \in Nat /\ StartTime[r] \in Nat
      /\ DOMAIN RegionDepth = Regions /\ DOMAIN TotalTimeElapsed = Regions
  BY <1>2 DEF TypeOK
<1>6. CASE ExitInner(q)
  <2>1. RegionDepth[q] > 1 /\ TotalTimeElapsed' = TotalTimeElapsed
    BY <1>5, <1>6 DEF ExitInner, OutermostExit, timingVars
  <2>2. RegionDepth'[r] > 0 <=> RegionDepth[r] > 0
    BY <1>4, <1>5, <2>1
  <2>3. QED
    BY <1>2, <1>4, <2>1, <2>2 DEF Measured
<1>7. CASE ExitOutermost(q)
  <2>1. ~ globalDisable
    BY CountingIsOn DEF Leave
  <2>2. /\ RegionDepth[q] = 1
        /\ TotalTimeElapsed' = [TotalTimeElapsed EXCEPT ![q] = @ + (now - StartTime[q])]
    BY <1>7, <2>1 DEF ExitOutermost, OutermostExit
  <2>3. CASE r = q
    <3>1. RegionDepth'[r] = 0 /\ TotalTimeElapsed'[r] = TotalTimeElapsed[r] + (now - StartTime[r])
      BY <1>4, <1>5, <2>2, <2>3
    <3>2. QED
      BY <1>2, <1>5, <2>2, <2>3, <3>1 DEF Measured
  <2>4. CASE r # q
    <3>1. RegionDepth'[r] = RegionDepth[r] /\ TotalTimeElapsed'[r] = TotalTimeElapsed[r]
      BY <1>4, <1>5, <2>2, <2>4
    <3>2. QED
      BY <1>2, <1>4, <3>1 DEF Measured
  <2>5. QED
    BY <2>3, <2>4
<1>8. QED
  BY <1>3, <1>6, <1>7

LEMMA ElapsedPass ==
  ASSUME ThreadInv, ElapsedIsTimeInside, SAMPLING_PERIOD = 1, Pass
  PROVE  \A r \in Regions : inside'[r] = Measured(r)'
<1> SUFFICES ASSUME NEW r \in Regions PROVE inside'[r] = Measured(r)'
  OBVIOUS
<1>1. /\ now' = now + 1
      /\ UNCHANGED <<RegionDepth, StartTime, TotalTimeElapsed>>
      /\ inside'[r] = IF r \in Range(frames) THEN inside[r] + 1 ELSE inside[r]
  BY DEF Pass, Tick, timingVars
<1>2. r \in Range(frames) <=> RegionDepth[r] > 0
  BY InsideMeansOpen
<1>3. inside[r] = Measured(r) /\ now \in Nat /\ StartTime[r] \in Nat /\ TotalTimeElapsed[r] \in Nat
  BY DEF ElapsedIsTimeInside, Measured, ThreadInv, IInv, TypeOK
<1>4. QED
  BY <1>1, <1>2, <1>3 DEF Measured

LEMMA ElapsedStep ==
  ThreadInv /\ ElapsedIsTimeInside /\ [ThreadNext]_threadVars => ElapsedIsTimeInside'
<1> SUFFICES ASSUME ThreadInv, ElapsedIsTimeInside, [ThreadNext]_threadVars,
                    SAMPLING_PERIOD = 1
             PROVE  \A r \in Regions : inside'[r] = Measured(r)'
  BY DEF ElapsedIsTimeInside, Measured
<1>1. CASE \E r \in Regions : Enter(r)
  BY <1>1, ElapsedEnter
<1>2. CASE Leave
  BY <1>2, ElapsedLeave
<1>3. CASE \E s \in Slots, n \in Scales : Access(s, n)
  BY <1>3 DEF Access, incrementCounterArray, timingVars, ElapsedIsTimeInside, Measured
<1>4. CASE Pass
  BY <1>4, ElapsedPass
<1>5. CASE UNCHANGED threadVars
  BY <1>5 DEF threadVars, vars, timingVars, ElapsedIsTimeInside, Measured
<1>6. QED
  BY <1>1, <1>2, <1>3, <1>4, <1>5 DEF ThreadNext

(* With every invocation sampled, the elapsed time of a region and its     *)
(* running measurement are the time the thread has spent inside it.        *)
THEOREM ElapsedCorrect == ThreadSpec => []ElapsedIsTimeInside
BY ElapsedStarts, ElapsedStep, ThreadInvariance, PTL DEF ThreadSpec

=============================================================================
