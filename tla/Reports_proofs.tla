---------------------------- MODULE Reports_proofs ----------------------------
(***************************************************************************)
(* Proofs about Reports: for any module, regions, call graph and run, what *)
(* is reported of a region is what ran under it.                           *)
(***************************************************************************)
EXTENDS Reports, FunctionCloning_proofs, FiniteSetTheorems, WellFoundedInduction

(* What a call names as a clone has been cloned.                           *)
CalledClonesExist ==
  \A b \in Bodies, p \in Parts, g \in Functions, form \in Forms :
    <<CloneOf(g), form>> \in code[b].calls[p] => g \in Cloned

(* A clone's blocks in the regions of its function get its counters.       *)
ClonesCountThemselves ==
  \A f \in Cloned : \A r \in RegionsOf(f) :
    IsPending(f) \/ CloneOf(f) \in code[CloneOf(f)].counters[r]

(* No third body puts counters in a region.                                *)
CountersOfHome ==
  \A b \in Bodies, r \in Regions :
    code[b].counters[r] \subseteq {Original(Home[r]), CloneOf(Home[r])}

CloningInv ==
  /\ IInv
  /\ CalledClonesExist
  /\ ClonesCountThemselves
  /\ CountersOfHome

(* What can be counted in region r's row: its own code, and that of clones.*)
CountsIn(r) == {c \in Codes : c[1] = r \/ c[1] \in Functions}

CanCount(i) == i.row \in Regions /\ i.code \in CountsIn(i.row)

OnlyOwnCodeCounts == \A w \in running : \A i \in Increments(w) : CanCount(i)

(* Each counter of a row has counted one code, and it is that code's count.*)
CountersMatchRuns ==
  /\ CounterArray \in [0 .. ROI_Count * CountArraySize - 1 -> Nat]
  /\ ran \in [Regions -> [Codes -> Nat]]
  /\ \A r \in Regions, c \in Codes :
       ran[r][c] = IF c \in CountsIn(r) THEN CounterArray[Index(r, c[2])] ELSE 0

ReportsInv ==
  /\ CloningInv
  /\ phase \in {"pass", "run", "reported"}
  /\ phase # "pass" => stage = "done"
  /\ phase # "pass" /\ ClonedBodyInstrumentedOnce /\ NoneReenteredFromWithin =>
       /\ OnlyOwnCodeCounts
       /\ CountersMatchRuns
  /\ ReportsMatchRuns

-----------------------------------------------------------------------------
(* The pass keeps CloningInv.                                              *)

LEMMA CodeFields ==
  ASSUME VarTypes, NEW b \in Bodies
  PROVE  /\ code[b] \in Code
         /\ \A p \in Parts : code[b].calls[p] \subseteq Bodies \X Forms
         /\ \A r \in Regions : code[b].counters[r] \subseteq Bodies
BY DEF VarTypes, Code

LEMMA CountersKept ==
  ASSUME NEW body \in Code, NEW p \in Parts, NEW f \in Functions, NEW form
  PROVE  /\ Retargeted(body, p, f, form).counters = body.counters
         /\ Stripped(body).counters = body.counters
         /\ Stripped(body).calls = body.calls
BY DEF Retargeted, Stripped, Code

LEMMA CallKeeps ==
  ASSUME CloningInv, NEW b \in Bodies, NEW p \in Parts, NEW f \in Functions,
         NEW form \in Forms, NEW r \in Regions, processCallInst(b, p, f, form, r), f \notin Cloned => b # CloneOf(f)
  PROVE  CalledClonesExist' /\ ClonesCountThemselves' /\ CountersOfHome'
<1>1. VarTypes /\ PendingOnce
  BY DEF CloningInv, IInv
<1>2. /\ code'[b] = Retargeted(code[b], p, f, form)
      /\ f \notin Cloned => code'[CloneOf(f)] = Stripped(code[Original(f)])
      /\ \A c \in Bodies : c # b /\ (f \notin Cloned => c # CloneOf(f)) => code'[c] = code[c]
  BY <1>1, CallCode
<1>3. /\ code[b] \in Code /\ Original(f) \in Bodies /\ CloneOf(f) \in Bodies
      /\ code[Original(f)] \in Code
  BY <1>1, BodiesApart, CodeFields
<1>4. /\ Cloned' = Cloned \cup {f}
      /\ f \notin Cloned => IsPending(f)'
      /\ \A g : IsPending(g) => IsPending(g)'
  BY <1>1, CallQueue
<1>5. /\ code'[b].calls[p] \subseteq code[b].calls[p] \cup {<<CloneOf(f), form>>}
      /\ \A q \in Parts : q # p => code'[b].calls[q] = code[b].calls[q]
  BY <1>2, <1>3, RetargetedFacts
<1>6. code'[b].counters = code[b].counters
  BY <1>2, <1>3, CountersKept
<1>7. f \notin Cloned => /\ code'[CloneOf(f)].calls = code[Original(f)].calls
                         /\ code'[CloneOf(f)].counters = code[Original(f)].counters
  BY <1>2, <1>3, CountersKept
<1>8. CalledClonesExist'
  <2> SUFFICES ASSUME NEW c \in Bodies, NEW q \in Parts, NEW g \in Functions,
                      NEW as \in Forms, <<CloneOf(g), as>> \in code'[c].calls[q]
               PROVE  g \in Cloned'
    BY DEF CalledClonesExist
  <2>1. CASE c = b /\ q = p
    <3>1. <<CloneOf(g), as>> \in code[b].calls[p] \/ CloneOf(g) = CloneOf(f)
      BY <1>5, <2>1
    <3>2. CloneOf(g) = CloneOf(f) => g = f
      BY BodiesApart
    <3>3. QED
      BY <1>4, <3>1, <3>2 DEF CloningInv, CalledClonesExist
  <2>2. CASE c = b /\ q # p
    BY <1>4, <1>5, <2>2 DEF CloningInv, CalledClonesExist
  <2>3. CASE c # b /\ f \notin Cloned /\ c = CloneOf(f)
    BY <1>3, <1>4, <1>7, <2>3 DEF CloningInv, CalledClonesExist
  <2>4. CASE c # b /\ (f \notin Cloned => c # CloneOf(f))
    BY <1>2, <1>4, <2>4 DEF CloningInv, CalledClonesExist
  <2>5. QED
    BY <2>1, <2>2, <2>3, <2>4
<1>9. ClonesCountThemselves'
  <2> SUFFICES ASSUME NEW g \in Cloned', NEW q \in RegionsOf(g)
               PROVE  IsPending(g)' \/ CloneOf(g) \in code'[CloneOf(g)].counters[q]
    BY DEF ClonesCountThemselves, RegionsOf
  <2>1. CASE g \notin Cloned
    BY <1>4, <2>1
  <2>2. CASE g \in Cloned
    <3>1. g \in Functions /\ CloneOf(g) \in Bodies
      BY <2>2, BodiesApart DEF Cloned
    <3>2. f \notin Cloned => CloneOf(g) # CloneOf(f)
      BY <2>2, <3>1, BodiesApart
    <3>3. code'[CloneOf(g)].counters = code[CloneOf(g)].counters
      BY <1>2, <1>6, <3>1, <3>2
    <3>4. QED
      BY <1>4, <2>2, <3>3 DEF CloningInv, ClonesCountThemselves
  <2>3. QED
    BY <2>1, <2>2
<1>10. CountersOfHome'
  <2> SUFFICES ASSUME NEW c \in Bodies, NEW q \in Regions
               PROVE  code'[c].counters[q] \subseteq {Original(Home[q]), CloneOf(Home[q])}
    BY DEF CountersOfHome
  <2>1. \E d \in Bodies : code'[c].counters = code[d].counters
    BY <1>2, <1>3, <1>6, <1>7
  <2>2. QED
    BY <2>1 DEF CloningInv, CountersOfHome
<1>11. QED
  BY <1>8, <1>9, <1>10

(* The clone Head(PendingFunctionClones) and a region get their counters.  *)
LEMMA RegionCounted ==
  ASSUME CloningInv, NEW n \in 1 .. MaxEvents, InstrumentRegion(n)
  PROVE  CalledClonesExist' /\ ClonesCountThemselves' /\ CountersOfHome'
<1>1. VarTypes /\ region \in Regions
  BY DEF CloningInv, IInv, VarTypes
<1>2. PICK h \in Bodies : /\ h = Original(Home[region])
                          /\ \A f \in Functions : CloneOf(f) # h
  BY <1>1, HomeIsFunction, BodiesApart
<1>3. /\ code' = [code EXCEPT ![h].counters[region] = @ \cup {h},
                              ![h].starts = @ \cup {region}]
      /\ UNCHANGED <<owner, PendingFunctionClones>>
  BY <1>2 DEF InstrumentRegion
<1>4. /\ \A c \in Bodies : c # h => code'[c] = code[c]
      /\ code'[h].calls = code[h].calls
      /\ code'[h].counters[region] = code[h].counters[region] \cup {h}
      /\ \A q \in Regions : q # region => code'[h].counters[q] = code[h].counters[q]
  <2>1. code \in [Bodies -> Code] /\ code[h] \in Code
    BY <1>1 DEF VarTypes
  <2>2. code' = [code EXCEPT ![h] = Entered(code[h], region, h)]
    BY <1>3, <2>1 DEF Entered
  <2>3. code'[h] = Entered(code[h], region, h) /\ \A c \in Bodies : c # h => code'[c] = code[c]
    BY <2>1, <2>2
  <2>4. /\ Entered(code[h], region, h).calls = code[h].calls
        /\ Entered(code[h], region, h).counters =
             [code[h].counters EXCEPT ![region] = @ \cup {h}]
        /\ code[h].counters \in [Regions -> SUBSET Bodies]
    BY <2>1 DEF Entered, Code
  <2>5. QED
    BY <1>1, <2>3, <2>4
<1>5. Cloned' = Cloned /\ \A g : IsPending(g)' <=> IsPending(g)
  BY <1>3 DEF Cloned, IsPending
<1>6. CalledClonesExist'
  <2>1. \A c \in Bodies : code'[c].calls = code[c].calls
    BY <1>4
  <2>2. QED
    BY <1>5, <2>1 DEF CloningInv, CalledClonesExist
<1>7. ClonesCountThemselves'
  <2>1. \A g \in Cloned : g \in Functions /\ code'[CloneOf(g)] = code[CloneOf(g)]
    BY <1>2, <1>4, BodiesApart DEF Cloned
  <2>2. QED
    BY <1>5, <2>1 DEF CloningInv, ClonesCountThemselves, RegionsOf
<1>8. CountersOfHome'
  <2> SUFFICES ASSUME NEW c \in Bodies, NEW q \in Regions
               PROVE  code'[c].counters[q] \subseteq {Original(Home[q]), CloneOf(Home[q])}
    BY DEF CountersOfHome
  <2>1. code'[c].counters[q] = code[c].counters[q] \/ (c = h /\ q = region)
    BY <1>4
  <2>2. QED
    BY <1>2, <1>4, <2>1 DEF CloningInv, CountersOfHome
<1>9. QED
  BY <1>6, <1>7, <1>8

LEMMA CloneCounted ==
  ASSUME CloningInv, NEW n \in 1 .. MaxEvents, InstrumentClone(n)
  PROVE  CalledClonesExist' /\ ClonesCountThemselves' /\ CountersOfHome'
<1>1. /\ VarTypes /\ PendingOnce /\ PendingFunctionClones # <<>>
      /\ PendingFunctionClones' = Tail(PendingFunctionClones)
      /\ owner' = owner
  BY DEF CloningInv, IInv, InstrumentClone
<1>2. PICK key \in Functions : key = Head(PendingFunctionClones) /\ owner[key] \in Regions
  BY <1>1, HeadFacts
<1>3. PICK opened \in SUBSET Regions : opened = IF key \in Outlined THEN {owner[key]} ELSE {}
  BY <1>2
<1>4. PICK c \in Bodies : c = CloneOf(key)
  BY BodiesApart
<1>5. code' = [code EXCEPT ![c].counters = [r \in Regions |-> IF Home[r] = key THEN @[r] \cup {c} ELSE {}],
                           ![c].starts = @ \cup opened,
                           ![c].ends = @ \cup opened]
  BY <1>2, <1>3, <1>4 DEF InstrumentClone
<1>6. /\ \A b \in Bodies : b # c => code'[b] = code[b]
      /\ code'[c].calls = code[c].calls
      /\ code'[c].counters = [r \in Regions |-> IF Home[r] = key THEN code[c].counters[r] \cup {c} ELSE {}]
  <2>1. code \in [Bodies -> Code] /\ code[c] \in Code
    BY <1>1 DEF VarTypes
  <2>2. code' = [code EXCEPT ![c] = Counted(code[c], key, c, opened)]
    BY <1>5, <2>1 DEF Counted
  <2>3. code'[c] = Counted(code[c], key, c, opened) /\ \A b \in Bodies : b # c => code'[b] = code[b]
    BY <2>1, <2>2
  <2>4. /\ Counted(code[c], key, c, opened).calls = code[c].calls
        /\ Counted(code[c], key, c, opened).counters =
             [r \in Regions |-> IF Home[r] = key THEN code[c].counters[r] \cup {c} ELSE {}]
    BY <2>1 DEF Counted, Code
  <2>5. QED
    BY <2>3, <2>4
<1>7. Cloned' = Cloned /\ \A g : IsPending(g) /\ g # key => IsPending(g)'
  BY <1>1, <1>2, TailFacts DEF Cloned
<1>8. CalledClonesExist'
  <2>1. \A b \in Bodies : code'[b].calls = code[b].calls
    BY <1>6
  <2>2. QED
    BY <1>7, <2>1 DEF CloningInv, CalledClonesExist
<1>9. ClonesCountThemselves'
  <2> SUFFICES ASSUME NEW g \in Cloned, NEW q \in RegionsOf(g)
               PROVE  IsPending(g)' \/ CloneOf(g) \in code'[CloneOf(g)].counters[q]
    BY <1>7 DEF ClonesCountThemselves, RegionsOf
  <2>1. g \in Functions /\ CloneOf(g) \in Bodies /\ q \in Regions /\ Home[q] = g
    BY BodiesApart DEF Cloned, RegionsOf
  <2>2. CASE g = key
    BY <1>4, <1>6, <2>1, <2>2
  <2>3. CASE g # key
    <3>1. CloneOf(g) # c
      BY <1>4, <2>1, <2>3, BodiesApart
    <3>2. code'[CloneOf(g)] = code[CloneOf(g)]
      BY <1>6, <2>1, <3>1
    <3>3. QED
      BY <1>7, <2>3, <3>2 DEF CloningInv, ClonesCountThemselves
  <2>4. QED
    BY <2>2, <2>3
<1>10. CountersOfHome'
  <2> SUFFICES ASSUME NEW b \in Bodies, NEW q \in Regions
               PROVE  code'[b].counters[q] \subseteq {Original(Home[q]), CloneOf(Home[q])}
    BY DEF CountersOfHome
  <2>1. code[b].counters[q] \subseteq {Original(Home[q]), CloneOf(Home[q])}
    BY DEF CloningInv, CountersOfHome
  <2>2. CASE b = c /\ Home[q] = key
    BY <1>4, <1>6, <2>1, <2>2
  <2>3. CASE b = c /\ Home[q] # key
    BY <1>6, <2>3
  <2>4. CASE b # c
    BY <1>6, <2>1, <2>4
  <2>5. QED
    BY <2>2, <2>3, <2>4
<1>11. QED
  BY <1>8, <1>9, <1>10

LEMMA CodeKept ==
  ASSUME CloningInv, UNCHANGED <<code, owner, PendingFunctionClones>>
  PROVE  CalledClonesExist' /\ ClonesCountThemselves' /\ CountersOfHome'
<1>1. Cloned' = Cloned /\ \A g : IsPending(g)' <=> IsPending(g)
  BY DEF Cloned, IsPending
<1>2. CalledClonesExist' /\ CountersOfHome'
  BY <1>1 DEF CloningInv, CalledClonesExist, CountersOfHome
<1>3. ClonesCountThemselves'
  BY <1>1 DEF CloningInv, ClonesCountThemselves, RegionsOf
<1>4. QED
  BY <1>2, <1>3

LEMMA PassKeeps == CloningInv /\ [Next]_vars => CloningInv'
<1> SUFFICES ASSUME CloningInv, [Next]_vars
             PROVE  CalledClonesExist' /\ ClonesCountThemselves' /\ CountersOfHome'
  BY NextStep DEF CloningInv
<1>1. VarTypes /\ PendingOnce
  BY DEF CloningInv, IInv
<1>2. ASSUME NEW f \in Functions, NEW form \in Forms, CloneRegionCall(f, form)
      PROVE  CalledClonesExist' /\ ClonesCountThemselves' /\ CountersOfHome'
  <2>1. /\ region \in Regions /\ region \in Parts
        /\ Original(Home[region]) \in Bodies /\ Original(Home[region]) # CloneOf(f)
    BY <1>1, HomeIsFunction, BodiesApart DEF VarTypes
  <2>2. processCallInst(Original(Home[region]), region, f, form, region)
    BY <1>2 DEF CloneRegionCall
  <2>3. QED
    BY <2>1, <2>2, CallKeeps
<1>3. ASSUME NEW p \in Parts, NEW f \in Functions, NEW form \in Forms, CloneNestedCall(p, f, form)
      PROVE  CalledClonesExist' /\ ClonesCountThemselves' /\ CountersOfHome'
  <2>1. PICK key \in Cloned : /\ key = Head(PendingFunctionClones)
                              /\ key \in Functions
                              /\ owner[key] \in Regions
                              /\ CloneOf(key) \in Bodies
    BY <1>1, <1>3, HeadFacts, BodiesApart DEF CloneNestedCall
  <2>2. processCallInst(CloneOf(key), p, f, form, owner[key])
    BY <1>3, <2>1 DEF CloneNestedCall
  <2>3. f \notin Cloned => CloneOf(key) # CloneOf(f)
    BY <2>1, BodiesApart
  <2>4. QED
    BY <2>1, <2>2, <2>3, CallKeeps
<1>4. CASE UNCHANGED vars
  BY <1>4, CodeKept DEF vars
<1>5. CASE NextRegion \/ SizeArrays
  BY <1>5, CodeKept DEF NextRegion, SizeArrays
<1>6. QED
  BY <1>2, <1>3, <1>4, <1>5, RegionCounted, CloneCounted DEF Next, Finished

LEMMA InitCloning == Init => CloningInv
<1> SUFFICES ASSUME Init PROVE CalledClonesExist /\ ClonesCountThemselves /\ CountersOfHome
  BY InitIInv DEF CloningInv
<1>1. PICK calls \in SUBSET Calls :
        code = [b \in Bodies |-> IF b[2] = "original" THEN Parsed(b[1], calls) ELSE NoCode]
  <2>1. PICK n \in 0 .. MaxCalls : \E cs \in kSubset(n, Calls) :
          code = [b \in Bodies |-> IF b[2] = "original" THEN Parsed(b[1], cs) ELSE NoCode]
    BY DEF Init
  <2>2. kSubset(n, Calls) \subseteq SUBSET Calls
    BY DEF kSubset
  <2>3. QED
    BY <2>1, <2>2
<1>2. ASSUME NEW b \in Bodies
      PROVE  code[b] = NoCode \/ \E f \in Functions : code[b] = Parsed(f, calls)
  BY <1>1 DEF Bodies
<1>3. \A b \in Bodies, p \in Parts : code[b].calls[p] \subseteq {<<Original(c[2]), c[3]>> : c \in Calls}
  BY <1>2, ParsedFacts DEF NoCode
<1>4. ASSUME NEW b \in Bodies, NEW r \in Regions PROVE code[b].counters[r] = {}
  <2>1. NoCode.counters = [q \in Regions |-> {}]
    BY DEF NoCode
  <2>2. \A f \in Functions : Parsed(f, calls).counters = [q \in Regions |-> {}]
    BY DEF Parsed
  <2>3. code[b].counters = [q \in Regions |-> {}]
    BY <1>2, <2>1, <2>2
  <2>4. QED
    BY <2>3
<1>5. CalledClonesExist
  BY <1>3, CallFacts, BodiesApart DEF CalledClonesExist
<1>6. ClonesCountThemselves
  BY DEF Init, ClonesCountThemselves, Cloned
<1>7. CountersOfHome
  BY <1>4 DEF CountersOfHome
<1>8. QED
  BY <1>5, <1>6, <1>7

-----------------------------------------------------------------------------
(* Folds over a finite set, the elements taken in whatever order CHOOSE    *)
(* has them, the last one innermost.                                       *)

LEMMA Climb ==
  ASSUME NEW n \in Nat, NEW P, 0 \in P, \A k \in 1 .. n : k - 1 \in P => k \in P
  PROVE  n \in P
<1> DEFINE Missed == (0 .. n) \ P
<1>1. SUFFICES ASSUME Missed # {} PROVE FALSE
  OBVIOUS
<1>2. Missed \subseteq Nat
  OBVIOUS
<1> HIDE DEF Missed
<1>3. PICK k \in Missed : \A x \in Missed : <<x, k>> \notin OpToRel(<, Nat)
  BY <1>1, <1>2, NatLessThanWellFounded, WFMin
<1>4. k \in 1 .. n /\ k - 1 \in 0 .. n /\ k \notin P
  BY DEF Missed
<1>5. <<k - 1, k>> \in OpToRel(<, Nat)
  BY <1>4 DEF OpToRel
<1>6. k - 1 \in P
  BY <1>3, <1>4, <1>5 DEF Missed
<1>7. QED
  BY <1>4, <1>6

First(d) == CHOOSE x \in d : TRUE

LEMMA FirstIsIn ==
  ASSUME NEW d, d # {}
  PROVE  First(d) \in d
BY DEF First

\* step[x][v] is what element x makes of v.
IsFold(f, D, base, step) ==
  \A d \in D : f[d] = IF d = {} THEN base ELSE step[First(d)][f[d \ {First(d)}]]

\* The subsets of S with at most k elements.
UpTo(S, k) == {d \in SUBSET S : Cardinality(d) <= k}

LEMMA UpToFacts ==
  ASSUME NEW S, IsFiniteSet(S)
  PROVE  /\ UpTo(S, 0) = {{}}
         /\ UpTo(S, Cardinality(S)) = SUBSET S
         /\ \A k \in Nat \ {0} : \A d \in UpTo(S, k) :
              d # {} => First(d) \in S /\ d \ {First(d)} \in UpTo(S, k - 1)
         /\ \A k \in Nat \ {0} : UpTo(S, k - 1) \subseteq UpTo(S, k)
<1>1. Cardinality({}) = 0 /\ Cardinality(S) \in Nat
  BY FS_EmptySet, FS_CardinalityType
<1>2. \A d \in SUBSET S : /\ IsFiniteSet(d) /\ Cardinality(d) \in Nat
                          /\ Cardinality(d) <= Cardinality(S)
  BY FS_Subset, FS_CardinalityType
<1>3. UpTo(S, 0) = {{}}
  <2>1. \A d \in SUBSET S : Cardinality(d) <= 0 => d = {}
    BY <1>2, FS_EmptySet
  <2>2. QED
    BY <1>1, <2>1 DEF UpTo
<1>4. UpTo(S, Cardinality(S)) = SUBSET S
  BY <1>2 DEF UpTo
<1>5. ASSUME NEW k \in Nat \ {0}, NEW d \in UpTo(S, k), d # {}
      PROVE  First(d) \in S /\ d \ {First(d)} \in UpTo(S, k - 1)
  <2>1. d \in SUBSET S /\ Cardinality(d) <= k
    BY DEF UpTo
  <2>2. First(d) \in d
    BY <1>5, FirstIsIn
  <2>3. Cardinality(d \ {First(d)}) = Cardinality(d) - 1
    BY <1>2, <2>1, <2>2, FS_RemoveElement
  <2>4. QED
    BY <1>2, <2>1, <2>2, <2>3 DEF UpTo
<1>6. \A k \in Nat \ {0} : UpTo(S, k - 1) \subseteq UpTo(S, k)
  BY <1>2 DEF UpTo
<1>7. QED
  BY <1>3, <1>4, <1>5, <1>6

LEMMA FoldExists ==
  ASSUME NEW S, IsFiniteSet(S), NEW V, NEW base \in V, NEW step \in [S -> [V -> V]]
  PROVE  \E f \in [SUBSET S -> V] : IsFold(f, SUBSET S, base, step)
<1> DEFINE P == {k \in Nat : \E f \in [UpTo(S, k) -> V] : IsFold(f, UpTo(S, k), base, step)}
<1>1. PICK n \in Nat : n = Cardinality(S)
  BY FS_CardinalityType
<1>2. 0 \in P
  <2>1. [d \in UpTo(S, 0) |-> base] \in [UpTo(S, 0) -> V]
    OBVIOUS
  <2>2. IsFold([d \in UpTo(S, 0) |-> base], UpTo(S, 0), base, step)
    BY UpToFacts DEF IsFold
  <2>3. QED
    BY <2>1, <2>2
<1>3. ASSUME NEW k \in 1 .. n, k - 1 \in P
      PROVE  k \in P
  <2>1. PICK f \in [UpTo(S, k - 1) -> V] : IsFold(f, UpTo(S, k - 1), base, step)
    BY <1>3
  <2> DEFINE g == [d \in UpTo(S, k) |-> IF d = {} THEN base ELSE step[First(d)][f[d \ {First(d)}]]]
  <2>2. k \in Nat \ {0}
    OBVIOUS
  <2>3. \A d \in UpTo(S, k) : d # {} => First(d) \in S /\ d \ {First(d)} \in UpTo(S, k - 1)
    BY <2>2, UpToFacts
  <2>4. g \in [UpTo(S, k) -> V]
    <3> SUFFICES ASSUME NEW d \in UpTo(S, k) PROVE g[d] \in V
      OBVIOUS
    <3>1. CASE d = {}
      BY <3>1
    <3>2. CASE d # {}
      <4>1. First(d) \in S /\ f[d \ {First(d)}] \in V
        BY <2>1, <2>3, <3>2
      <4>2. step[First(d)] \in [V -> V]
        BY <4>1
      <4>3. QED
        BY <3>2, <4>1, <4>2
    <3>3. QED
      BY <3>1, <3>2
  <2>5. \A d \in UpTo(S, k - 1) : g[d] = f[d]
    <3>1. UpTo(S, k - 1) \subseteq UpTo(S, k)
      BY <2>2, UpToFacts
    <3>2. QED
      BY <2>1, <3>1 DEF IsFold
  <2>6. IsFold(g, UpTo(S, k), base, step)
    BY <2>3, <2>5 DEF IsFold
  <2>7. QED
    BY <2>2, <2>4, <2>6
<1> HIDE DEF P
<1>4. n \in P
  BY <1>2, <1>3, Climb
<1>5. QED
  BY <1>1, <1>4, UpToFacts DEF P

\* f is a fold as far as its values are in V.
Folds(f, S, V, base, step) ==
  /\ f[{}] = base
  /\ \A d \in SUBSET S :
       d # {} /\ f[d \ {First(d)}] \in V => f[d] = step[First(d)][f[d \ {First(d)}]]

\* I holds of the start and is kept by each element.
Keeps(I, S, V, base, step) ==
  /\ <<{}, base>> \in I
  /\ \A d \in SUBSET S : \A u \in V :
       d # {} /\ <<d \ {First(d)}, u>> \in I => <<d, step[First(d)][u]>> \in I

LEMMA FoldInduction ==
  ASSUME NEW S, IsFiniteSet(S), NEW V, NEW base \in V, NEW step \in [S -> [V -> V]],
         NEW f, Folds(f, S, V, base, step),
         NEW I, Keeps(I, S, V, base, step)
  PROVE  f[S] \in V /\ <<S, f[S]>> \in I
<1> DEFINE P == {k \in Nat : \A d \in UpTo(S, k) : f[d] \in V /\ <<d, f[d]>> \in I}
<1>1. PICK n \in Nat : n = Cardinality(S)
  BY FS_CardinalityType
<1>2. 0 \in P
  <2>1. f[{}] = base
    BY DEF Folds
  <2>2. QED
    BY <2>1, UpToFacts DEF Keeps
<1>3. ASSUME NEW k \in 1 .. n, k - 1 \in P
      PROVE  k \in P
  <2>1. k \in Nat \ {0}
    OBVIOUS
  <2>2. ASSUME NEW d \in UpTo(S, k) PROVE f[d] \in V /\ <<d, f[d]>> \in I
    <3>1. d \in SUBSET S
      BY DEF UpTo
    <3>2. CASE d = {}
      BY <3>2 DEF Folds, Keeps
    <3>3. CASE d # {}
      <4>1. PICK e \in UpTo(S, k - 1) : e = d \ {First(d)}
        BY <2>1, <3>3, UpToFacts
      <4>2. f[e] \in V /\ <<e, f[e]>> \in I
        BY <1>3
      <4>3. f[d] = step[First(d)][f[e]]
        BY <3>1, <3>3, <4>1, <4>2 DEF Folds
      <4>4. <<d, f[d]>> \in I
        BY <3>1, <3>3, <4>1, <4>2, <4>3 DEF Keeps
      <4>5. step[First(d)] \in [V -> V]
        BY <3>1, <3>3, FirstIsIn
      <4>6. QED
        BY <4>2, <4>3, <4>4, <4>5
    <3>4. QED
      BY <3>2, <3>3
  <2>3. QED
    BY <2>1, <2>2
<1> HIDE DEF P
<1>4. n \in P
  BY <1>2, <1>3, Climb
<1>5. QED
  BY <1>1, <1>4, UpToFacts DEF P

-----------------------------------------------------------------------------
(* What runs once the pass is over: originals, and the clones that were    *)
(* made, with some regions open.                                           *)

Runnable ==
  {w \in (Seq(Regions) \ {<<>>}) \X Bodies \X Parts :
     \E g \in Functions : /\ w[2] = Original(g) \/ (g \in Cloned /\ w[2] = CloneOf(g))
                          /\ w[3] \in Regions => Home[w[3]] = g}

LEMMA RowInForce ==
  ASSUME NEW open \in Seq(Regions) \ {<<>>}
  PROVE  Last(open) \in Regions
BY DEF Last

LEMMA OpeningFacts ==
  ASSUME NEW open \in Seq(Regions) \ {<<>>}, NEW r \in Regions
  PROVE  Opening(open, r) \in Seq(Regions) \ {<<>>}
<1>1. Append(open, r) \in Seq(Regions) /\ Len(Append(open, r)) = Len(open) + 1 /\ Len(open) \in Nat
  OBVIOUS
<1>2. Append(open, r) # <<>>
  BY <1>1
<1>3. QED
  BY <1>1, <1>2 DEF Opening

LEMMA OpenInFacts ==
  ASSUME VarTypes, NEW open \in Seq(Regions) \ {<<>>}, NEW c \in Bodies, NEW p \in Parts,
         c[2] = "clone" => c[1] \in Cloned
  PROVE  OpenIn(open, c, p) \in Seq(Regions) \ {<<>>}
<1>1. PICK called : called = IF c[2] = "clone" /\ c[1] \in Outlined THEN Opening(open, owner[c[1]]) ELSE open
  OBVIOUS
<1>2. called \in Seq(Regions) \ {<<>>}
  <2>1. c[1] \in Cloned => owner[c[1]] \in Regions
    BY DEF VarTypes, Cloned
  <2>2. QED
    BY <1>1, <2>1, OpeningFacts
<1>3. p \in code[c].starts => p \in Regions
  BY DEF VarTypes, Code
<1>4. QED
  BY <1>1, <1>2, <1>3, OpeningFacts DEF OpenIn

(* A call names an original or a clone that was made.                      *)
LEMMA CalleesRunnable ==
  ASSUME CloningInv, NEW w \in Runnable
  PROVE  Callees(w) \subseteq Runnable
<1> SUFFICES ASSUME NEW v \in Callees(w) PROVE v \in Runnable
  OBVIOUS
<1>1. /\ VarTypes /\ w[1] \in Seq(Regions) \ {<<>>} /\ w[2] \in Bodies /\ w[3] \in Parts
  BY DEF Runnable, CloningInv, IInv
<1>2. PICK call \in code[w[2]].calls[w[3]], p \in Parts :
        v = <<OpenIn(w[1], call[1], p), call[1], p>> /\ <<call[1][1], p>> \in Sites
  BY DEF Callees
<1>3. call \in Bodies \X Forms
  BY <1>1, CodeFields
<1>4. PICK g \in Functions, form \in Forms : call = <<Original(g), form>> \/ call = <<CloneOf(g), form>>
  BY <1>3 DEF Bodies, Original, CloneOf
<1>5. call[1] = Original(g) \/ (g \in Cloned /\ call[1] = CloneOf(g))
  BY <1>1, <1>2, <1>4 DEF CloningInv, CalledClonesExist
<1>6. call[1] \in Bodies /\ call[1][1] = g /\ (call[1][2] = "clone" => g \in Cloned)
  BY <1>3, <1>5 DEF Original, CloneOf
<1>7. p \in Regions => Home[p] = g
  BY <1>2, <1>6 DEF Sites
<1>8. OpenIn(w[1], call[1], p) \in Seq(Regions) \ {<<>>}
  BY <1>1, <1>6, OpenInFacts
<1>9. QED
  BY <1>2, <1>5, <1>6, <1>7, <1>8 DEF Runnable

(* One more level of calls.                                                *)
Found == [all : SUBSET Runnable, last : SUBSET Runnable]

Called(found) ==
  LET new == UNION {Callees(w) : w \in found.last} \ found.all
  IN  [all |-> found.all \cup new, last |-> new]

RegionsFound ==
  LET regions == {<<<<r>>, Original(Home[r]), r>> : r \in Regions}
  IN  [all |-> regions, last |-> regions]

LEMMA CalledFound ==
  ASSUME CloningInv, NEW found \in Found
  PROVE  Called(found) \in Found
<1>1. PICK new : new = UNION {Callees(w) : w \in found.last} \ found.all
  OBVIOUS
<1>2. new \subseteq Runnable
  BY <1>1, CalleesRunnable DEF Found
<1>3. Called(found) = [all |-> found.all \cup new, last |-> new]
  BY <1>1 DEF Called
<1>4. QED
  BY <1>2, <1>3 DEF Found

LEMMA RegionsRun == RegionsFound \in Found
<1>1. ASSUME NEW r \in Regions PROVE <<<<r>>, Original(Home[r]), r>> \in Runnable
  <2>1. Home[r] \in Functions /\ r \in Parts /\ Original(Home[r]) \in Bodies
    BY HomeIsFunction, BodiesApart
  <2>2. <<r>> \in Seq(Regions) \ {<<>>}
    OBVIOUS
  <2>3. QED
    BY <2>1, <2>2 DEF Runnable
<1>2. QED
  BY <1>1 DEF RegionsFound, Found

LEMMA RunningRunnable ==
  ASSUME CloningInv
  PROVE  Running \subseteq Runnable
<1> DEFINE n == (2 * Cardinality(Functions) + 1) * ROI_Count
           fun == [i \in 1 .. n |-> i]
           V == Found
           step == [i \in 1 .. n |-> [v \in V |-> Called(v)]]
           It == CHOOSE iter : iter = [d \in SUBSET DOMAIN fun |->
                   IF d = {} THEN RegionsFound
                   ELSE Called(iter[d \ {CHOOSE x \in d : TRUE}])]
<1>1. Running = It[DOMAIN fun].all
  BY DEF Running, FoldFunction, FoldFunctionOnSet, MapThenFoldSet, Called, RegionsFound
<1>2. n \in Nat
  <2>1. Cardinality(Functions) \in Nat
    BY ReportsAssumption, FS_CardinalityType
  <2>2. ROI_Count \in Nat
    BY CloningAssumption
  <2>3. QED
    BY <2>1, <2>2
<1>3. DOMAIN fun = 1 .. n /\ IsFiniteSet(1 .. n)
  BY <1>2, FS_Interval
<1>4. RegionsFound \in V
  BY RegionsRun
<1>5. step \in [1 .. n -> [V -> V]]
  BY CalledFound
<1>6. \A i \in 1 .. n : \A v \in V : step[i][v] = Called(v)
  OBVIOUS
<1> HIDE DEF n, fun, V, step
<1>7. PICK f \in [SUBSET (1 .. n) -> V] : IsFold(f, SUBSET (1 .. n), RegionsFound, step)
  BY <1>3, <1>4, <1>5, FoldExists
<1>8. ASSUME NEW d \in SUBSET (1 .. n)
      PROVE  f[d] = IF d = {} THEN RegionsFound ELSE Called(f[d \ {CHOOSE x \in d : TRUE}])
  <2>1. CASE d = {}
    BY <1>7, <2>1 DEF IsFold
  <2>2. CASE d # {}
    <3>1. PICK x \in 1 .. n : x = First(d)
      BY <2>2, FirstIsIn
    <3>2. d \ {x} \in SUBSET (1 .. n)
      OBVIOUS
    <3>3. f[d] = step[x][f[d \ {x}]] /\ f[d \ {x}] \in V
      BY <1>7, <2>2, <3>1, <3>2 DEF IsFold
    <3>4. f[d] = Called(f[d \ {x}])
      BY <1>6, <3>3
    <3>5. QED
      BY <2>2, <3>1, <3>4 DEF First
  <2>3. QED
    BY <2>1, <2>2
<1>9. f = [d \in SUBSET DOMAIN fun |->
             IF d = {} THEN RegionsFound ELSE Called(f[d \ {CHOOSE x \in d : TRUE}])]
  BY <1>3, <1>8
<1>10. It = [d \in SUBSET DOMAIN fun |->
               IF d = {} THEN RegionsFound ELSE Called(It[d \ {CHOOSE x \in d : TRUE}])]
  BY <1>9
<1> HIDE DEF It
<1>11. Folds(It, 1 .. n, V, RegionsFound, step)
  <2>1. It[{}] = RegionsFound
    BY <1>3, <1>10
  <2>2. ASSUME NEW d \in SUBSET (1 .. n), d # {}, It[d \ {First(d)}] \in V
        PROVE  It[d] = step[First(d)][It[d \ {First(d)}]]
    <3>1. PICK x \in 1 .. n : x = First(d)
      BY <2>2, FirstIsIn
    <3>2. It[d] = Called(It[d \ {x}])
      BY <1>3, <1>10, <2>2, <3>1 DEF First
    <3>3. QED
      BY <1>6, <2>2, <3>1, <3>2
  <2>3. QED
    BY <2>1, <2>2 DEF Folds
<1>12. PICK I : I = (SUBSET (1 .. n)) \X V
  OBVIOUS
<1>13. \A d \in SUBSET (1 .. n) : \A u \in V :
         d # {} /\ <<d \ {First(d)}, u>> \in I => <<d, step[First(d)][u]>> \in I
  <2> SUFFICES ASSUME NEW d \in SUBSET (1 .. n), NEW u \in V, d # {}
               PROVE  <<d, step[First(d)][u]>> \in I
    OBVIOUS
  <2>1. First(d) \in 1 .. n
    BY FirstIsIn
  <2>2. step[First(d)][u] \in V
    BY <1>5, <2>1
  <2>3. QED
    BY <1>12, <2>2
<1>14. Keeps(I, 1 .. n, V, RegionsFound, step)
  BY <1>4, <1>12, <1>13 DEF Keeps
<1>15. It[1 .. n] \in V
  BY <1>3, <1>4, <1>5, <1>11, <1>14, FoldInduction
<1>16. QED
  BY <1>1, <1>3, <1>15 DEF V, Found

-----------------------------------------------------------------------------
(* What can be counted, and in which row.                                  *)

LEMMA TwoAreMany ==
  ASSUME NEW S, NEW a, NEW b, a # b, S = {a, b}
  PROVE  Cardinality(S) = 2
<1>1. IsFiniteSet({}) /\ Cardinality({}) = 0
  BY FS_EmptySet
<1>2. IsFiniteSet({} \cup {a}) /\ Cardinality({} \cup {a}) = 1
  BY <1>1, FS_AddElement
<1>3. Cardinality(({} \cup {a}) \cup {b}) = 2
  BY <1>2, FS_AddElement
<1>4. S = ({} \cup {a}) \cup {b}
  OBVIOUS
<1>5. QED
  BY <1>3, <1>4

(* A clone's blocks, instrumented once, hold no counters of the region     *)
(* they were copied from.                                                  *)
LEMMA OnlyTheCloneCounts ==
  ASSUME CloningInv, stage = "done", ClonedBodyInstrumentedOnce,
         NEW g \in Cloned, NEW r \in RegionsOf(g)
  PROVE  Original(g) \notin code[CloneOf(g)].counters[r]
<1>1. g \in Functions /\ r \in Regions /\ Home[r] = g /\ CloneOf(g) \in Bodies
      /\ CloneOf(g) # Original(g)
  BY BodiesApart DEF Cloned, RegionsOf
<1>2. CloneOf(g) \in code[CloneOf(g)].counters[r]
  BY DEF CloningInv, ClonesCountThemselves, IInv, ClonesGetDone, IsPending
<1>3. code[CloneOf(g)].counters[r] \subseteq {Original(g), CloneOf(g)}
  BY <1>1 DEF CloningInv, CountersOfHome
<1>4. Cardinality(code[CloneOf(g)].counters[r]) <= 1
  BY <1>1 DEF ClonedBodyInstrumentedOnce
<1>5. SUFFICES ASSUME Original(g) \in code[CloneOf(g)].counters[r] PROVE FALSE
  OBVIOUS
<1>6. code[CloneOf(g)].counters[r] = {Original(g), CloneOf(g)}
  BY <1>2, <1>3, <1>5
<1>7. Cardinality(code[CloneOf(g)].counters[r]) = 2
  <2>1. PICK S, a, b : S = {a, b} /\ a # b /\ S = code[CloneOf(g)].counters[r]
    BY <1>1, <1>6
  <2>2. Cardinality(S) = 2
    BY <2>1, TwoAreMany
  <2>3. QED
    BY <2>1, <2>2
<1>8. QED
  BY <1>4, <1>7

LEMMA CodesFacts ==
  ASSUME VarTypes
  PROVE  \A c \in Codes : /\ c = <<c[1], c[2]>>
                          /\ c[1] \in Regions \cup Functions
                          /\ c[2] \in slots[c[1]] /\ c[2] \in Nat
<1>1. slots \in [Regions \cup Functions -> SUBSET Nat]
  BY DEF VarTypes
<1>2. QED
  BY <1>1 DEF Codes

LEMMA IncrementsCanCount ==
  ASSUME CloningInv, stage = "done", ClonedBodyInstrumentedOnce,
         NEW w \in Runnable, NEW i \in Increments(w),
         w[2][2] = "original" /\ w[3] \in Regions => Last(w[1]) = w[3]
  PROVE  CanCount(i)
<1>1. PICK c \in Codes : /\ i = [row |-> Last(w[1]), code |-> c]
                         /\ \/ w[2] = CloneOf(c[1])
                            \/ /\ c[1] = w[3]
                               /\ Original(Home[w[3]]) \in code[w[2]].counters[w[3]]
  BY DEF Increments
<1>2. c[1] \in Regions \cup Functions
  BY CodesFacts DEF CloningInv, IInv
<1>3. Last(w[1]) \in Regions /\ w[2] \in Bodies
  BY RowInForce DEF Runnable
<1>4. PICK g \in Functions : /\ w[2] = Original(g) \/ (g \in Cloned /\ w[2] = CloneOf(g))
                             /\ w[3] \in Regions => Home[w[3]] = g
  BY DEF Runnable
<1>5. c[1] = Last(w[1]) \/ c[1] \in Functions
  <2>1. CASE w[2] = CloneOf(c[1])
    BY <1>3, <2>1 DEF CloneOf, Bodies
  <2>2. CASE c[1] = w[3] /\ w[3] \in Regions /\ w[2] = Original(g)
    BY <2>2 DEF Original
  <2>3. CASE c[1] = w[3] /\ w[3] \in Regions /\ g \in Cloned /\ w[2] = CloneOf(g)
            /\ Original(Home[w[3]]) \in code[w[2]].counters[w[3]]
    <3>1. w[3] \in RegionsOf(g) /\ Home[w[3]] = g
      BY <1>4, <2>3 DEF RegionsOf
    <3>2. QED
      BY <2>3, <3>1, OnlyTheCloneCounts
  <2>4. QED
    BY <1>1, <1>2, <1>4, <2>1, <2>2, <2>3
<1>6. QED
  BY <1>1, <1>3, <1>5 DEF CanCount, CountsIn

(* The counters of a row are apart, and those of different rows are.       *)
LEMMA IndexFacts ==
  ASSUME CloningInv, stage = "done", NEW r \in Regions, NEW c \in CountsIn(r)
  PROVE  /\ Index(r, c[2]) \in 0 .. ROI_Count * CountArraySize - 1
         /\ \A q \in Regions : \A d \in CountsIn(q) :
              Index(r, c[2]) = Index(q, d[2]) => r = q /\ c = d
<1>1. CountArraySize \in Nat /\ CountArraySize = RegionCounterEventMax /\ ROI_Count \in Nat
  BY CloningAssumption DEF CloningInv, IInv, VarTypes, WidthCoversSlots
<1>2. PICK W \in Nat : W = CountArraySize
  BY <1>1
<1>3. ASSUME NEW q \in Regions, NEW d \in CountsIn(q)
      PROVE  /\ d = <<d[1], d[2]>> /\ d[2] \in slots[d[1]] /\ d[2] \in Nat
             /\ d[1] = q \/ d[1] \in Functions
             /\ d[1] \in Regions \cup Functions
             /\ d[2] < W
  <2>1. /\ d = <<d[1], d[2]>> /\ d[2] \in slots[d[1]] /\ d[2] \in Nat
        /\ d[1] = q \/ d[1] \in Functions
        /\ d[1] \in Regions \cup Functions
    BY CodesFacts DEF CountsIn, CloningInv, IInv
  <2>2. d[2] < W
    BY <1>1, <1>2, <2>1 DEF CloningInv, IInv, WidthCoversSlots
  <2>3. QED
    BY <2>1, <2>2
<1>4. Index(r, c[2]) \in 0 .. ROI_Count * CountArraySize - 1
  <2>1. PICK s \in Nat : s = c[2] /\ s < W
    BY <1>3
  <2>2. r \in Nat /\ r + 1 <= ROI_Count
    BY <1>1 DEF Regions
  <2>3. W * (r + 1) <= W * ROI_Count
    BY <1>1, <2>2
  <2>4. W * (r + 1) = W * r + W /\ W * r \in Nat
    BY <2>2
  <2>5. s + W * r \in Nat /\ s + W * r <= ROI_Count * W - 1
    BY <1>1, <2>1, <2>2, <2>3, <2>4
  <2>6. QED
    BY <1>2, <2>1, <2>5 DEF Index
<1>5. ASSUME NEW q \in Regions, NEW d \in CountsIn(q), Index(r, c[2]) = Index(q, d[2])
      PROVE  r = q /\ c = d
  <2>1. PICK s \in Nat : s = c[2] /\ s < W
    BY <1>3
  <2>2. PICK t \in Nat : t = d[2] /\ t < W
    BY <1>3
  <2>3. s + W * r = t + W * q /\ r \in Nat /\ q \in Nat
    BY <1>2, <1>5, <2>1, <2>2 DEF Index, Regions
  <2>4. r = q /\ s = t
    <3>1. CASE r < q
      <4>1. W * (r + 1) <= W * q /\ W * (r + 1) = W * r + W
        BY <2>3, <3>1
      <4>2. QED
        BY <2>1, <2>2, <2>3, <4>1
    <3>2. CASE q < r
      <4>1. W * (q + 1) <= W * r /\ W * (q + 1) = W * q + W
        BY <2>3, <3>2
      <4>2. QED
        BY <2>1, <2>2, <2>3, <4>1
    <3>3. QED
      BY <2>3, <3>1, <3>2
  <2>5. c[1] = d[1]
    <3>1. c[2] \in slots[c[1]] /\ c[2] \in slots[d[1]]
      BY <1>3, <2>1, <2>2, <2>4
    <3>2. \A f \in Functions, x \in Regions \cup Functions : x # f => slots[f] \cap slots[x] = {}
      BY DEF CloningInv, IInv, ClonesCountApart
    <3>3. QED
      BY <1>3, <2>4, <3>1, <3>2
  <2>6. QED
    BY <1>3, <2>1, <2>2, <2>4, <2>5
<1>6. QED
  BY <1>4, <1>5

-----------------------------------------------------------------------------
(* The report adds the clones' counts to each region's own.                *)

Entries == [Regions -> [PragmaRegionID : Regions, counts : [Codes -> Nat]]]

\* The records of all clones, added to the entry of the region of entry r.
WithClones(entries, list, r) ==
  [list EXCEPT ![entries[r].PragmaRegionID].counts = WithIndirect(entries[r].PragmaRegionID, @)]

LEMMA OwnEntry ==
  ASSUME CloningInv, stage = "done", CountersMatchRuns, ActiveGroupNumber = 0,
         NEW r \in Regions
  PROVE  /\ read_pd_sets[r].PragmaRegionID = r
         /\ read_pd_sets[r].counts \in [Codes -> Nat]
         /\ WithIndirect(r, read_pd_sets[r].counts) = ran[r]
<1>1. PICK entry : entry = read_pd_sets[r]
  OBVIOUS
<1>2. entry = [PragmaRegionID |-> r,
               counts |-> [c \in Codes |-> IF c[1] = r THEN CounterArray[Index(r, c[2])] ELSE 0]]
  BY <1>1 DEF read_pd_sets, Active
<1>3. ran[r] \in [Codes -> Nat]
  BY DEF CountersMatchRuns
<1>4. ASSUME NEW c \in Codes
      PROVE  /\ entry.counts[c] \in Nat
             /\ WithIndirect(r, entry.counts)[c] = ran[r][c]
  <2>1. entry.counts[c] = IF c[1] = r THEN CounterArray[Index(r, c[2])] ELSE 0
    BY <1>2
  <2>2. WithIndirect(r, entry.counts)[c] =
          entry.counts[c] + IF c[1] \in Functions THEN CounterArray[Index(r, c[2])] ELSE 0
    BY DEF WithIndirect, InReportedRow
  <2>3. c[1] = r => c[1] \notin Functions
    BY CloningAssumption
  <2>4. ran[r][c] = IF c \in CountsIn(r) THEN CounterArray[Index(r, c[2])] ELSE 0
    BY DEF CountersMatchRuns
  <2>5. c \in CountsIn(r) <=> c[1] = r \/ c[1] \in Functions
    BY DEF CountsIn
  <2>6. ran[r][c] \in Nat
    BY <1>3
  <2>7. QED
    BY <2>1, <2>2, <2>3, <2>4, <2>5, <2>6
<1>5. entry.counts \in [Codes -> Nat]
  BY <1>2, <1>4
<1>6. WithIndirect(r, entry.counts) = ran[r]
  <2>1. WithIndirect(r, entry.counts) = [c \in Codes |-> WithIndirect(r, entry.counts)[c]]
    BY DEF WithIndirect
  <2>2. QED
    BY <1>3, <1>4, <2>1
<1>7. entry.PragmaRegionID = r
  BY <1>2
<1>8. QED
  BY <1>1, <1>5, <1>6, <1>7

LEMMA WithClonesFacts ==
  ASSUME CloningInv, stage = "done", CountersMatchRuns, ActiveGroupNumber = 0,
         NEW r \in Regions, NEW list \in Entries
  PROVE  LET new == WithClones(read_pd_sets, list, r)
         IN  /\ new \in Entries
             /\ new[r].counts = WithIndirect(r, list[r].counts)
             /\ \A q \in Regions : q # r => new[q] = list[q]
<1>1. read_pd_sets[r].PragmaRegionID = r
  BY OwnEntry
<1>2. PICK entry : entry = list[r] /\ entry \in [PragmaRegionID : Regions, counts : [Codes -> Nat]]
  BY DEF Entries
<1>3. WithIndirect(r, entry.counts) \in [Codes -> Nat]
  <2>1. ASSUME NEW c \in Codes, c[1] \in Functions PROVE InReportedRow(r, c) \in Nat
    <3>1. c \in CountsIn(r)
      BY <2>1 DEF CountsIn
    <3>2. Index(r, c[2]) \in 0 .. ROI_Count * CountArraySize - 1
      BY <3>1, IndexFacts
    <3>3. QED
      BY <3>2 DEF InReportedRow, CountersMatchRuns
  <2>2. \A c \in Codes : entry.counts[c] \in Nat
    BY <1>2
  <2>3. \A c \in Codes : entry.counts[c] + (IF c[1] \in Functions THEN InReportedRow(r, c) ELSE 0) \in Nat
    BY <2>1, <2>2
  <2>4. QED
    BY <2>3 DEF WithIndirect
<1>4. PICK new : new = WithClones(read_pd_sets, list, r)
  OBVIOUS
<1>5. new = [list EXCEPT ![r] = [entry EXCEPT !.counts = WithIndirect(r, entry.counts)]]
  BY <1>1, <1>2, <1>4 DEF WithClones, Entries
<1>6. [entry EXCEPT !.counts = WithIndirect(r, entry.counts)]
        \in [PragmaRegionID : Regions, counts : [Codes -> Nat]]
  BY <1>2, <1>3
<1>7. /\ new \in Entries /\ \A q \in Regions : q # r => new[q] = list[q]
      /\ new[r] = [entry EXCEPT !.counts = WithIndirect(r, entry.counts)]
  BY <1>5, <1>6 DEF Entries
<1>8. new[r].counts = WithIndirect(r, entry.counts)
  BY <1>2, <1>7
<1>9. QED
  BY <1>2, <1>4, <1>7, <1>8

LEMMA ReportFacts ==
  ASSUME CloningInv, stage = "done", CountersMatchRuns, ActiveGroupNumber = 0
  PROVE  \A r \in Regions : apply_indirect_counts(read_pd_sets)[r].counts = ran[r]
<1> DEFINE fun == [r \in Regions |-> r]
           entries == read_pd_sets
           V == Entries
           step == [r \in Regions |-> [list \in V |-> WithClones(entries, list, r)]]
           It == CHOOSE iter : iter = [d \in SUBSET DOMAIN fun |->
                   IF d = {} THEN entries
                   ELSE WithClones(entries, iter[d \ {CHOOSE x \in d : TRUE}],
                                   fun[CHOOSE x \in d : TRUE])]
<1>1. apply_indirect_counts(entries) = It[DOMAIN fun]
  BY DEF apply_indirect_counts, FoldFunction, FoldFunctionOnSet, MapThenFoldSet, WithClones
<1>2. DOMAIN fun = Regions /\ IsFiniteSet(Regions) /\ \A r \in Regions : fun[r] = r
  BY CloningAssumption, FS_Interval DEF Regions
<1>3. entries \in V
  BY OwnEntry DEF Entries, read_pd_sets
<1>4. step \in [Regions -> [V -> V]]
  BY WithClonesFacts
<1>5. \A r \in Regions : \A list \in V : step[r][list] = WithClones(entries, list, r)
  OBVIOUS
<1>6. \A r \in Regions : \A list \in V :
        /\ WithClones(entries, list, r)[r].counts = WithIndirect(r, list[r].counts)
        /\ \A q \in Regions : q # r => WithClones(entries, list, r)[q] = list[q]
  BY WithClonesFacts
<1>7. \A r \in Regions : WithIndirect(r, entries[r].counts) = ran[r]
  BY OwnEntry
<1> HIDE DEF fun, entries, V, step
<1>8. PICK f \in [SUBSET Regions -> V] : IsFold(f, SUBSET Regions, entries, step)
  BY <1>2, <1>3, <1>4, FoldExists
<1>9. ASSUME NEW d \in SUBSET Regions
      PROVE  f[d] = IF d = {} THEN entries
                    ELSE WithClones(entries, f[d \ {CHOOSE x \in d : TRUE}],
                                    fun[CHOOSE x \in d : TRUE])
  <2>1. CASE d = {}
    BY <1>8, <2>1 DEF IsFold
  <2>2. CASE d # {}
    <3>1. PICK x \in Regions : x = First(d)
      BY <2>2, FirstIsIn
    <3>2. d \ {x} \in SUBSET Regions
      OBVIOUS
    <3>3. f[d] = step[x][f[d \ {x}]] /\ f[d \ {x}] \in V
      BY <1>8, <2>2, <3>1, <3>2 DEF IsFold
    <3>4. f[d] = WithClones(entries, f[d \ {x}], fun[x])
      BY <1>2, <1>5, <3>3
    <3>5. QED
      BY <2>2, <3>1, <3>4 DEF First
  <2>3. QED
    BY <2>1, <2>2
<1>10. f = [d \in SUBSET DOMAIN fun |->
              IF d = {} THEN entries
              ELSE WithClones(entries, f[d \ {CHOOSE x \in d : TRUE}], fun[CHOOSE x \in d : TRUE])]
  BY <1>2, <1>9
<1>11. It = [d \in SUBSET DOMAIN fun |->
               IF d = {} THEN entries
               ELSE WithClones(entries, It[d \ {CHOOSE x \in d : TRUE}], fun[CHOOSE x \in d : TRUE])]
  BY <1>10
<1> HIDE DEF It
<1>12. Folds(It, Regions, V, entries, step)
  <2>1. It[{}] = entries
    BY <1>2, <1>11
  <2>2. ASSUME NEW d \in SUBSET Regions, d # {}, It[d \ {First(d)}] \in V
        PROVE  It[d] = step[First(d)][It[d \ {First(d)}]]
    <3>1. PICK x \in Regions : x = First(d)
      BY <2>2, FirstIsIn
    <3>2. It[d] = WithClones(entries, It[d \ {x}], fun[x])
      BY <1>2, <1>11, <2>2, <3>1 DEF First
    <3>3. QED
      BY <1>2, <1>5, <2>2, <3>1, <3>2
  <2>3. QED
    BY <2>1, <2>2 DEF Folds
<1> DEFINE Done(d, list) == \A r \in Regions :
                              list[r].counts = IF r \in d THEN ran[r] ELSE entries[r].counts
<1>13. PICK I : I = {z \in (SUBSET Regions) \X V : Done(z[1], z[2])}
  OBVIOUS
<1>14. \A d \in SUBSET Regions : \A list \in V : <<d, list>> \in I <=> Done(d, list)
  BY <1>13
<1>15. Keeps(I, Regions, V, entries, step)
  <2>1. <<{}, entries>> \in I
    BY <1>3, <1>14
  <2>2. ASSUME NEW d \in SUBSET Regions, NEW u \in V, d # {}, <<d \ {First(d)}, u>> \in I
        PROVE  <<d, step[First(d)][u]>> \in I
    <3>1. PICK x \in Regions : x = First(d) /\ x \in d
      BY <2>2, FirstIsIn
    <3>2. Done(d \ {x}, u)
      BY <1>14, <2>2, <3>1
    <3>3. PICK v \in V : v = step[x][u]
      BY <1>4
    <3>4. v[x].counts = WithIndirect(x, u[x].counts) /\ \A q \in Regions : q # x => v[q] = u[q]
      BY <1>5, <1>6, <3>3
    <3>5. v[x].counts = ran[x]
      BY <1>7, <3>2, <3>4
    <3>6. Done(d, v)
      BY <3>1, <3>2, <3>4, <3>5
    <3>7. QED
      BY <1>14, <3>1, <3>3, <3>6
  <2>3. QED
    BY <2>1, <2>2 DEF Keeps
<1>16. It[Regions] \in V /\ <<Regions, It[Regions]>> \in I
  BY <1>2, <1>3, <1>4, <1>12, <1>15, FoldInduction
<1>17. Done(Regions, It[Regions])
  BY <1>14, <1>16
<1>18. QED
  BY <1>1, <1>2, <1>17 DEF entries

-----------------------------------------------------------------------------
(* A run and its report keep ReportsInv.                                   *)

LEMMA SameCode ==
  ASSUME UNCHANGED vars
  PROVE  /\ CloningInv => CloningInv'
         /\ Codes' = Codes
         /\ ClonedBodyInstrumentedOnce' <=> ClonedBodyInstrumentedOnce
         /\ \A r : CountsIn(r)' = CountsIn(r)
         /\ \A i : CanCount(i)' <=> CanCount(i)
         /\ \A w : Increments(w)' = Increments(w)
         /\ \A r, s : Index(r, s)' = Index(r, s)
<1>1. slots' = slots /\ code' = code /\ CountArraySize' = CountArraySize
  BY DEF vars
<1>2. CloningInv => CloningInv'
  BY PassKeeps
<1>3. Codes' = Codes
  BY <1>1 DEF Codes
<1>4. \A r : CountsIn(r)' = CountsIn(r)
  BY <1>3 DEF CountsIn
<1>5. \A i : CanCount(i)' <=> CanCount(i)
  BY <1>4 DEF CanCount
<1>6. ClonedBodyInstrumentedOnce' <=> ClonedBodyInstrumentedOnce
  BY <1>1 DEF ClonedBodyInstrumentedOnce
<1>7. \A r, s : Index(r, s)' = Index(r, s)
  BY <1>1 DEF Index
<1>8. \A w : Increments(w)' = Increments(w)
  BY <1>1, <1>3 DEF Increments
<1>9. QED
  BY <1>2, <1>3, <1>4, <1>5, <1>6, <1>7, <1>8

LEMMA PassStep == ReportsInv /\ Pass => ReportsInv'
<1> SUFFICES ASSUME ReportsInv, Pass PROVE ReportsInv'
  OBVIOUS
<1>1. phase = "pass" /\ phase' = "pass" /\ CloningInv'
  BY PassKeeps DEF Pass, ReportsInv
<1>2. ReportsMatchRuns'
  BY <1>1 DEF ReportsMatchRuns
<1>3. QED
  BY <1>1, <1>2 DEF ReportsInv

LEMMA StartStep ==
  ASSUME ReportsInv, Start
  PROVE  ReportsInv'
<1>1. /\ stage = "done" /\ stage' = "done" /\ phase' = "run"
      /\ running' = Running
      /\ CounterArray' = [i \in 0 .. ROI_Count * CountArraySize - 1 |-> 0]
      /\ ran' = [r \in Regions |-> NoCounts]
      /\ CountArraySize' = CountArraySize
      /\ CloningInv
  BY DEF Start, vars, ReportsInv
<1>2. /\ CloningInv' /\ Codes' = Codes
      /\ ClonedBodyInstrumentedOnce' <=> ClonedBodyInstrumentedOnce
      /\ \A r : CountsIn(r)' = CountsIn(r)
      /\ \A i : CanCount(i)' <=> CanCount(i)
      /\ \A r, s : Index(r, s)' = Index(r, s)
  BY SameCode DEF Start, ReportsInv
<1>3. ClonedBodyInstrumentedOnce' /\ NoneReenteredFromWithin' => OnlyOwnCodeCounts'
  <2> SUFFICES ASSUME ClonedBodyInstrumentedOnce, NoneReenteredFromWithin',
                      NEW w \in Running, NEW i \in Increments(w)
               PROVE  CanCount(i)
    BY <1>1, <1>2, SameCode DEF OnlyOwnCodeCounts, Start
  <2>1. w \in Runnable
    BY <1>1, RunningRunnable
  <2>2. w[2][2] = "original" /\ w[3] \in Regions => Last(w[1]) = w[3]
    BY <1>1 DEF NoneReenteredFromWithin
  <2>3. QED
    BY <1>1, <2>1, <2>2, IncrementsCanCount
<1>4. CountersMatchRuns'
  <2>1. CounterArray' \in [0 .. ROI_Count * CountArraySize' - 1 -> Nat]
    BY <1>1
  <2>2. ran' \in [Regions -> [Codes' -> Nat]]
    BY <1>1, <1>2 DEF NoCounts
  <2>3. ASSUME NEW r \in Regions, NEW c \in Codes
        PROVE  ran'[r][c] = IF c \in CountsIn(r) THEN CounterArray'[Index(r, c[2])] ELSE 0
    <3>1. ran'[r][c] = 0
      BY <1>1 DEF NoCounts
    <3>2. c \in CountsIn(r) => Index(r, c[2]) \in 0 .. ROI_Count * CountArraySize - 1
      BY <1>1, IndexFacts
    <3>3. QED
      BY <1>1, <3>1, <3>2
  <2>4. QED
    BY <1>2, <2>1, <2>2, <2>3 DEF CountersMatchRuns
<1>5. ReportsMatchRuns'
  BY <1>1 DEF ReportsMatchRuns
<1>6. QED
  BY <1>1, <1>2, <1>3, <1>4, <1>5 DEF ReportsInv

LEMMA IncrementKeeps ==
  ASSUME CloningInv, stage = "done", CountersMatchRuns, NEW i, CanCount(i),
         UNCHANGED vars,
         CounterArray' = [CounterArray EXCEPT ![Index(i.row, i.code[2])] = @ + 1],
         ran' = [ran EXCEPT ![i.row][i.code] = @ + 1]
  PROVE  CountersMatchRuns'
<1>1. PICK q, d : q = i.row /\ d = i.code /\ q \in Regions /\ d \in CountsIn(q) /\ d \in Codes
  BY DEF CanCount, CountsIn
<1>2. PICK at \in 0 .. ROI_Count * CountArraySize - 1 : at = Index(q, d[2])
  BY <1>1, IndexFacts
<1>3. /\ CounterArray \in [0 .. ROI_Count * CountArraySize - 1 -> Nat]
      /\ ran \in [Regions -> [Codes -> Nat]]
  BY DEF CountersMatchRuns
<1>4. /\ CounterArray' = [CounterArray EXCEPT ![at] = CounterArray[at] + 1]
      /\ ran' = [ran EXCEPT ![q][d] = @ + 1]
  BY <1>1, <1>2
<1>5. CounterArray' \in [0 .. ROI_Count * CountArraySize - 1 -> Nat]
  <2>1. CounterArray[at] + 1 \in Nat
    BY <1>3
  <2>2. QED
    BY <1>3, <1>4, <2>1
<1>6. /\ ran' \in [Regions -> [Codes -> Nat]]
      /\ ran'[q][d] = ran[q][d] + 1
      /\ \A r \in Regions, c \in Codes : <<r, c>> # <<q, d>> => ran'[r][c] = ran[r][c]
  <2>1. PICK row \in [Codes -> Nat] : row = ran[q]
    BY <1>1, <1>3
  <2>2. PICK new : new = [row EXCEPT ![d] = row[d] + 1]
    OBVIOUS
  <2>3. row[d] + 1 \in Nat
    BY <1>1, <2>1
  <2>4. new \in [Codes -> Nat] /\ new[d] = row[d] + 1 /\ \A c \in Codes : c # d => new[c] = row[c]
    BY <1>1, <2>1, <2>2, <2>3
  <2>5. ran' = [ran EXCEPT ![q] = new]
    BY <1>1, <1>3, <1>4, <2>1, <2>2
  <2>6. ran'[q] = new /\ \A r \in Regions : r # q => ran'[r] = ran[r]
    BY <1>1, <1>3, <2>5
  <2>7. ran' \in [Regions -> [Codes -> Nat]]
    BY <1>3, <2>4, <2>5
  <2>8. QED
    BY <2>1, <2>4, <2>6, <2>7
<1>7. ASSUME NEW r \in Regions, NEW c \in Codes
      PROVE  ran'[r][c] = IF c \in CountsIn(r) THEN CounterArray'[Index(r, c[2])] ELSE 0
  <2>1. ran[r][c] = IF c \in CountsIn(r) THEN CounterArray[Index(r, c[2])] ELSE 0
    BY DEF CountersMatchRuns
  <2>2. CASE r = q /\ c = d
    <3>1. CounterArray'[at] = CounterArray[at] + 1
      BY <1>3, <1>4
    <3>2. QED
      BY <1>1, <1>2, <1>6, <2>1, <2>2, <3>1
  <2>3. CASE ~(r = q /\ c = d) /\ c \in CountsIn(r)
    <3>1. PICK k \in 0 .. ROI_Count * CountArraySize - 1 : k = Index(r, c[2])
      BY <2>3, IndexFacts
    <3>2. k # at
      BY <1>1, <1>2, <2>3, <3>1, IndexFacts
    <3>3. CounterArray'[k] = CounterArray[k]
      BY <1>3, <1>4, <3>2
    <3>4. QED
      BY <1>6, <2>1, <2>3, <3>1, <3>3
  <2>4. CASE ~(r = q /\ c = d) /\ c \notin CountsIn(r)
    BY <1>6, <2>1, <2>4
  <2>5. QED
    BY <2>2, <2>3, <2>4
<1>8. /\ Codes' = Codes
      /\ \A r : CountsIn(r)' = CountsIn(r)
      /\ \A r, s : Index(r, s)' = Index(r, s)
      /\ CountArraySize' = CountArraySize
  BY SameCode DEF vars
<1>9. QED
  BY <1>5, <1>6, <1>7, <1>8 DEF CountersMatchRuns

LEMMA IncrementStep ==
  ASSUME ReportsInv, NEW w \in running, NEW i \in Increments(w), incrementCounterArray(i)
  PROVE  ReportsInv'
<1>1. /\ phase = "run" /\ phase' = "run" /\ running' = running /\ UNCHANGED vars
      /\ CounterArray' = [CounterArray EXCEPT ![Index(i.row, i.code[2])] = @ + 1]
      /\ ran' = [ran EXCEPT ![i.row][i.code] = @ + 1]
      /\ stage = "done" /\ stage' = stage /\ CloningInv
  BY DEF incrementCounterArray, ReportsInv, vars
<1>2. /\ CloningInv'
      /\ ClonedBodyInstrumentedOnce' <=> ClonedBodyInstrumentedOnce
      /\ NoneReenteredFromWithin' <=> NoneReenteredFromWithin
      /\ OnlyOwnCodeCounts' <=> OnlyOwnCodeCounts
  BY <1>1, SameCode DEF NoneReenteredFromWithin, OnlyOwnCodeCounts
<1>3. ClonedBodyInstrumentedOnce /\ NoneReenteredFromWithin => CountersMatchRuns'
  <2> SUFFICES ASSUME ClonedBodyInstrumentedOnce, NoneReenteredFromWithin PROVE CountersMatchRuns'
    OBVIOUS
  <2>1. CountersMatchRuns /\ CanCount(i)
    BY <1>1 DEF ReportsInv, OnlyOwnCodeCounts
  <2>2. QED
    BY <1>1, <2>1, IncrementKeeps
<1>4. ReportsMatchRuns'
  BY <1>1 DEF ReportsMatchRuns
<1>5. QED
  BY <1>1, <1>2, <1>3, <1>4 DEF ReportsInv

LEMMA CountersStay ==
  ASSUME UNCHANGED <<vars, running, CounterArray, ran>>
  PROVE  /\ CountersMatchRuns => CountersMatchRuns'
         /\ OnlyOwnCodeCounts => OnlyOwnCodeCounts'
         /\ NoneReenteredFromWithin' <=> NoneReenteredFromWithin
<1>1. /\ Codes' = Codes /\ CountArraySize' = CountArraySize
      /\ \A r : CountsIn(r)' = CountsIn(r)
      /\ \A r, s : Index(r, s)' = Index(r, s)
      /\ \A i : CanCount(i)' <=> CanCount(i)
      /\ \A w : Increments(w)' = Increments(w)
  BY SameCode DEF vars
<1>2. QED
  BY <1>1 DEF CountersMatchRuns, OnlyOwnCodeCounts, NoneReenteredFromWithin

LEMMA FinalizeStep == ReportsInv /\ zray_finalize => ReportsInv'
<1> SUFFICES ASSUME ReportsInv, zray_finalize PROVE ReportsInv'
  OBVIOUS
<1>1. /\ phase = "run" /\ phase' = "reported"
      /\ UNCHANGED <<vars, running, CounterArray, ran, ActiveGroupNumber>>
      /\ RegionProfileList' = apply_indirect_counts(read_pd_sets)
      /\ stage = "done" /\ stage' = stage /\ CloningInv
  BY DEF zray_finalize, ReportsInv, vars
<1>2. /\ CloningInv' /\ (ClonedBodyInstrumentedOnce' <=> ClonedBodyInstrumentedOnce)
      /\ NoneReenteredFromWithin' <=> NoneReenteredFromWithin
  BY <1>1, SameCode, CountersStay
<1>3. ClonedBodyInstrumentedOnce /\ NoneReenteredFromWithin =>
        /\ OnlyOwnCodeCounts'
        /\ CountersMatchRuns /\ CountersMatchRuns'
  BY <1>1, CountersStay DEF ReportsInv
<1>4. ReportsMatchRuns'
  <2> SUFFICES ASSUME ActiveGroupNumber = 0, ClonedBodyInstrumentedOnce,
                      NoneReenteredFromWithin
               PROVE  \A r \in Regions : RegionProfileList'[r].counts = ran'[r]
    BY <1>1, <1>2 DEF ReportsMatchRuns
  <2>1. QED
    BY <1>1, <1>3, ReportFacts
<1>5. QED
  BY <1>1, <1>2, <1>3, <1>4 DEF ReportsInv

LEMMA ReportsStutter == ReportsInv /\ UNCHANGED reportVars => ReportsInv'
<1> SUFFICES ASSUME ReportsInv, UNCHANGED reportVars PROVE ReportsInv'
  OBVIOUS
<1>1. /\ UNCHANGED <<vars, running, CounterArray, ran>> /\ stage' = stage /\ phase' = phase
      /\ UNCHANGED <<ActiveGroupNumber, RegionProfileList>>
  BY DEF reportVars, vars
<1>2. CloningInv' /\ (ClonedBodyInstrumentedOnce' <=> ClonedBodyInstrumentedOnce)
  BY <1>1, SameCode DEF ReportsInv
<1>3. /\ CountersMatchRuns => CountersMatchRuns'
      /\ OnlyOwnCodeCounts => OnlyOwnCodeCounts'
      /\ NoneReenteredFromWithin' <=> NoneReenteredFromWithin
  BY <1>1, CountersStay
<1>4. ReportsMatchRuns'
  BY <1>1, <1>2, <1>3 DEF ReportsInv, ReportsMatchRuns
<1>5. QED
  BY <1>1, <1>2, <1>3, <1>4 DEF ReportsInv

LEMMA ReportsInitHolds == ReportsInit => ReportsInv
BY InitCloning DEF ReportsInit, ReportsInv, ReportsMatchRuns

LEMMA ReportsStep == ReportsInv /\ [ReportsNext]_reportVars => ReportsInv'
BY PassStep, StartStep, IncrementStep, FinalizeStep, ReportsStutter DEF ReportsNext, Reported

(* Whatever the module and whatever runs, each counter of a row counts one *)
(* code only.                                                              *)
THEOREM ReportsInvariance == ReportsSpec => []ReportsInv
BY ReportsInitHolds, ReportsStep, PTL DEF ReportsSpec

(* What is reported of a region is what ran under it: its own code and the *)
(* clones', which share one record between the regions they are called     *)
(* from, unless a body was instrumented twice or a region is entered again *)
(* from one opened inside it.                                              *)
THEOREM ReportsAreRuns == ReportsSpec => []ReportsMatchRuns
<1>1. ReportsInv => ReportsMatchRuns
  BY DEF ReportsInv
<1>2. QED
  BY <1>1, ReportsInvariance, PTL

=============================================================================
