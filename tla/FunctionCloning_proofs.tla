------------------------- MODULE FunctionCloning_proofs -------------------------
(***************************************************************************)
(* Proofs about FunctionCloning: for any module, any regions in it and any *)
(* call graph, the pass gives every clone counter indices of its own,      *)
(* leaves no call to uninstrumented code in a region or a clone but forks  *)
(* it cannot rewrite, and makes clones whose entry and exit events match.  *)
(***************************************************************************)
EXTENDS FunctionCloning, TLAPS

Code == [calls    : [Parts -> SUBSET (Bodies \X Forms)],
         starts   : SUBSET Regions,
         ends     : SUBSET Regions,
         counters : [Regions -> SUBSET Bodies]]

VarTypes ==
  /\ stage \in {"clone", "regions", "clones", "done"}
  /\ region \in Regions
  /\ code \in [Bodies -> Code]
  /\ owner \in [Functions -> Regions \cup {NoRegion}]
  /\ PendingFunctionClones \in Seq(Functions)
  /\ slots \in [Regions \cup Functions -> SUBSET Nat]
  /\ RegionCounterEventMax \in Nat
  /\ maxIndirect \in Nat
  /\ CountArraySize \in Nat

IsPending(f) ==
  \E i \in DOMAIN PendingFunctionClones : PendingFunctionClones[i] = f

PendingOnce ==
  /\ \A i \in DOMAIN PendingFunctionClones :
       /\ PendingFunctionClones[i] \in Cloned
       /\ slots[PendingFunctionClones[i]] = {}
  /\ \A i, j \in DOMAIN PendingFunctionClones :
       PendingFunctionClones[i] = PendingFunctionClones[j] => i = j

(* Counters are given to clones only, and only in the third loop.          *)
OnlyClonesCount ==
  /\ \A f \in Functions : f \notin Cloned => slots[f] = {}
  /\ stage \in {"clone", "regions"} => \A f \in Functions : slots[f] = {}

(* RegionCounterEventMax is above every index given out so far.            *)
WidthCoversSlots ==
  /\ maxIndirect <= RegionCounterEventMax
  /\ \A x \in Regions \cup Functions : \A s \in slots[x] : s < RegionCounterEventMax
  /\ stage = "done" => CountArraySize = RegionCounterEventMax

ClonesCountApart ==
  \A f \in Functions, x \in Regions \cup Functions :
    x # f => slots[f] \cap slots[x] = {}

(* Only a fork can be a call the pass does not rewrite.                    *)
OnlyForksAreLeft ==
  \A b \in Bodies, p \in Parts, f \in Functions, form \in Forms :
    <<Original(f), form>> \in code[b].calls[p] /\ form # "replaced" => f \in Outlined

(* A clone waits in the worklist until it is instrumented, and then all    *)
(* its calls have been dealt with.                                         *)
ClonesGetDone ==
  /\ \A f \in Cloned : \/ IsPending(f)
                       \/ slots[f] # {} /\ \A p \in Parts : ~Unprocessed(CloneOf(f), p)
  /\ stage = "done" => PendingFunctionClones = <<>>

(* The first loop has dealt with the calls of the regions behind it.       *)
RegionsGetDone ==
  ApplyFunctionCloning =>
    \A r \in Regions : stage # "clone" \/ r < region => ~Unprocessed(Original(Home[r]), r)

RegionsOf(f) == {r \in Regions : Home[r] = f}

(* An original carries its exits from the start and gets all its entries   *)
(* in the second loop, so no function is ever cloned with some of its      *)
(* entries but not all.                                                    *)
EventsOfOriginals ==
  \A f \in Functions :
    /\ code[Original(f)].ends = RegionsOf(f)
    /\ stage = "clone" => code[Original(f)].starts = {}
    /\ stage = "regions" => code[Original(f)].starts = {r \in RegionsOf(f) : r < region}
    /\ stage \in {"clones", "done"} => code[Original(f)].starts = RegionsOf(f)

IInv ==
  /\ VarTypes
  /\ PendingOnce
  /\ OnlyClonesCount
  /\ WidthCoversSlots
  /\ ClonesCountApart
  /\ OnlyForksAreLeft
  /\ ClonesGetDone
  /\ RegionsGetDone
  /\ EventsOfOriginals
  /\ ClonesBalanced
  /\ OutsideCallsKept

-----------------------------------------------------------------------------
LEMMA MaxOfTwo ==
  ASSUME NEW a \in Nat, NEW b \in Nat
  PROVE  Max({a, b}) = IF a >= b THEN a ELSE b
BY DEF Max

LEMMA BodiesApart ==
  ASSUME NEW f \in Functions, NEW g \in Functions
  PROVE  /\ Original(f) \in Bodies
         /\ CloneOf(f) \in Bodies
         /\ CloneOf(f) # Original(g)
         /\ CloneOf(f) = CloneOf(g) => f = g
         /\ Original(f) = Original(g) => f = g
BY DEF Original, CloneOf, Bodies

LEMMA HomeIsFunction == \A r \in Regions : Home[r] \in Functions /\ r \in Parts
BY CloningAssumption DEF Parts

-----------------------------------------------------------------------------
LEMMA CallFacts ==
  \A c \in Calls : /\ c[2] \in Functions /\ c[3] \in Forms
                   /\ <<Original(c[2]), c[3]>> \in Bodies \X Forms
                   /\ c[3] # "replaced" => c[2] \in Outlined
BY BodiesApart DEF Calls

LEMMA ParsedFacts ==
  ASSUME NEW f \in Functions, NEW calls \in SUBSET Calls
  PROVE  /\ Parsed(f, calls) \in Code
         /\ Parsed(f, calls).starts = {}
         /\ Parsed(f, calls).ends = RegionsOf(f)
         /\ \A p \in Parts : Parsed(f, calls).calls[p] \subseteq
                             {<<Original(c[2]), c[3]>> : c \in Calls}
<1> DEFINE called(p) == {<<Original(c[2]), c[3]>> : c \in {d \in calls : d[1] = <<f, p>>}}
<1>1. Parsed(f, calls) = [calls    |-> [p \in Parts |-> called(p)],
                         starts   |-> {},
                         ends     |-> RegionsOf(f),
                         counters |-> [r \in Regions |-> {}]]
  BY DEF Parsed, RegionsOf
<1>2. \A p \in Parts : called(p) \in SUBSET (Bodies \X Forms)
  BY CallFacts
<1>3. \A p \in Parts : called(p) \subseteq {<<Original(c[2]), c[3]>> : c \in Calls}
  OBVIOUS
<1>4. RegionsOf(f) \in SUBSET Regions
  BY DEF RegionsOf
<1> HIDE DEF called
<1>5. QED
  BY <1>1, <1>2, <1>3, <1>4 DEF Code

LEMMA InitIInv == Init => IInv
<1> SUFFICES ASSUME Init PROVE IInv
  OBVIOUS
<1>1. PICK calls \in SUBSET Calls : code = [b \in Bodies |-> IF b[2] = "original" THEN Parsed(b[1], calls)
                                                                 ELSE NoCode]
  <2>1. PICK n \in 0 .. MaxCalls : \E cs \in kSubset(n, Calls) :
          code = [b \in Bodies |-> IF b[2] = "original" THEN Parsed(b[1], cs) ELSE NoCode]
    BY DEF Init
  <2>2. kSubset(n, Calls) \subseteq SUBSET Calls
    BY DEF kSubset
  <2>3. QED
    BY <2>1, <2>2
<1>2. \A f \in Functions : code[Original(f)] = Parsed(f, calls) /\ code[CloneOf(f)] = NoCode
  BY <1>1, BodiesApart DEF Original, CloneOf
<1>3. \A f \in Functions : Parsed(f, calls) \in Code
  BY ParsedFacts
<1>4. NoCode \in Code
  BY DEF NoCode, Code
<1>5. code \in [Bodies -> Code]
  BY <1>1, <1>3, <1>4 DEF Bodies
<1>6. VarTypes
  <2>1. 0 \in Regions
    BY CloningAssumption DEF Regions
  <2>2. QED
    BY <1>5, <2>1 DEF Init, VarTypes
<1>7. PendingOnce /\ OnlyClonesCount /\ ClonesCountApart /\ ClonesGetDone
  BY DEF Init, PendingOnce, OnlyClonesCount, ClonesCountApart, ClonesGetDone, Cloned
<1>8. WidthCoversSlots
  BY DEF Init, WidthCoversSlots
<1>9. RegionsGetDone
  BY CloningAssumption DEF Init, RegionsGetDone, Regions
<1>10. EventsOfOriginals
  BY <1>2, ParsedFacts DEF Init, EventsOfOriginals
<1>11. ClonesBalanced
  BY <1>2 DEF ClonesBalanced, NoCode
<1>12. ASSUME NEW b \in Bodies, NEW p \in Parts, NEW c \in code[b].calls[p]
       PROVE  \E d \in Calls : c = <<Original(d[2]), d[3]>>
  <2>1. PICK f \in Functions : b = Original(f) \/ b = CloneOf(f)
    BY DEF Bodies, Original, CloneOf
  <2>2. NoCode.calls[p] = {}
    BY DEF NoCode
  <2>3. b = Original(f)
    BY <1>2, <2>1, <2>2
  <2>4. code[b].calls[p] \subseteq {<<Original(d[2]), d[3]>> : d \in Calls}
    BY <1>2, <2>3, ParsedFacts
  <2>5. QED
    BY <2>4
<1>13. OutsideCallsKept
  <2>1. Outside \in Parts
    BY DEF Parts
  <2>2. QED
    BY <1>12, <2>1, CallFacts, BodiesApart DEF OutsideCallsKept
<1>14. OnlyForksAreLeft
  BY <1>12, CallFacts, BodiesApart DEF OnlyForksAreLeft
<1>15. QED
  BY <1>6, <1>7, <1>8, <1>9, <1>10, <1>11, <1>13, <1>14 DEF IInv

-----------------------------------------------------------------------------
(* A call is sent to a clone.                                              *)

LEMMA RetargetedFacts ==
  ASSUME NEW body \in Code, NEW p \in Parts, NEW f \in Functions, NEW form \in Forms
  PROVE  LET new == Retargeted(body, p, f, form)
         IN  /\ new \in Code
             /\ new.starts = body.starts
             /\ new.ends = body.ends
             /\ new.calls[p] \subseteq body.calls[p] \cup {<<CloneOf(f), form>>}
             /\ \A q \in Parts : q # p => new.calls[q] = body.calls[q]
<1>1. <<CloneOf(f), form>> \in Bodies \X Forms
  BY BodiesApart
<1>2. (body.calls[p] \ {<<Original(f), form>>}) \cup {<<CloneOf(f), form>>} \in SUBSET (Bodies \X Forms)
  BY <1>1 DEF Code
<1>3. CASE form = "replaced"
  BY <1>2, <1>3 DEF Retargeted, Code
<1>4. CASE form # "replaced"
  BY <1>4 DEF Retargeted
<1>5. QED
  BY <1>3, <1>4

LEMMA StrippedFacts ==
  ASSUME NEW body \in Code
  PROVE  LET new == Stripped(body)
         IN  /\ new \in Code
             /\ new.calls = body.calls
             /\ new.starts = body.starts
             /\ new.ends = IF body.starts = {} THEN {} ELSE body.ends
BY DEF Stripped, Code

LEMMA CallCode ==
  ASSUME VarTypes, NEW b \in Bodies, NEW p \in Parts, NEW f \in Functions,
         NEW form \in Forms, NEW r \in Regions, processCallInst(b, p, f, form, r), f \notin Cloned => b # CloneOf(f)
  PROVE  /\ code' \in [Bodies -> Code]
         /\ code'[b] = Retargeted(code[b], p, f, form)
         /\ f \notin Cloned => code'[CloneOf(f)] = Stripped(code[Original(f)])
         /\ \A c \in Bodies : c # b /\ (f \notin Cloned => c # CloneOf(f)) => code'[c] = code[c]
<1>1. code \in [Bodies -> Code] /\ CloneOf(f) \in Bodies /\ Original(f) \in Bodies
  BY BodiesApart DEF VarTypes
<1>2. Retargeted(code[b], p, f, form) \in Code /\ Stripped(code[Original(f)]) \in Code
  BY <1>1, RetargetedFacts, StrippedFacts
<1>3. CASE f \in Cloned
  <2>1. code' = [code EXCEPT ![b] = Retargeted(code[b], p, f, form)]
    BY <1>3 DEF processCallInst
  <2>2. QED
    BY <1>1, <1>2, <1>3, <2>1
<1>4. CASE f \notin Cloned
  <2>1. code' = [code EXCEPT ![CloneOf(f)] = Stripped(code[Original(f)]),
                             ![b] = Retargeted(@, p, f, form)]
    BY <1>4 DEF processCallInst
  <2>2. b # CloneOf(f)
    BY <1>4
  <2>3. code' = [[code EXCEPT ![CloneOf(f)] = Stripped(code[Original(f)])]
                   EXCEPT ![b] = Retargeted(code[b], p, f, form)]
    BY <1>1, <2>1, <2>2
  <2>4. QED
    BY <1>1, <1>2, <1>4, <2>2, <2>3
<1>5. QED
  BY <1>3, <1>4

(* Only the first call of a function queues it.                            *)
LEMMA CallQueue ==
  ASSUME VarTypes, NEW b, NEW p, NEW f \in Functions,
         NEW form \in Forms, NEW r \in Regions, processCallInst(b, p, f, form, r)
  PROVE  /\ owner' \in [Functions -> Regions \cup {NoRegion}]
         /\ Cloned' = Cloned \cup {f}
         /\ PendingFunctionClones' \in Seq(Functions)
         /\ \A g : IsPending(g) => IsPending(g)'
         /\ f \notin Cloned => IsPending(f)'
         /\ f \in Cloned => PendingFunctionClones' = PendingFunctionClones
         /\ f \notin Cloned => PendingFunctionClones' = Append(PendingFunctionClones, f)
<1>1. /\ owner \in [Functions -> Regions \cup {NoRegion}]
      /\ PendingFunctionClones \in Seq(Functions)
      /\ r # NoRegion
  BY CloningAssumption DEF VarTypes
<1>2. CASE f \in Cloned
  BY <1>1, <1>2 DEF processCallInst, Cloned, IsPending
<1>3. CASE f \notin Cloned
  <2>1. /\ owner' = [owner EXCEPT ![f] = r]
        /\ PendingFunctionClones' = Append(PendingFunctionClones, f)
    BY <1>3 DEF processCallInst, Queued
  <2>2. /\ PendingFunctionClones' \in Seq(Functions)
        /\ Len(PendingFunctionClones') = Len(PendingFunctionClones) + 1
        /\ PendingFunctionClones'[Len(PendingFunctionClones) + 1] = f
        /\ \A i \in 1 .. Len(PendingFunctionClones) :
             PendingFunctionClones'[i] = PendingFunctionClones[i]
        /\ Len(PendingFunctionClones) \in Nat
    BY <1>1, <2>1
  <2>3. DOMAIN PendingFunctionClones = 1 .. Len(PendingFunctionClones)
        /\ DOMAIN PendingFunctionClones' = 1 .. Len(PendingFunctionClones) + 1
    BY <1>1, <2>2
  <2>4. \A g : IsPending(g) => IsPending(g)'
    BY <2>2, <2>3 DEF IsPending
  <2>5. IsPending(f)'
    BY <2>2, <2>3 DEF IsPending
  <2>6. Cloned' = Cloned \cup {f} /\ owner' \in [Functions -> Regions \cup {NoRegion}]
    BY <1>1, <2>1 DEF Cloned
  <2>7. QED
    BY <1>3, <2>1, <2>2, <2>4, <2>5, <2>6
<1>4. QED
  BY <1>2, <1>3

LEMMA CallPendingOnce ==
  ASSUME IInv, NEW b, NEW p, NEW f \in Functions,
         NEW form \in Forms, NEW r \in Regions, processCallInst(b, p, f, form, r), slots' = slots
  PROVE  PendingOnce'
<1> DEFINE P == PendingFunctionClones
<1>1. VarTypes /\ PendingOnce /\ P \in Seq(Functions)
  BY DEF IInv, VarTypes
<1>2. Cloned' = Cloned \cup {f}
  BY <1>1, CallQueue
<1>3. CASE f \in Cloned
  <2>1. P' = P
    BY <1>1, <1>3, CallQueue
  <2>2. QED
    BY <1>1, <1>2, <2>1 DEF PendingOnce
<1>4. CASE f \notin Cloned
  <2>1. PICK n \in Nat : n = Len(P)
    BY <1>1
  <2>2. P' = Append(P, f)
    BY <1>1, <1>4, CallQueue
  <2>3. /\ DOMAIN P = 1 .. n /\ DOMAIN P' = 1 .. n + 1
        /\ P'[n + 1] = f
        /\ \A i \in 1 .. n : P'[i] = P[i]
    BY <1>1, <2>1, <2>2
  <2>4. slots[f] = {}
    BY <1>4 DEF IInv, OnlyClonesCount
  <2>5. \A i \in 1 .. n : P[i] \in Cloned /\ slots[P[i]] = {} /\ P[i] # f
    BY <1>1, <1>4, <2>3 DEF PendingOnce
  <2>6. \A i \in 1 .. n + 1 : i \in 1 .. n \/ i = n + 1
    OBVIOUS
  <2>7. \A i \in DOMAIN P' : P'[i] \in Cloned' /\ slots'[P'[i]] = {}
    BY <1>2, <2>3, <2>4, <2>5, <2>6
  <2>8. \A i, j \in DOMAIN P' : P'[i] = P'[j] => i = j
    BY <1>1, <2>3, <2>5, <2>6 DEF PendingOnce
  <2>9. QED
    BY <2>7, <2>8 DEF PendingOnce
<1>5. QED
  BY <1>3, <1>4

LEMMA CallStep ==
  ASSUME IInv, NEW b \in Bodies, NEW p \in Parts, NEW f \in Functions,
         NEW form \in Forms, NEW r \in Regions, processCallInst(b, p, f, form, r),
         UNCHANGED <<stage, region, slots, RegionCounterEventMax, maxIndirect, CountArraySize>>,
         \/ stage = "clone" /\ p \in Regions /\ \E g \in Functions : b = Original(g)
         \/ stage = "clones" /\ \E g \in Functions : b = CloneOf(g) /\ IsPending(g)
  PROVE  IInv'
<1>1. VarTypes /\ PendingOnce
  BY DEF IInv
<1>2. f \notin Cloned => b # CloneOf(f)
  <2>1. \A g : IsPending(g) => g \in Cloned
    BY <1>1 DEF IsPending, PendingOnce
  <2>2. QED
    BY <2>1, BodiesApart
<1>3. /\ code' \in [Bodies -> Code]
      /\ code'[b] = Retargeted(code[b], p, f, form)
      /\ f \notin Cloned => code'[CloneOf(f)] = Stripped(code[Original(f)])
      /\ \A c \in Bodies : c # b /\ (f \notin Cloned => c # CloneOf(f)) => code'[c] = code[c]
  BY <1>1, <1>2, CallCode
<1>4. code[b] \in Code
  BY <1>1 DEF VarTypes
<1>5. /\ Retargeted(code[b], p, f, form).starts = code[b].starts
      /\ Retargeted(code[b], p, f, form).ends = code[b].ends
      /\ Retargeted(code[b], p, f, form).calls[p] \subseteq code[b].calls[p] \cup {<<CloneOf(f), form>>}
      /\ \A q \in Parts : q # p => Retargeted(code[b], p, f, form).calls[q] = code[b].calls[q]
  BY <1>4, RetargetedFacts
<1>6. VarTypes'
  BY <1>1, <1>3, CallQueue DEF VarTypes
<1>7. PendingOnce'
  BY CallPendingOnce
<1>8. /\ Cloned' = Cloned \cup {f}
      /\ f \notin Cloned => IsPending(f)'
      /\ \A g : IsPending(g) => IsPending(g)'
  BY <1>1, CallQueue
<1>9. OnlyClonesCount' /\ WidthCoversSlots' /\ ClonesCountApart'
  BY <1>8 DEF IInv, OnlyClonesCount, WidthCoversSlots, ClonesCountApart
<1>10. ASSUME NEW c \in Bodies, NEW q \in Parts, NEW g \in Functions, NEW as \in Forms,
              f \notin Cloned => c # CloneOf(f), <<Original(g), as>> \in code'[c].calls[q]
       PROVE  <<Original(g), as>> \in code[c].calls[q]
  <2>1. <<Original(g), as>> # <<CloneOf(f), form>>
    BY BodiesApart
  <2>2. CASE c = b /\ q = p
    BY <1>3, <1>5, <1>10, <2>1, <2>2
  <2>3. CASE c = b /\ q # p
    BY <1>3, <1>5, <1>10, <2>3
  <2>4. CASE c # b
    BY <1>3, <1>10, <2>4
  <2>5. QED
    BY <2>2, <2>3, <2>4
<1>11. \A c \in Bodies, q \in Parts :
         (f \notin Cloned => c # CloneOf(f)) /\ Unprocessed(c, q)' => Unprocessed(c, q)
  <2>1. "replaced" \in Forms /\ "kept" \in Forms
    BY DEF Forms
  <2>2. QED
    BY <1>8, <1>10, <2>1 DEF Unprocessed
<1>12. OnlyForksAreLeft'
  <2> SUFFICES ASSUME NEW c \in Bodies, NEW q \in Parts, NEW g \in Functions, NEW as \in Forms,
                      <<Original(g), as>> \in code'[c].calls[q], as # "replaced"
               PROVE  g \in Outlined
    BY DEF OnlyForksAreLeft
  <2>1. CASE f \notin Cloned => c # CloneOf(f)
    BY <1>10, <2>1 DEF IInv, OnlyForksAreLeft
  <2>2. CASE f \notin Cloned /\ c = CloneOf(f)
    <3>1. Original(f) \in Bodies /\ code[Original(f)] \in Code
      BY <1>1, BodiesApart DEF VarTypes
    <3>2. code'[c].calls = code[Original(f)].calls
      BY <1>3, <2>2, <3>1, StrippedFacts
    <3>3. QED
      BY <3>1, <3>2 DEF IInv, OnlyForksAreLeft
  <2>3. QED
    BY <2>1, <2>2
<1>13. ClonesGetDone'
  <2>1. stage' # "done"
    OBVIOUS
  <2>2. ASSUME NEW g \in Cloned'
        PROVE  \/ IsPending(g)'
               \/ slots'[g] # {} /\ \A q \in Parts : ~Unprocessed(CloneOf(g), q)'
    <3>1. CASE f \notin Cloned /\ g = f
      BY <1>8, <3>1 DEF IsPending
    <3>2. CASE ~(f \notin Cloned /\ g = f)
      <4>1. g \in Cloned /\ g \in Functions
        BY <1>8, <3>2 DEF Cloned
      <4>2. f \notin Cloned => CloneOf(g) # CloneOf(f)
        BY <3>2, <4>1, BodiesApart
      <4>3. CASE IsPending(g)
        BY <1>8, <4>1, <4>3 DEF IsPending
      <4>4. CASE slots[g] # {} /\ \A q \in Parts : ~Unprocessed(CloneOf(g), q)
        BY <1>11, <4>1, <4>2, <4>4, BodiesApart
      <4>5. QED
        BY <4>1, <4>3, <4>4 DEF IInv, ClonesGetDone
    <3>3. QED
      BY <3>1, <3>2
  <2>3. QED
    BY <2>1, <2>2 DEF ClonesGetDone
<1>14. RegionsGetDone'
  <2>1. \A q \in Regions : /\ Original(Home[q]) \in Bodies
                           /\ Original(Home[q]) # CloneOf(f)
                           /\ q \in Parts
    BY HomeIsFunction, BodiesApart
  <2>2. \A q \in Regions : Unprocessed(Original(Home[q]), q)' => Unprocessed(Original(Home[q]), q)
    BY <1>11, <2>1
  <2>3. QED
    BY <2>2 DEF IInv, RegionsGetDone
<1>15. \A g \in Functions : /\ code'[Original(g)].starts = code[Original(g)].starts
                           /\ code'[Original(g)].ends = code[Original(g)].ends
  <2> SUFFICES ASSUME NEW g \in Functions
               PROVE  /\ code'[Original(g)].starts = code[Original(g)].starts
                      /\ code'[Original(g)].ends = code[Original(g)].ends
    OBVIOUS
  <2>1. Original(g) \in Bodies /\ Original(g) # CloneOf(f)
    BY BodiesApart
  <2>2. CASE Original(g) = b
    BY <1>3, <1>5, <2>2
  <2>3. CASE Original(g) # b
    BY <1>3, <2>1, <2>3
  <2>4. QED
    BY <2>2, <2>3
<1>16. EventsOfOriginals'
  BY <1>15 DEF IInv, EventsOfOriginals
<1>17. ClonesBalanced'
  <2> SUFFICES ASSUME NEW g \in Functions
               PROVE  code'[CloneOf(g)].starts = code'[CloneOf(g)].ends
    BY DEF ClonesBalanced
  <2>1. /\ CloneOf(g) \in Bodies /\ Original(g) \in Bodies
        /\ CloneOf(g) = CloneOf(f) => g = f
        /\ code[CloneOf(g)].starts = code[CloneOf(g)].ends
    BY BodiesApart DEF IInv, ClonesBalanced
  <2>2. CASE f \notin Cloned /\ g = f
    <3>1. code[Original(g)].starts # {} => code[Original(g)].starts = code[Original(g)].ends
      BY DEF IInv, EventsOfOriginals
    <3>2. code[Original(g)] \in Code
      BY <1>1, <2>1 DEF VarTypes
    <3>3. /\ Stripped(code[Original(g)]).starts = code[Original(g)].starts
          /\ Stripped(code[Original(g)]).ends
               = IF code[Original(g)].starts = {} THEN {} ELSE code[Original(g)].ends
      BY <3>2, StrippedFacts
    <3>4. QED
      BY <1>3, <2>2, <3>1, <3>3
  <2>3. CASE ~(f \notin Cloned /\ g = f) /\ CloneOf(g) = b
    BY <1>3, <1>5, <2>1, <2>3
  <2>4. CASE ~(f \notin Cloned /\ g = f) /\ CloneOf(g) # b
    BY <1>3, <2>1, <2>4
  <2>5. QED
    BY <2>2, <2>3, <2>4
<1>18. OutsideCallsKept'
  <2> SUFFICES ASSUME NEW g \in Functions, NEW h \in Functions,
                      NEW as \in Forms
               PROVE  <<CloneOf(h), as>> \notin code'[Original(g)].calls[Outside]
    BY DEF OutsideCallsKept
  <2>1. /\ Original(g) \in Bodies /\ Original(g) # CloneOf(f)
        /\ <<CloneOf(h), as>> \notin code[Original(g)].calls[Outside]
    BY BodiesApart DEF IInv, OutsideCallsKept
  <2>2. CASE Original(g) = b
    <3>1. p # Outside /\ Outside \in Parts
      BY <2>2, BodiesApart, CloningAssumption DEF Parts
    <3>2. QED
      BY <1>3, <1>5, <2>1, <2>2, <3>1
  <2>3. CASE Original(g) # b
    BY <1>3, <2>1, <2>3
  <2>4. QED
    BY <2>2, <2>3
<1>19. QED
  BY <1>6, <1>7, <1>9, <1>13, <1>14, <1>16, <1>17, <1>18, <1>12 DEF IInv

-----------------------------------------------------------------------------
(* The first loop goes on to the next region when its calls are dealt with.*)

LEMMA NextRegionStep == IInv /\ NextRegion => IInv'
<1> SUFFICES ASSUME IInv, NextRegion PROVE IInv'
  OBVIOUS
<1>1. /\ stage = "clone"
      /\ UNCHANGED <<code, owner, PendingFunctionClones, slots, RegionCounterEventMax,
                     maxIndirect, CountArraySize>>
      /\ ApplyFunctionCloning => ~Unprocessed(Original(Home[region]), region)
  BY DEF NextRegion
<1>2. \/ region + 1 < ROI_Count /\ region' = region + 1 /\ stage' = stage
      \/ ~(region + 1 < ROI_Count) /\ region' = 0 /\ stage' = "regions"
  BY DEF NextRegion
<1>3. region \in Regions /\ ROI_Count \in Nat \ {0}
  BY CloningAssumption DEF IInv, VarTypes
<1>4. region' \in Regions
  BY <1>2, <1>3 DEF Regions
<1>5. VarTypes'
  BY <1>1, <1>2, <1>4 DEF IInv, VarTypes
<1>6. PendingOnce' /\ OnlyClonesCount' /\ WidthCoversSlots' /\ ClonesCountApart' /\ ClonesGetDone'
  BY <1>1, <1>2 DEF IInv, PendingOnce, OnlyClonesCount, WidthCoversSlots, ClonesCountApart,
                    ClonesGetDone, Cloned, IsPending, Unprocessed
<1>7. RegionsGetDone'
  <2> SUFFICES ASSUME ApplyFunctionCloning, NEW r \in Regions, stage' # "clone" \/ r < region'
               PROVE  ~Unprocessed(Original(Home[r]), r)
    BY <1>1 DEF RegionsGetDone, Unprocessed, Cloned
  <2>1. r < region \/ r = region
    BY <1>1, <1>2, <1>3 DEF Regions
  <2>2. QED
    BY <1>1, <2>1 DEF IInv, RegionsGetDone
<1>8. EventsOfOriginals'
  <2>1. stage' = "regions" => {r \in RegionsOf(Home[region]) : r < region'} = {}
    BY <1>1, <1>2 DEF RegionsOf, Regions
  <2>2. ASSUME NEW f \in Functions, stage' = "regions"
        PROVE  {r \in RegionsOf(f) : r < region'} = {}
    BY <1>1, <1>2, <2>2 DEF RegionsOf, Regions
  <2>3. QED
    BY <1>1, <1>2, <2>2 DEF IInv, EventsOfOriginals
<1>9. ClonesBalanced' /\ OutsideCallsKept' /\ OnlyForksAreLeft'
  BY <1>1 DEF IInv, ClonesBalanced, OutsideCallsKept, OnlyForksAreLeft
<1>10. QED
  BY <1>5, <1>6, <1>7, <1>8, <1>9 DEF IInv

-----------------------------------------------------------------------------
(* The second loop.                                                        *)

Entered(body, r, b) ==
  [body EXCEPT !.counters[r] = @ \cup {b}, !.starts = @ \cup {r}]

LEMMA EnteredFacts ==
  ASSUME NEW body \in Code, NEW r \in Regions, NEW b \in Bodies
  PROVE  LET new == Entered(body, r, b)
         IN  /\ new \in Code
             /\ new.calls = body.calls
             /\ new.starts = body.starts \cup {r}
             /\ new.ends = body.ends
<1>1. /\ body.counters[r] \cup {b} \in SUBSET Bodies
      /\ body.starts \cup {r} \in SUBSET Regions
  BY DEF Code
<1>2. QED
  BY <1>1 DEF Entered, Code

LEMMA InstrumentRegionStep ==
  ASSUME IInv, NEW n \in 1 .. MaxEvents, InstrumentRegion(n)
  PROVE  IInv'
<1>1. PICK h \in Functions : h = Home[region] /\ region \in RegionsOf(h)
  BY HomeIsFunction DEF IInv, VarTypes, RegionsOf
<1>2. /\ stage = "regions"
      /\ slots' = [slots EXCEPT ![region] = 0 .. n - 1]
      /\ code' = [code EXCEPT ![Original(h)].counters[region] = @ \cup {Original(h)},
                              ![Original(h)].starts = @ \cup {region}]
      /\ RegionCounterEventMax' = Max({n, RegionCounterEventMax})
      /\ UNCHANGED <<owner, PendingFunctionClones, maxIndirect, CountArraySize>>
  BY <1>1 DEF InstrumentRegion, RegionSlots
<1>3. \/ region + 1 < ROI_Count /\ region' = region + 1 /\ stage' = stage
      \/ ~(region + 1 < ROI_Count) /\ region' = 0 /\ stage' = "clones"
  BY DEF InstrumentRegion
<1>4. /\ VarTypes /\ region \in Regions /\ ROI_Count \in Nat \ {0}
      /\ n \in Nat \ {0} /\ RegionCounterEventMax \in Nat /\ maxIndirect \in Nat
  BY CloningAssumption DEF IInv, VarTypes
<1>5. region' \in Regions
  BY <1>3, <1>4 DEF Regions
<1>6. /\ code' \in [Bodies -> Code]
      /\ \A c \in Bodies : c # Original(h) => code'[c] = code[c]
      /\ code'[Original(h)].calls = code[Original(h)].calls
      /\ code'[Original(h)].starts = code[Original(h)].starts \cup {region}
      /\ code'[Original(h)].ends = code[Original(h)].ends
  <2> DEFINE b == Original(h)
             B == code[b]
  <2>1. b \in Bodies /\ code \in [Bodies -> Code] /\ B \in Code
    BY <1>4, BodiesApart DEF VarTypes
  <2> HIDE DEF b
  <2>2. code' = [code EXCEPT ![b] = Entered(B, region, b)]
    BY <1>2, <2>1 DEF b, Entered
  <2>3. Entered(B, region, b) \in Code
    BY <1>4, <2>1, EnteredFacts
  <2>4. /\ Entered(B, region, b).calls = B.calls
        /\ Entered(B, region, b).starts = B.starts \cup {region}
        /\ Entered(B, region, b).ends = B.ends
    BY <1>4, <2>1, EnteredFacts
  <2>5. QED
    BY <2>1, <2>2, <2>3, <2>4 DEF b
<1>7. /\ slots' \in [Regions \cup Functions -> SUBSET Nat]
      /\ \A x \in Regions \cup Functions : x # region => slots'[x] = slots[x]
      /\ slots'[region] = 0 .. n - 1
      /\ \A f \in Functions : slots'[f] = slots[f] /\ slots[f] = {}
  BY <1>2, <1>4, CloningAssumption DEF VarTypes, IInv, OnlyClonesCount
<1>8. RegionCounterEventMax' = IF n >= RegionCounterEventMax THEN n ELSE RegionCounterEventMax
  BY <1>2, <1>4, MaxOfTwo
<1>9. VarTypes'
  BY <1>2, <1>3, <1>4, <1>5, <1>6, <1>7, <1>8 DEF VarTypes
<1>10. PendingOnce' /\ OnlyClonesCount'
  <2>1. Cloned' = Cloned
    BY <1>2 DEF Cloned
  <2>2. \A i \in DOMAIN PendingFunctionClones : PendingFunctionClones[i] \in Functions
    BY <1>4 DEF VarTypes
  <2>3. \A f \in Functions : slots'[f] = {}
    BY <1>7
  <2>4. PendingOnce'
    BY <1>2, <2>1, <2>2, <2>3 DEF IInv, PendingOnce
  <2>5. OnlyClonesCount'
    BY <2>3 DEF OnlyClonesCount
  <2>6. QED
    BY <2>4, <2>5
<1>11. WidthCoversSlots'
  <2>1. RegionCounterEventMax' >= RegionCounterEventMax /\ RegionCounterEventMax' >= n
        /\ RegionCounterEventMax' \in Nat
    BY <1>4, <1>8
  <2>2. maxIndirect' <= RegionCounterEventMax'
    BY <1>2, <1>4, <2>1 DEF IInv, WidthCoversSlots
  <2>3. ASSUME NEW x \in Regions \cup Functions, NEW k \in slots'[x]
        PROVE  k < RegionCounterEventMax'
    <3>1. CASE x = region
      BY <1>4, <1>7, <2>1, <2>3, <3>1
    <3>2. CASE x # region
      <4>1. k \in slots[x] /\ k \in Nat
        BY <1>4, <1>7, <2>3, <3>2 DEF VarTypes
      <4>2. QED
        BY <1>4, <2>1, <4>1 DEF IInv, WidthCoversSlots
    <3>3. QED
      BY <3>1, <3>2
  <2>4. QED
    BY <1>2, <1>3, <2>2, <2>3 DEF WidthCoversSlots
<1>12. ClonesCountApart'
  BY <1>7 DEF ClonesCountApart
<1>13. \A f \in Functions : /\ code'[CloneOf(f)] = code[CloneOf(f)]
                           /\ code'[Original(f)].calls = code[Original(f)].calls
                           /\ code'[Original(f)].ends = code[Original(f)].ends
                           /\ code'[Original(f)].starts = IF f = h THEN code[Original(f)].starts \cup {region}
                                                                   ELSE code[Original(f)].starts
  BY <1>6, BodiesApart
<1>14. ClonesGetDone'
  <2>1. Cloned' = Cloned /\ Cloned \subseteq Functions
    BY <1>2 DEF Cloned
  <2>2. \A f \in Cloned : IsPending(f)
    BY <1>7, <2>1 DEF IInv, ClonesGetDone
  <2>3. QED
    BY <1>2, <1>3, <2>1, <2>2 DEF ClonesGetDone, IsPending
<1>15. RegionsGetDone'
  BY <1>2, <1>3, <1>13, HomeIsFunction DEF IInv, RegionsGetDone, Unprocessed, Cloned
<1>16. EventsOfOriginals'
  <2> SUFFICES ASSUME NEW f \in Functions
               PROVE  /\ code'[Original(f)].ends = RegionsOf(f)
                      /\ stage' = "regions" =>
                           code'[Original(f)].starts = {r \in RegionsOf(f) : r < region'}
                      /\ stage' = "clones" => code'[Original(f)].starts = RegionsOf(f)
    BY <1>2, <1>3 DEF EventsOfOriginals
  <2>1. /\ code[Original(f)].ends = RegionsOf(f)
        /\ code[Original(f)].starts = {r \in RegionsOf(f) : r < region}
    BY <1>2 DEF IInv, EventsOfOriginals
  <2>2. code'[Original(f)].starts = {r \in RegionsOf(f) : r < region \/ r = region}
    <3>1. \A r \in RegionsOf(f) : r = region => f = h
      BY <1>1 DEF RegionsOf
    <3>2. CASE f = h
      BY <1>1, <1>13, <2>1, <3>2
    <3>3. CASE f # h
      BY <1>13, <2>1, <3>1, <3>3
    <3>4. QED
      BY <3>2, <3>3
  <2>3. \A r \in RegionsOf(f) : r < region \/ r = region <=> r < region + 1
    BY <1>4 DEF RegionsOf, Regions
  <2>4. ~(region + 1 < ROI_Count) => \A r \in RegionsOf(f) : r < region + 1
    BY <1>4 DEF RegionsOf, Regions
  <2>5. QED
    BY <1>2, <1>3, <1>13, <2>1, <2>2, <2>3, <2>4
<1>17. ClonesBalanced' /\ OutsideCallsKept'
  BY <1>13 DEF IInv, ClonesBalanced, OutsideCallsKept
<1>18. OnlyForksAreLeft'
  <2>1. \A c \in Bodies : code'[c].calls = code[c].calls
    BY <1>6
  <2>2. QED
    BY <2>1 DEF IInv, OnlyForksAreLeft
<1>19. QED
  BY <1>9, <1>10, <1>11, <1>12, <1>14, <1>15, <1>16, <1>17, <1>18 DEF IInv

-----------------------------------------------------------------------------
(* The third loop.                                                         *)

LEMMA HeadFacts ==
  ASSUME VarTypes, PendingOnce, PendingFunctionClones # <<>>
  PROVE  LET key == Head(PendingFunctionClones)
         IN  /\ key \in Functions
             /\ key \in Cloned
             /\ IsPending(key)
             /\ slots[key] = {}
             /\ owner[key] \in Regions
<1>1. PendingFunctionClones \in Seq(Functions)
  BY DEF VarTypes
<1>2. 1 \in DOMAIN PendingFunctionClones /\ Head(PendingFunctionClones) = PendingFunctionClones[1]
  BY <1>1
<1>3. PendingFunctionClones[1] \in Functions
  BY <1>1, <1>2
<1>4. PendingFunctionClones[1] \in Cloned /\ slots[PendingFunctionClones[1]] = {}
  BY <1>2 DEF PendingOnce
<1>5. owner[PendingFunctionClones[1]] \in Regions
  BY <1>3, <1>4 DEF VarTypes, Cloned
<1>6. QED
  BY <1>2, <1>3, <1>4, <1>5 DEF IsPending

(* The clone that leaves the worklist is in it once.                       *)
LEMMA TailFacts ==
  ASSUME VarTypes, PendingOnce, PendingFunctionClones # <<>>,
         PendingFunctionClones' = Tail(PendingFunctionClones)
  PROVE  LET key == Head(PendingFunctionClones)
         IN  /\ PendingFunctionClones' \in Seq(Functions)
             /\ \A i \in DOMAIN PendingFunctionClones' :
                  /\ i + 1 \in DOMAIN PendingFunctionClones
                  /\ PendingFunctionClones'[i] = PendingFunctionClones[i + 1]
                  /\ PendingFunctionClones'[i] # key
             /\ \A i, j \in DOMAIN PendingFunctionClones' :
                  PendingFunctionClones'[i] = PendingFunctionClones'[j] => i = j
             /\ \A g : IsPending(g) /\ g # key => IsPending(g)'
<1> DEFINE P == PendingFunctionClones
<1>1. P \in Seq(Functions) /\ P # <<>>
  BY DEF VarTypes
<1>2. PICK n \in Nat \ {0} : n = Len(P)
  BY <1>1
<1>3. /\ P' \in Seq(Functions)
      /\ DOMAIN P = 1 .. n
      /\ DOMAIN P' = 1 .. n - 1
      /\ Head(P) = P[1]
  BY <1>1, <1>2
<1>4. \A i \in 1 .. n - 1 : P'[i] = P[i + 1] /\ i + 1 \in 1 .. n /\ i + 1 # 1
  BY <1>1, <1>2
<1>5. \A i, j \in 1 .. n : P[i] = P[j] => i = j
  BY <1>3 DEF PendingOnce
<1>6. ASSUME NEW i \in 1 .. n - 1 PROVE P'[i] # P[1]
  <2>1. P'[i] = P[i + 1] /\ i + 1 \in 1 .. n /\ i + 1 # 1
    BY <1>4
  <2>2. 1 \in 1 .. n
    OBVIOUS
  <2>3. QED
    BY <1>5, <2>1, <2>2
<1>7. \A i, j \in 1 .. n - 1 : P'[i] = P'[j] => i = j
  <2> SUFFICES ASSUME NEW i \in 1 .. n - 1, NEW j \in 1 .. n - 1, P'[i] = P'[j] PROVE i = j
    OBVIOUS
  <2>1. i + 1 = j + 1
    BY <1>4, <1>5
  <2>2. QED
    BY <2>1
<1>8. ASSUME NEW g, IsPending(g), g # P[1]
      PROVE  IsPending(g)'
  <2>1. PICK i \in 1 .. n : P[i] = g
    BY <1>3, <1>8 DEF IsPending
  <2>2. i - 1 \in 1 .. n - 1 /\ (i - 1) + 1 = i
    BY <1>8, <2>1
  <2>3. P'[i - 1] = g
    BY <1>4, <2>1, <2>2
  <2>4. QED
    BY <1>3, <2>2, <2>3 DEF IsPending
<1>9. QED
  BY <1>3, <1>4, <1>6, <1>7, <1>8

Counted(body, key, c, opened) ==
  [body EXCEPT !.counters = [r \in Regions |-> IF Home[r] = key THEN @[r] \cup {c} ELSE {}],
               !.starts = @ \cup opened,
               !.ends = @ \cup opened]

LEMMA CountedFacts ==
  ASSUME NEW body \in Code, NEW key \in Functions, NEW c \in Bodies,
         NEW opened \in SUBSET Regions
  PROVE  LET new == Counted(body, key, c, opened)
         IN  /\ new \in Code
             /\ new.calls = body.calls
             /\ new.starts = body.starts \cup opened
             /\ new.ends = body.ends \cup opened
<1>1. /\ [r \in Regions |-> IF Home[r] = key THEN body.counters[r] \cup {c} ELSE {}]
           \in [Regions -> SUBSET Bodies]
      /\ body.starts \cup opened \in SUBSET Regions
      /\ body.ends \cup opened \in SUBSET Regions
  BY DEF Code
<1>2. QED
  BY <1>1 DEF Counted, Code

LEMMA InstrumentCloneStep ==
  ASSUME IInv, NEW n \in 1 .. MaxEvents, InstrumentClone(n)
  PROVE  IInv'
<1> DEFINE R == RegionCounterEventMax
<1>1. /\ VarTypes /\ PendingOnce /\ PendingFunctionClones # <<>>
      /\ PendingFunctionClones' = Tail(PendingFunctionClones)
      /\ stage = "clones"
      /\ UNCHANGED <<stage, region, owner, CountArraySize>>
  BY DEF IInv, InstrumentClone
<1>2. PICK key \in Functions : key = Head(PendingFunctionClones)
  BY <1>1, HeadFacts
<1>3. key \in Cloned /\ IsPending(key) /\ slots[key] = {} /\ owner[key] \in Regions
  BY <1>1, <1>2, HeadFacts
<1>4. PICK opened \in SUBSET Regions : opened = IF key \in Outlined THEN {owner[key]} ELSE {}
  BY <1>3
<1>5. PICK c \in Bodies : c = CloneOf(key)
  BY BodiesApart
<1>6. /\ \A p \in Parts : ~Unprocessed(c, p)
      /\ slots' = [slots EXCEPT ![key] = R .. R + n - 1]
      /\ code' = [code EXCEPT ![c].counters = [r \in Regions |-> IF Home[r] = key THEN @[r] \cup {c} ELSE {}],
                              ![c].starts = @ \cup opened,
                              ![c].ends = @ \cup opened]
      /\ maxIndirect' = Max({R + n, maxIndirect})
      /\ RegionCounterEventMax' = IF R + n > maxIndirect THEN Max({R + n, R}) ELSE R
  BY <1>2, <1>4, <1>5 DEF InstrumentClone, CloneSlots, RaisedMax
<1>7. n \in Nat \ {0} /\ R \in Nat /\ maxIndirect \in Nat /\ maxIndirect <= R
  BY <1>1, CloningAssumption DEF VarTypes, IInv, WidthCoversSlots
<1>8. RegionCounterEventMax' = R + n /\ maxIndirect' = R + n
  <2>1. PICK o \in Nat : o = R + n
    BY <1>7
  <2>2. Max({o, maxIndirect}) = o /\ Max({o, R}) = o /\ o > maxIndirect
    BY <1>7, <2>1, MaxOfTwo
  <2>3. QED
    BY <1>6, <2>1, <2>2
<1>9. /\ code' \in [Bodies -> Code]
      /\ \A b \in Bodies : b # c => code'[b] = code[b]
      /\ code'[c].calls = code[c].calls
      /\ code'[c].starts = code[c].starts \cup opened
      /\ code'[c].ends = code[c].ends \cup opened
  <2>1. code \in [Bodies -> Code] /\ code[c] \in Code
    BY <1>1 DEF VarTypes
  <2>2. code' = [code EXCEPT ![c] = Counted(code[c], key, c, opened)]
    BY <1>6, <2>1 DEF Counted
  <2>3. Counted(code[c], key, c, opened) \in Code
    BY <2>1, CountedFacts
  <2>4. Counted(code[c], key, c, opened).calls = code[c].calls
    BY <2>1, CountedFacts
  <2>5. Counted(code[c], key, c, opened).starts = code[c].starts \cup opened
    BY <2>1, CountedFacts
  <2>6. Counted(code[c], key, c, opened).ends = code[c].ends \cup opened
    BY <2>1, CountedFacts
  <2>7. QED
    BY <2>1, <2>2, <2>3, <2>4, <2>5, <2>6
<1>10. /\ slots' \in [Regions \cup Functions -> SUBSET Nat]
       /\ slots'[key] = R .. R + n - 1
       /\ \A x \in Regions \cup Functions : x # key => slots'[x] = slots[x]
  <2>1. R .. R + n - 1 \in SUBSET Nat
    BY <1>7
  <2>2. slots \in [Regions \cup Functions -> SUBSET Nat]
    BY <1>1 DEF VarTypes
  <2>3. QED
    BY <1>6, <2>1, <2>2
<1>11. VarTypes'
  BY <1>1, <1>7, <1>8, <1>9, <1>10, TailFacts DEF VarTypes
<1>12. Cloned' = Cloned /\ Cloned \subseteq Functions
  BY <1>1 DEF Cloned
<1>13. PendingOnce'
  <2>1. /\ \A i \in DOMAIN PendingFunctionClones' :
             /\ i + 1 \in DOMAIN PendingFunctionClones
             /\ PendingFunctionClones'[i] = PendingFunctionClones[i + 1]
             /\ PendingFunctionClones'[i] # key
        /\ \A i, j \in DOMAIN PendingFunctionClones' :
             PendingFunctionClones'[i] = PendingFunctionClones'[j] => i = j
    BY <1>1, <1>2, TailFacts
  <2>2. \A i \in DOMAIN PendingFunctionClones' :
          /\ PendingFunctionClones'[i] \in Cloned'
          /\ slots'[PendingFunctionClones'[i]] = {}
    BY <1>1, <1>10, <1>12, <2>1 DEF PendingOnce
  <2>3. QED
    BY <2>1, <2>2 DEF PendingOnce
<1>14. OnlyClonesCount'
  BY <1>1, <1>3, <1>10, <1>12 DEF IInv, OnlyClonesCount
<1>15. \A x \in Regions \cup Functions : \A k \in slots[x] : k \in Nat /\ k < R
  BY <1>1 DEF IInv, WidthCoversSlots, VarTypes
<1>16. WidthCoversSlots'
  <2>1. \A x \in Regions \cup Functions : \A k \in slots'[x] : k < RegionCounterEventMax'
    <3> SUFFICES ASSUME NEW x \in Regions \cup Functions, NEW k \in slots'[x] PROVE k < RegionCounterEventMax'
      OBVIOUS
    <3>1. CASE x = key
      BY <1>7, <1>8, <1>10, <3>1
    <3>2. CASE x # key
      <4>1. k \in Nat /\ k < R
        BY <1>10, <1>15, <3>2
      <4>2. QED
        BY <1>7, <1>8, <4>1
    <3>3. QED
      BY <3>1, <3>2
  <2>2. QED
    BY <1>1, <1>7, <1>8, <2>1 DEF WidthCoversSlots
<1>17. ClonesCountApart'
  <2> SUFFICES ASSUME NEW f \in Functions, NEW x \in Regions \cup Functions, x # f
               PROVE  slots'[f] \cap slots'[x] = {}
    BY DEF ClonesCountApart
  <2>1. \A k \in slots'[key] : ~ k < R
    BY <1>7, <1>10
  <2>2. CASE f = key
    BY <1>10, <1>15, <2>1, <2>2
  <2>3. CASE x = key
    BY <1>10, <1>15, <2>1, <2>3
  <2>4. CASE f # key /\ x # key
    BY <1>10, <2>4 DEF IInv, ClonesCountApart
  <2>5. QED
    BY <2>2, <2>3, <2>4
<1>18. \A b \in Bodies : code'[b].calls = code[b].calls
  BY <1>9
<1>19. \A b \in Bodies, p \in Parts : Unprocessed(b, p)' <=> Unprocessed(b, p)
  BY <1>12, <1>18 DEF Unprocessed
<1>20. ClonesGetDone'
  <2> SUFFICES ASSUME NEW g \in Cloned
               PROVE  \/ IsPending(g)'
                      \/ slots'[g] # {} /\ \A p \in Parts : ~Unprocessed(CloneOf(g), p)'
    BY <1>1, <1>12 DEF ClonesGetDone
  <2>1. g \in Functions /\ CloneOf(g) \in Bodies
    BY <1>12, BodiesApart
  <2>2. CASE g = key
    <3>1. R \in slots'[g]
      BY <1>7, <1>10, <2>2
    <3>2. \A p \in Parts : ~Unprocessed(CloneOf(g), p)
      BY <1>5, <1>6, <2>2
    <3>3. QED
      BY <1>19, <2>1, <3>1, <3>2
  <2>3. CASE g # key /\ IsPending(g)
    <3>1. IsPending(g)'
      BY <1>1, <1>2, <2>3, TailFacts
    <3>2. QED
      BY <3>1
  <2>4. CASE g # key /\ slots[g] # {} /\ \A p \in Parts : ~Unprocessed(CloneOf(g), p)
    BY <1>10, <1>19, <2>1, <2>4
  <2>5. QED
    BY <2>2, <2>3, <2>4 DEF IInv, ClonesGetDone
<1>21. RegionsGetDone'
  BY <1>1, <1>19, HomeIsFunction, BodiesApart DEF IInv, RegionsGetDone
<1>22. \A f \in Functions : code'[Original(f)] = code[Original(f)]
  BY <1>5, <1>9, BodiesApart
<1>23. EventsOfOriginals'
  BY <1>1, <1>22 DEF IInv, EventsOfOriginals
<1>24. ClonesBalanced'
  BY <1>5, <1>9, BodiesApart DEF IInv, ClonesBalanced
<1>25. OutsideCallsKept'
  BY <1>22 DEF IInv, OutsideCallsKept
<1>26. OnlyForksAreLeft'
  BY <1>18 DEF IInv, OnlyForksAreLeft
<1>27. QED
  BY <1>11, <1>13, <1>14, <1>16, <1>17, <1>20, <1>21, <1>23, <1>24, <1>25, <1>26 DEF IInv

LEMMA SizeArraysStep == IInv /\ SizeArrays => IInv'
<1> SUFFICES ASSUME IInv, SizeArrays PROVE IInv'
  OBVIOUS
<1>1. /\ stage = "clones" /\ stage' = "done" /\ PendingFunctionClones = <<>>
      /\ CountArraySize' = Max({maxIndirect, RegionCounterEventMax})
      /\ UNCHANGED <<region, code, owner, PendingFunctionClones, slots,
                     RegionCounterEventMax, maxIndirect>>
  BY DEF SizeArrays
<1>2. CountArraySize' = RegionCounterEventMax /\ RegionCounterEventMax \in Nat
  <2>1. maxIndirect \in Nat /\ RegionCounterEventMax \in Nat
        /\ maxIndirect <= RegionCounterEventMax
    BY DEF IInv, VarTypes, WidthCoversSlots
  <2>2. QED
    BY <1>1, <2>1, MaxOfTwo
<1>3. VarTypes' /\ WidthCoversSlots'
  BY <1>1, <1>2 DEF IInv, VarTypes, WidthCoversSlots
<1>4. PendingOnce' /\ OnlyClonesCount' /\ ClonesCountApart' /\ ClonesGetDone' /\ RegionsGetDone'
  BY <1>1 DEF IInv, PendingOnce, OnlyClonesCount, ClonesCountApart, ClonesGetDone,
              RegionsGetDone, Cloned, IsPending, Unprocessed
<1>5. EventsOfOriginals' /\ ClonesBalanced' /\ OutsideCallsKept' /\ OnlyForksAreLeft'
  BY <1>1 DEF IInv, EventsOfOriginals, ClonesBalanced, OutsideCallsKept, OnlyForksAreLeft
<1>6. QED
  BY <1>3, <1>4, <1>5 DEF IInv

-----------------------------------------------------------------------------
LEMMA StutterStep == IInv /\ UNCHANGED vars => IInv'
<1> SUFFICES ASSUME IInv, UNCHANGED vars PROVE IInv'
  OBVIOUS
<1>1. UNCHANGED <<stage, region, code, owner, PendingFunctionClones, slots,
                  RegionCounterEventMax, maxIndirect, CountArraySize>>
  BY DEF vars
<1>2. Cloned' = Cloned
  BY <1>1 DEF Cloned
<1>3. VarTypes' /\ WidthCoversSlots' /\ PendingOnce' /\ OnlyClonesCount' /\ ClonesCountApart'
  BY <1>1, <1>2 DEF IInv, VarTypes, WidthCoversSlots, PendingOnce, OnlyClonesCount, ClonesCountApart
<1>4. ClonesGetDone' /\ RegionsGetDone'
  BY <1>1, <1>2 DEF IInv, ClonesGetDone, RegionsGetDone, IsPending, Unprocessed
<1>5. EventsOfOriginals' /\ ClonesBalanced' /\ OutsideCallsKept' /\ OnlyForksAreLeft'
  BY <1>1 DEF IInv, EventsOfOriginals, ClonesBalanced, OutsideCallsKept, OnlyForksAreLeft
<1>6. QED
  BY <1>3, <1>4, <1>5 DEF IInv

LEMMA NextStep == IInv /\ [Next]_vars => IInv'
<1> SUFFICES ASSUME IInv, [Next]_vars PROVE IInv'
  OBVIOUS
<1>1. ASSUME NEW f \in Functions, NEW form \in Forms, CloneRegionCall(f, form) PROVE IInv'
  <2>1. /\ Home[region] \in Functions /\ region \in Regions /\ region \in Parts
        /\ Original(Home[region]) \in Bodies
    BY HomeIsFunction, BodiesApart DEF IInv, VarTypes
  <2>2. QED
    BY <1>1, <2>1, CallStep DEF CloneRegionCall
<1>2. ASSUME NEW p \in Parts, NEW f \in Functions, NEW form \in Forms, CloneNestedCall(p, f, form)
      PROVE  IInv'
  <2>1. PICK key \in Functions : /\ key = Head(PendingFunctionClones)
                                 /\ IsPending(key)
                                 /\ owner[key] \in Regions
                                 /\ CloneOf(key) \in Bodies
    BY <1>2, HeadFacts, BodiesApart DEF IInv, CloneNestedCall
  <2>2. QED
    BY <1>2, <2>1, CallStep DEF CloneNestedCall
<1>3. QED
  BY <1>1, <1>2, NextRegionStep, InstrumentRegionStep, InstrumentCloneStep, SizeArraysStep,
     StutterStep
  DEF Next, Finished

(* Whatever the module, its regions and its calls, the pass keeps IInv.    *)
THEOREM CloningInvariance == Spec => []IInv
BY InitIInv, NextStep, PTL DEF Spec

-----------------------------------------------------------------------------
(* The worklist holds clones only, each once, and none that has been       *)
(* instrumented: so no clone is instrumented twice by the third loop.      *)
THEOREM CloningTypeCorrect == Spec => []TypeOK
<1>1. IInv => TypeOK
  BY DEF IInv, TypeOK, VarTypes, PendingOnce, Cloned
<1>2. QED
  BY <1>1, CloningInvariance, PTL

(* No counter index of a clone is one of a region's or of another clone's, *)
(* and all indices fit the row width the arrays are allocated with.        *)
THEOREM SlotsAreApart == Spec => []SlotsApart
<1>1. IInv => SlotsApart
  <2> SUFFICES ASSUME IInv PROVE SlotsApart
    OBVIOUS
  <2>1. DOMAIN slots = Regions \cup Functions
    BY DEF IInv, VarTypes
  <2>2. QED
    BY <2>1 DEF IInv, WidthCoversSlots, ClonesCountApart, SlotsApart
<1>2. QED
  BY <1>1, CloningInvariance, PTL

(* With the -functionclone option, once the pass is done every call made   *)
(* in a region or in a clone goes to an instrumented clone, or is the fork *)
(* of a microtask that the pass skipped or did not rewrite, and in the     *)
(* second case the microtask has a clone, instrumented too.  The worklist  *)
(* misses no call, however deep the call graph and however it recurses.    *)
THEOREM CloningClosed ==
  ASSUME ApplyFunctionCloning
  PROVE  Spec => []ClonesClosed
<1>1. ASSUME IInv, NEW b \in Bodies, NEW p \in Parts, ~Unprocessed(b, p)
      PROVE  OnlyForksLeft(b, p)
  <2> SUFFICES ASSUME NEW f \in Functions, NEW form \in Forms,
                      <<Original(f), form>> \in code[b].calls[p]
               PROVE  f \in Outlined /\ (form = "skipped" \/ (form = "kept" /\ f \in Cloned))
    BY DEF OnlyForksLeft
  <2>1. form # "replaced" /\ (form = "kept" => f \in Cloned)
    BY <1>1 DEF Unprocessed
  <2>2. f \in Outlined
    BY <1>1, <2>1 DEF IInv, OnlyForksAreLeft
  <2>3. QED
    BY <2>1, <2>2 DEF Forms
<1>2. IInv => ClonesClosed
  <2> SUFFICES ASSUME IInv, stage = "done"
               PROVE  /\ \A r \in Regions : OnlyForksLeft(Original(Home[r]), r)
                      /\ \A f \in Cloned : /\ slots[f] # {}
                                           /\ \A p \in Parts : OnlyForksLeft(CloneOf(f), p)
    BY DEF ClonesClosed
  <2>1. \A f : ~IsPending(f)
    BY DEF IInv, ClonesGetDone, IsPending
  <2>2. \A r \in Regions : /\ Original(Home[r]) \in Bodies /\ r \in Parts
                           /\ ~Unprocessed(Original(Home[r]), r)
    BY HomeIsFunction, BodiesApart DEF IInv, RegionsGetDone
  <2>3. \A f \in Cloned : /\ CloneOf(f) \in Bodies /\ slots[f] # {}
                          /\ \A p \in Parts : ~Unprocessed(CloneOf(f), p)
    BY <2>1, BodiesApart DEF IInv, ClonesGetDone, Cloned
  <2>4. QED
    BY <1>1, <2>2, <2>3
<1>3. QED
  BY <1>2, CloningInvariance, PTL

(* A call made outside every region keeps its original callee.             *)
THEOREM OutsideCallsAreKept == Spec => []OutsideCallsKept
<1>1. IInv => OutsideCallsKept
  BY DEF IInv
<1>2. QED
  BY <1>1, CloningInvariance, PTL

(* A clone has as many region entries as exits, of the same regions,       *)
(* whether it was cloned before or after its own regions got their entries.*)
THEOREM ClonesAreBalanced == Spec => []ClonesBalanced
<1>1. IInv => ClonesBalanced
  BY DEF IInv
<1>2. QED
  BY <1>1, CloningInvariance, PTL

=============================================================================
