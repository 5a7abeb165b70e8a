--------------------------- MODULE FunctionCloning ---------------------------
(***************************************************************************)
(* The module pass after region discovery (zray_pass.cc, runOnModule): it  *)
(* clones every function called from a region, instruments the regions,    *)
(* then instruments the clones through a worklist that grows while it is   *)
(* drained, and sizes the counter array.                                   *)
(*                                                                         *)
(* A function's code is its calls, region by region and outside regions,   *)
(* its region entry and exit events, and who put counters in each region's *)
(* blocks.  Control flow inside a function is left out: an instrumented    *)
(* region or clone takes 1..MaxEvents counters.  Callees without a body    *)
(* (declarations, intrinsics, function pointers) are never cloned and do   *)
(* not appear, nor does the runtime's exit handler, which is passed over   *)
(* by name.  The exception is __kmpc_fork_call, which stands here for a    *)
(* call of the microtask it is given.                                      *)
(***************************************************************************)
EXTENDS Integers, Sequences, FiniteSets, FiniteSetsExt

CONSTANTS
  Functions,            \* the functions the module defines
  Outlined,             \* those that are OpenMP microtasks (".omp...")
  ROI_Count,            \* regions found by runOnFunction
  Home,                 \* Home[r] is the function that holds region r
  Outside,              \* the part of a function that is in no region
  NoRegion,             \* not a region
  ApplyFunctionCloning, \* the -functionclone option
  MaxEvents,            \* bound: counters of one region or clone
  MaxCalls              \* bound: call sites of the program

Regions == 0 .. ROI_Count - 1
Parts == Regions \cup {Outside}
Original(f) == <<f, "original">>
CloneOf(f) == <<f, "clone">>
Bodies == Functions \X {"original", "clone"}

\* What the pass can do with a call.  "replaced": name the clone in it; a call
\* by name, or a fork whose microtask is a constant expression.  "kept": make
\* the clone only; a fork whose microtask is found, but not as a constant
\* expression.  "skipped": nothing; a fork whose printed form has no ".omp"
\* name, or none the module has.  How a fork prints is LLVM's affair.
Forms == {"replaced", "kept", "skipped"}

ASSUME CloningAssumption ==
  /\ Outlined \subseteq Functions
  /\ ROI_Count \in Nat \ {0}
  /\ Home \in [Regions -> Functions]
  /\ Functions \cap Regions = {}  \* both index slots
  /\ Outside \notin Regions
  /\ NoRegion \notin Regions
  /\ ApplyFunctionCloning \in BOOLEAN
  /\ MaxEvents \in Nat \ {0}

VARIABLES
  stage,                 \* the loop of runOnModule the pass is in
  region,                \* its index into PRList
  code,                  \* the module: the code of each body
  owner,                 \* CloneFunctionMap: the region each clone was made for
  PendingFunctionClones,
  slots,                 \* the counter indices each region and clone was given
  RegionCounterEventMax,
  maxIndirect,
  CountArraySize

vars == <<stage, region, code, owner, PendingFunctionClones, slots,
          RegionCounterEventMax, maxIndirect, CountArraySize>>

\* Where a call can stand: in a region of its function, or outside them.
Sites == {s \in Functions \X Parts : s[2] \in Regions => Home[s[2]] = s[1]}

\* The calls a program may have, as <<site, callee, form>>.
Calls == {c \in Sites \X Functions \X Forms : c[3] # "replaced" => c[2] \in Outlined}

\* Discovery has lowered the ROI end markers to exit calls; entries come later.
Parsed(f, calls) ==
  [calls    |-> [p \in Parts |-> {<<Original(c[2]), c[3]>> : c \in {d \in calls : d[1] = <<f, p>>}}],
   starts   |-> {},
   ends     |-> {r \in Regions : Home[r] = f},
   counters |-> [r \in Regions |-> {}]]

NoCode ==
  [calls    |-> [p \in Parts |-> {}],
   starts   |-> {},
   ends     |-> {},
   counters |-> [r \in Regions |-> {}]]

Init ==
  /\ stage = "clone"
  /\ region = 0
  /\ \E n \in 0 .. MaxCalls : \E calls \in kSubset(n, Calls) :
       code = [b \in Bodies |-> IF b[2] = "original" THEN Parsed(b[1], calls) ELSE NoCode]
  /\ owner = [f \in Functions |-> NoRegion]
  /\ PendingFunctionClones = <<>>
  /\ slots = [x \in Regions \cup Functions |-> {}]
  /\ RegionCounterEventMax = 0
  /\ maxIndirect = 0
  /\ CountArraySize = 0

-----------------------------------------------------------------------------
(* Cloning a callee.                                                       *)

\* Mutated form: CloneFunctionMap is not looked up.
NoneCloned == {}

Cloned == {f \in Functions : owner[f] # NoRegion}

\* Mutated forms: clones keep the exits they carry; every call in the body is
\* redirected; only calls seen in the first loop are queued.
KeptEvents(body) == body

AllRetargeted(body, p, f, form) ==
  [body EXCEPT !.calls = [q \in Parts |-> IF <<Original(f), form>> \in @[q]
                                          THEN (@[q] \ {<<Original(f), form>>}) \cup {<<CloneOf(f), form>>}
                                          ELSE @[q]]]

QueuedFirstLoop(f) ==
  IF stage = "clone" THEN Append(PendingFunctionClones, f) ELSE PendingFunctionClones

\* A clone that carries exits but no entry loses them: it is reached only
\* from inside a region (stripTimingEvents).
Stripped(body) ==
  IF body.starts # {} \/ body.ends = {} THEN body ELSE [body EXCEPT !.ends = {}]

\* The call instruction now names the clone, if the clone can be put in it;
\* other calls of f are untouched.
Retargeted(body, p, f, form) ==
  IF form = "replaced"
  THEN [body EXCEPT !.calls[p] = (@ \ {<<Original(f), form>>}) \cup {<<CloneOf(f), form>>}]
  ELSE body

Queued(f) == Append(PendingFunctionClones, f)

\* A call in part p of body b, made to a function that is not itself a clone
\* and not skipped, is sent to that function's clone, if that can be; the clone
\* is made at the first such call in any case.
processCallInst(b, p, f, form, r) ==
  /\ ApplyFunctionCloning
  /\ form # "skipped"
  /\ <<Original(f), form>> \in code[b].calls[p]
  /\ IF f \in Cloned
     THEN /\ code' = [code EXCEPT ![b] = Retargeted(@, p, f, form)]
          /\ UNCHANGED <<owner, PendingFunctionClones>>
     ELSE /\ code' = [code EXCEPT ![CloneOf(f)] = Stripped(code[Original(f)]),
                                  ![b] = Retargeted(@, p, f, form)]
          /\ owner' = [owner EXCEPT ![f] = r]
          /\ PendingFunctionClones' = Queued(f)

\* A call the pass has not come to: all others stay as they are.
Unprocessed(b, p) ==
  \E f \in Functions :
    \/ <<Original(f), "replaced">> \in code[b].calls[p]
    \/ f \notin Cloned /\ <<Original(f), "kept">> \in code[b].calls[p]

-----------------------------------------------------------------------------
(* The first loop: the calls of each region's blocks.                      *)

CloneRegionCall(f, form) ==
  /\ stage = "clone"
  /\ processCallInst(Original(Home[region]), region, f, form, region)
  /\ UNCHANGED <<stage, region, slots, RegionCounterEventMax, maxIndirect, CountArraySize>>

NextRegion ==
  /\ stage = "clone"
  /\ ApplyFunctionCloning => ~Unprocessed(Original(Home[region]), region)
  /\ IF region + 1 < ROI_Count
     THEN region' = region + 1 /\ UNCHANGED stage
     ELSE region' = 0 /\ stage' = "regions"
  /\ UNCHANGED <<code, owner, PendingFunctionClones, slots, RegionCounterEventMax,
                 maxIndirect, CountArraySize>>

-----------------------------------------------------------------------------
(* The second loop: InstrumentPragmaRegion on the regions themselves.  The *)
(* calls it meets again have been dealt with.  The entry event comes last. *)

\* Each region counts its own events from 0.
RegionSlots(n) == 0 .. n - 1

InstrumentRegion(n) ==
  LET host == Original(Home[region]) IN
  /\ stage = "regions"
  /\ slots' = [slots EXCEPT ![region] = RegionSlots(n)]
  /\ code' = [code EXCEPT ![host].counters[region] = @ \cup {host},
                          ![host].starts = @ \cup {region}]
  /\ RegionCounterEventMax' = Max({n, RegionCounterEventMax})
  /\ IF region + 1 < ROI_Count
     THEN region' = region + 1 /\ UNCHANGED stage
     ELSE region' = 0 /\ stage' = "clones"
  /\ UNCHANGED <<owner, PendingFunctionClones, maxIndirect, CountArraySize>>

-----------------------------------------------------------------------------
(* The third loop: the pending clones, oldest first.  Each is instrumented *)
(* for the region it was first made for, and its own calls are cloned.     *)

CloneNestedCall(p, f, form) ==
  /\ stage = "clones"
  /\ PendingFunctionClones # <<>>
  /\ LET key == Head(PendingFunctionClones)
     IN  processCallInst(CloneOf(key), p, f, form, owner[key])
  /\ UNCHANGED <<stage, region, slots, RegionCounterEventMax, maxIndirect, CountArraySize>>

\* Mutated form: the width reached by earlier clones is forgotten.
KeptMax(offset) == RegionCounterEventMax

\* The first counter index no region and no earlier clone uses.
RaisedMax(offset) ==
  IF offset > maxIndirect THEN Max({offset, RegionCounterEventMax}) ELSE RegionCounterEventMax

\* A clone counts from the first free index.
CloneSlots(n) == RegionCounterEventMax .. RegionCounterEventMax + n - 1

InstrumentClone(n) ==
  /\ stage = "clones"
  /\ PendingFunctionClones # <<>>
  /\ LET key    == Head(PendingFunctionClones)
         c      == CloneOf(key)
         opened == IF key \in Outlined THEN {owner[key]} ELSE {}
         offset == RegionCounterEventMax + n  \* IndirectFunctionCounterOffset when done
     IN  /\ \A p \in Parts : ~Unprocessed(c, p)
         /\ slots' = [slots EXCEPT ![key] = CloneSlots(n)]
         /\ code' = [code EXCEPT ![c].counters = [r \in Regions |-> IF Home[r] = key THEN @[r] \cup {c} ELSE {}],
                                 ![c].starts = @ \cup opened,
                                 ![c].ends = @ \cup opened]
         /\ maxIndirect' = Max({offset, maxIndirect})
         /\ RegionCounterEventMax' = RaisedMax(offset)
  /\ PendingFunctionClones' = Tail(PendingFunctionClones)
  /\ UNCHANGED <<stage, region, owner, CountArraySize>>

\* The width of the counter array is known once the worklist is empty.
SizeArrays ==
  /\ stage = "clones"
  /\ PendingFunctionClones = <<>>
  /\ CountArraySize' = Max({maxIndirect, RegionCounterEventMax})
  /\ stage' = "done"
  /\ UNCHANGED <<region, code, owner, PendingFunctionClones, slots,
                 RegionCounterEventMax, maxIndirect>>

\* The pass is over.
Finished == stage = "done" /\ UNCHANGED vars

Next ==
  \/ Finished
  \/ NextRegion
  \/ SizeArrays
  \/ \E f \in Functions, form \in Forms : CloneRegionCall(f, form)
  \/ \E p \in Parts, f \in Functions, form \in Forms : CloneNestedCall(p, f, form)
  \/ \E n \in 1 .. MaxEvents : InstrumentRegion(n) \/ InstrumentClone(n)

Spec == Init /\ [][Next]_vars

-----------------------------------------------------------------------------
(* Properties.                                                             *)

\* Type invariant, with what runOnModule keeps between its containers: a
\* function is pending only if it was cloned, once, and not yet instrumented.
TypeOK ==
  /\ stage \in {"clone", "regions", "clones", "done"}
  /\ region \in Regions
  /\ owner \in [Functions -> Regions \cup {NoRegion}]
  /\ \A i \in DOMAIN PendingFunctionClones :
       /\ owner[PendingFunctionClones[i]] # NoRegion
       /\ slots[PendingFunctionClones[i]] = {}
       /\ \A j \in DOMAIN PendingFunctionClones :
            PendingFunctionClones[i] = PendingFunctionClones[j] => i = j

\* A clone runs under whichever region is open, so its counter indices are
\* its own: no region and no other clone was given one of them, and all fit
\* the row width the array is allocated with (zray_pass.cc 698, 718-751).
SlotsApart ==
  /\ \A f \in Functions, x \in Regions \cup Functions :
       x # f => slots[f] \cap slots[x] = {}
  /\ stage = "done" => \A x \in DOMAIN slots : \A s \in slots[x] : s < CountArraySize

\* Every call that still names an original is a fork: one that was skipped, or
\* one whose microtask has a clone that could not be put in the call.
OnlyForksLeft(b, p) ==
  \A f \in Functions, form \in Forms :
    <<Original(f), form>> \in code[b].calls[p] =>
      f \in Outlined /\ (form = "skipped" \/ (form = "kept" /\ f \in Cloned))

\* Readme: functions called from a region are cloned so that their traffic is
\* attributed to it.  When the pass ends, each clone has counters, and no call
\* made in a region's blocks or anywhere in a clone reaches uninstrumented
\* code, except by the forks of microtasks the pass warns of and skips
\* (zray_pass.cc 223-242) or does not rewrite (259-262).
ClonesClosed ==
  stage = "done" =>
    /\ \A r \in Regions : OnlyForksLeft(Original(Home[r]), r)
    /\ \A f \in Cloned : slots[f] # {} /\ \A p \in Parts : OnlyForksLeft(CloneOf(f), p)

\* The original is also reached from outside any region (zray_pass.cc
\* 308-311), so a call made outside one is never sent to a clone.
OutsideCallsKept ==
  \A f, g \in Functions, form \in Forms : <<CloneOf(g), form>> \notin code[Original(f)].calls[Outside]

\* A clone opens a region exactly when it closes it, so that running it does
\* not close a region of its caller (zray_codegen.cc 379-390).
ClonesBalanced ==
  \A f \in Functions : code[CloneOf(f)].starts = code[CloneOf(f)].ends

\* "A cloned or indirectly-called function body is instrumented once"
\* (zray_dyn.cc 140-141): no block of a clone carries counters twice.  This
\* fails when a function that holds a region is first called from a clone,
\* being cloned after it was instrumented.
ClonedBodyInstrumentedOnce ==
  \A f \in Functions, r \in Regions : Cardinality(code[CloneOf(f)].counters[r]) <= 1
=============================================================================
