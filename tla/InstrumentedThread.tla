-------------------------- MODULE InstrumentedThread --------------------------
(***************************************************************************)
(* One thread of an instrumented program whose regions nest: each END      *)
(* marker closes the region entered last.  Regions nest through calls and  *)
(* recursion, so the same region may be on the stack several times.        *)
(*                                                                         *)
(* The thread drives the runtime of RegionRuntime, and together they       *)
(* implement RegionAttribution.                                            *)
(***************************************************************************)
EXTENDS RegionRuntime, SequencesExt

CONSTANT MaxFrames  (* bound: region entries on the call stack *)

VARIABLES
  frames,  (* the regions entered and not left, innermost last *)
  inside,  (* history: time the thread has spent inside each region *)
  parity   (* history: alternates with every access *)

threadVars == <<vars, frames, inside, parity>>

ThreadInit ==
  /\ Init
  /\ frames = <<>>
  /\ inside = [r \in Regions |-> 0]
  /\ parity = 0

(* startTimingEvent stands first in the region's begin block.              *)
Enter(r) ==
  /\ Len(frames) < MaxFrames
  /\ MayEnter(r)
  /\ startTimingEvent(r)
  /\ frames' = Append(frames, r)
  /\ UNCHANGED <<inside, parity>>

(* endTimingEvent stands where the END marker stood, or before the return  *)
(* of an OpenMP microtask.                                                 *)
Leave ==
  /\ frames # <<>>
  /\ endTimingEvent(Last(frames))
  /\ frames' = Front(frames)
  /\ UNCHANGED <<inside, parity>>

(* An instrumented block runs.                                             *)
Access(s, sf) ==
  /\ MayCount(s, sf)
  /\ incrementCounterArray(s, sf)
  /\ parity' = 1 - parity
  /\ UNCHANGED <<frames, inside>>

Pass ==
  /\ Tick
  /\ inside' = [r \in Regions |-> IF r \in Range(frames) THEN inside[r] + 1
                                                         ELSE inside[r]]
  /\ UNCHANGED <<frames, parity>>

ThreadNext ==
  \/ \E r \in Regions : Enter(r)
  \/ Leave
  \/ \E s \in Slots, sf \in Scales : Access(s, sf)
  \/ Pass

ThreadSpec == ThreadInit /\ [][ThreadNext]_threadVars

-----------------------------------------------------------------------------
Attribution ==
  INSTANCE RegionAttribution WITH
    SamplingPeriod <- SAMPLING_PERIOD,
    entered        <- frames,
    invocations    <- Count,
    counts         <- [r \in Regions |->
                         [s \in Slots |-> CounterArray[RowBase(r) + s]]]

(* The rank of a frame among the outermost entries below it: the entry of  *)
(* RegionSaveStack that its region's outermost entry filled.               *)
SaveIndex(i) == Cardinality({j \in Attribution!OutermostEntries : j < i})

(* The counting state the frames below i call for: off when none of them   *)
(* is sampled, else on and in the row of the innermost sampled one.        *)
CountingBelow(i) ==
  LET credited == {j \in Attribution!Crediting : j < i}
  IN  [disable |-> credited = {},
       row     |-> IF credited = {} THEN 0
                                    ELSE RowBase(frames[Max(credited)])]

Calls(save, want) ==
  /\ save.disable = want.disable
  /\ ~ want.disable => save.base = want.row

(* A region's depth is the number of its entries on the call stack: no     *)
(* entry or exit is lost or counted twice through recursion.               *)
DepthsMatchFrames ==
  \A r \in Regions :
    RegionDepth[r] = Cardinality({i \in DOMAIN frames : frames[i] = r})

(* The counting state in force is the one the whole call stack calls for,  *)
(* and each saved entry is the one its enclosing frames call for, so every *)
(* exit hands counting back to the right row at every level ("hands        *)
(* control back rather than leaving the outer region attributing into the  *)
(* inner one's row").                                                      *)
ExitsHandCountingBack ==
  /\ Calls([base |-> counterBaseIndex, disable |-> globalDisable],
           CountingBelow(Len(frames) + 1))
  /\ \A i \in Attribution!OutermostEntries :
       Calls(RegionSaveStack[SaveIndex(i)], CountingBelow(i))

(* The thread and its runtime credit exactly the accesses RegionAttribution*)
(* credits, to the same region: re-entry, nesting and sampling included.   *)
ImplementsAttribution == Attribution!Spec

(* With every invocation sampled, the elapsed time reported for a region   *)
(* and its running measurement are the time spent inside it: recursion     *)
(* neither restarts the clock nor counts an interval twice.                *)
ElapsedIsTimeInside ==
  SAMPLING_PERIOD = 1 =>
    \A r \in Regions :
      inside[r] = TotalTimeElapsed[r]
                    + IF RegionDepth[r] > 0 THEN now - StartTime[r] ELSE 0

=============================================================================
