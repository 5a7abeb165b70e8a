-------------------------- MODULE RegionAttribution --------------------------
(***************************************************************************)
(* What the region runtime promises a thread whose regions nest: an access *)
(* is credited to the innermost open region whose invocation is sampled,   *)
(* and to no region when there is none; an invocation of a region lasts    *)
(* from its outermost entry to the matching exit, however often the region *)
(* is re-entered in between.                                               *)
(***************************************************************************)
EXTENDS Naturals, SequencesExt, FiniteSetsExt

CONSTANTS Regions, Slots, Scales, SamplingPeriod

VARIABLES
  entered,      (* the regions entered and not left, innermost last          *)
  invocations,  (* completed invocations of each region                      *)
  counts,       (* counts[r][s]: what slot s of region r has been credited   *)
  parity        (* alternates with every access, so that an access that is   *)
                (* dropped is no stuttering step                             *)

vars == <<entered, invocations, counts, parity>>

IsSampled(r) == SamplingPeriod # 0 /\ invocations[r] % SamplingPeriod = 0

(* The positions at which a region was entered for the first time: the     *)
(* later ones are re-entries of a region that is already open.             *)
OutermostEntries ==
  {i \in DOMAIN entered : \A j \in 1 .. i - 1 : entered[j] # entered[i]}

Crediting == {i \in OutermostEntries : IsSampled(entered[i])}

Owner == entered[Max(Crediting)]

Init ==
  /\ entered = <<>>
  /\ invocations = [r \in Regions |-> 0]
  /\ counts = [r \in Regions |-> [s \in Slots |-> 0]]
  /\ parity = 0

Enter(r) ==
  /\ entered' = Append(entered, r)
  /\ UNCHANGED <<invocations, counts, parity>>

Leave ==
  /\ entered # <<>>
  /\ entered' = Front(entered)
  /\ invocations' =
       IF Len(entered) \in OutermostEntries
         THEN [invocations EXCEPT ![Last(entered)] = @ + 1]
         ELSE invocations
  /\ UNCHANGED <<counts, parity>>

Access(s, n) ==
  /\ counts' = IF Crediting = {}
                 THEN counts
                 ELSE [counts EXCEPT ![Owner][s] = @ + n]
  /\ parity' = 1 - parity
  /\ UNCHANGED <<entered, invocations>>

Next ==
  \/ \E r \in Regions : Enter(r)
  \/ Leave
  \/ \E s \in Slots, n \in Scales : Access(s, n)

Spec == Init /\ [][Next]_vars

=============================================================================
