-------------------------- MODULE HostMonitor_proofs --------------------------
(***************************************************************************)
(* Proofs about HostMonitor, for any number of threads and ids: whenever   *)
(* the poll thread reads counters they are those of a live thread, an      *)
(* entry of the list never outlives its thread, and no report is lost.     *)
(***************************************************************************)
EXTENDS HostMonitor, FiniteSetTheorems, TLAPS

(* From its registration to its removal, a thread is on the list.          *)
Listed == {"registered", "ending", "reporting", "reported"}

ListTypes ==
  /\ stage \in [Threads -> Stages]
  /\ id \in [Threads -> Ids \cup {Nobody}]
  /\ registered_threads \in [Ids -> Threads \cup {Nobody}]
  /\ toRead \in SUBSET Ids

(* The operating system: threads alive together have different ids.        *)
LiveIdsDiffer ==
  /\ \A t \in Threads : Live(t) => id[t] \in Ids
  /\ \A t, u \in Threads : Live(t) /\ Live(u) /\ id[t] = id[u] => t = u

(* An entry belongs to a thread that has yet to take itself off the list.  *)
EntriesAreListed ==
  \A i \in RegisteredIds :
    /\ stage[registered_threads[i]] \in Listed
    /\ id[registered_threads[i]] = i

(* The poll thread has the mutex as long as it walks the list; what it has *)
(* still to copy stays listed.                                             *)
PollHoldsList ==
  /\ host_interface_mutex = Poller <=> poll = "read"
  /\ host_interface_mutex \in {Nobody, Poller}
  /\ poll = "read" => \A i \in toRead : IsRegistered(i)

ListInv ==
  /\ ListTypes
  /\ LiveIdsDiffer
  /\ EntriesAreListed
  /\ PollHoldsList

listVars == <<stage, id, registered_threads, host_interface_mutex, poll, toRead>>

USE DEF Stages, Live, Moves, IsRegistered, RegisteredIds, Free

-----------------------------------------------------------------------------
LEMMA ListInit == Init => ListInv
BY HostAssumption
DEF Init, ListInv, ListTypes, LiveIdsDiffer, EntriesAreListed, PollHoldsList

LEMMA ListUnchanged == ListInv /\ UNCHANGED listVars => ListInv'
BY DEF ListInv, ListTypes, LiveIdsDiffer, EntriesAreListed, PollHoldsList, listVars

(* The new thread has an id no live thread has, and is not listed.         *)
LEMMA ListStart ==
  ASSUME ListInv, NEW t \in Threads, StartThread(t)
  PROVE  ListInv'
<1> USE DEF ListInv
<1>1. PICK i \in Ids : /\ \A u \in Threads : Live(u) => id[u] # i
                       /\ id' = [id EXCEPT ![t] = i]
  BY DEF StartThread
<1>2. /\ stage[t] = "unborn"
      /\ stage' = [stage EXCEPT ![t] = "outside"]
      /\ UNCHANGED <<registered_threads, host_interface_mutex, poll, toRead>>
  BY DEF StartThread, pollVars
<1>3. ListTypes'
  BY <1>1, <1>2 DEF ListTypes
<1>4. LiveIdsDiffer'
  BY <1>1, <1>2 DEF ListTypes, LiveIdsDiffer
<1>5. EntriesAreListed'
  BY <1>1, <1>2 DEF ListTypes, EntriesAreListed, Listed
<1>6. PollHoldsList'
  BY <1>2 DEF PollHoldsList
<1>7. QED
  BY <1>3, <1>4, <1>5, <1>6

(* An entry found under the thread's id would be its own, and it has none. *)
LEMMA ListRegister ==
  ASSUME ListInv, NEW t \in Threads, RegisterThread(t)
  PROVE  ListInv'
<1> USE DEF ListInv
<1>1. /\ stage[t] = "outside"
      /\ stage' = [stage EXCEPT ![t] = "registered"]
      /\ host_interface_mutex = Nobody
      /\ UNCHANGED <<id, host_interface_mutex, poll, toRead>>
  BY DEF RegisterThread, pollVars
<1>2. id[t] \in Ids /\ id[t] \in Ids \cup {Nobody}
  BY <1>1 DEF LiveIdsDiffer
<1>3. ~ IsRegistered(id[t])
  <2> SUFFICES ASSUME IsRegistered(id[t]) PROVE FALSE
    OBVIOUS
  <2> DEFINE u == registered_threads[id[t]]
  <2>1. u \in Threads
    BY <1>2 DEF ListTypes
  <2>2. stage[u] \in Listed /\ id[u] = id[t]
    BY <1>2 DEF EntriesAreListed
  <2>3. u = t
    BY <1>1, <2>1, <2>2 DEF LiveIdsDiffer, Listed
  <2>4. QED
    BY <1>1, <2>2, <2>3 DEF Listed
<1>4. registered_threads' = [registered_threads EXCEPT ![id[t]] = t]
  BY <1>3 DEF RegisterThread
<1>5. ListTypes'
  BY <1>1, <1>4 DEF ListTypes
<1>6. LiveIdsDiffer'
  BY <1>1 DEF ListTypes, LiveIdsDiffer
<1>7. EntriesAreListed'
  BY <1>1, <1>2, <1>4 DEF ListTypes, EntriesAreListed, Listed
<1>8. PollHoldsList'
  BY <1>1, HostAssumption DEF PollHoldsList
<1>9. QED
  BY <1>5, <1>6, <1>7, <1>8

(* A thread that ends without having registered has no entry.              *)
LEMMA ListEnd ==
  ASSUME ListInv, NEW t \in Threads, EndThread(t)
  PROVE  ListInv'
<1> USE DEF ListInv
<1>1. UNCHANGED <<registered_threads, host_interface_mutex, poll, toRead>>
  BY DEF EndThread, pollVars
<1>2. CASE Moves(t, "outside", "gone")
  <2>1. id' = [id EXCEPT ![t] = Nobody]
    BY <1>2 DEF EndThread, ListTypes
  <2>2. ListTypes' /\ LiveIdsDiffer'
    BY <1>1, <1>2, <2>1 DEF ListTypes, LiveIdsDiffer
  <2>3. EntriesAreListed'
    BY <1>1, <1>2, <2>1 DEF ListTypes, EntriesAreListed, Listed
  <2>4. QED
    BY <1>1, <2>2, <2>3 DEF PollHoldsList
<1>3. CASE Moves(t, "registered", "ending")
  <2>1. id' = id
    BY <1>3 DEF EndThread, ListTypes
  <2>2. ListTypes' /\ LiveIdsDiffer'
    BY <1>1, <1>3, <2>1 DEF ListTypes, LiveIdsDiffer
  <2>3. EntriesAreListed'
    BY <1>1, <1>3, <2>1 DEF ListTypes, EntriesAreListed, Listed
  <2>4. QED
    BY <1>1, <2>2, <2>3 DEF PollHoldsList
<1>4. QED
  BY <1>2, <1>3 DEF EndThread

LEMMA ListReport ==
  ASSUME ListInv, NEW t \in Threads, BeginReport(t) \/ EndReport(t)
  PROVE  ListInv'
<1> USE DEF ListInv
<1>1. UNCHANGED <<id, registered_threads, host_interface_mutex, poll, toRead>>
  BY DEF BeginReport, EndReport, pollVars
<1>2. PICK from \in {"ending", "reporting"}, to \in {"reporting", "reported"} :
        Moves(t, from, to)
  BY DEF BeginReport, EndReport
<1>3. ListTypes' /\ LiveIdsDiffer'
  BY <1>1, <1>2 DEF ListTypes, LiveIdsDiffer
<1>4. EntriesAreListed'
  BY <1>1, <1>2 DEF ListTypes, EntriesAreListed, Listed
<1>5. QED
  BY <1>1, <1>3, <1>4 DEF PollHoldsList

(* The entry and the id go together; the poll is not walking the list.     *)
LEMMA ListUnregister ==
  ASSUME ListInv, NEW t \in Threads, UnregisterThread(t)
  PROVE  ListInv'
<1> USE DEF ListInv
<1>1. /\ stage[t] = "reported"
      /\ stage' = [stage EXCEPT ![t] = "dead"]
      /\ id' = [id EXCEPT ![t] = Nobody]
      /\ registered_threads' = [registered_threads EXCEPT ![id[t]] = Nobody]
      /\ host_interface_mutex = Nobody
      /\ UNCHANGED <<host_interface_mutex, poll, toRead>>
  BY DEF UnregisterThread, Unlisted, pollVars
<1>2. ListTypes' /\ LiveIdsDiffer'
  BY <1>1 DEF ListTypes, LiveIdsDiffer
<1>3. EntriesAreListed'
  <2> SUFFICES ASSUME NEW i \in Ids, registered_threads'[i] # Nobody
               PROVE  /\ stage'[registered_threads'[i]] \in Listed
                      /\ id'[registered_threads'[i]] = i
    BY DEF EntriesAreListed
  <2>1. i # id[t] /\ registered_threads'[i] = registered_threads[i]
    BY <1>1 DEF ListTypes
  <2>2. registered_threads[i] # t
    BY <2>1 DEF EntriesAreListed
  <2>3. QED
    BY <1>1, <2>1, <2>2 DEF ListTypes, EntriesAreListed
<1>4. PollHoldsList'
  BY <1>1, HostAssumption DEF PollHoldsList
<1>5. QED
  BY <1>2, <1>3, <1>4

LEMMA ListPoll ==
  ASSUME ListInv, Poll
  PROVE  ListInv'
<1> USE DEF ListInv
<1>1. UNCHANGED <<stage, id, registered_threads>>
  BY DEF Poll, PollMove, LockList, ReadCounters, WriteLog, CheckStop, WakeUp, threadVars
<1>2. LiveIdsDiffer' /\ EntriesAreListed'
  BY <1>1 DEF LiveIdsDiffer, EntriesAreListed
<1>3. ListTypes'
  BY <1>1 DEF ListTypes, Poll, PollMove, LockList, ReadCounters, WriteLog, CheckStop, WakeUp
<1>4. PollHoldsList'
  <2>1. CASE LockList
    BY <1>1, <2>1 DEF PollHoldsList, LockList
  <2>2. CASE \E i \in Ids : ReadCounters(i)
    BY <1>1, <2>2 DEF PollHoldsList, ReadCounters
  <2>3. CASE WriteLog
    BY <1>1, <2>3, HostAssumption DEF PollHoldsList, WriteLog, OwnerAfterPoll
  <2>4. CASE CheckStop \/ WakeUp
    BY <1>1, <2>4 DEF PollHoldsList, CheckStop, WakeUp
  <2>5. QED
    BY <2>1, <2>2, <2>3, <2>4 DEF Poll, PollMove
<1>5. QED
  BY <1>2, <1>3, <1>4

LEMMA ListNext == ListInv /\ [Next]_vars => ListInv'
<1> SUFFICES ASSUME ListInv, [Next]_vars PROVE ListInv'
  OBVIOUS
<1>1. CASE \E t \in Threads : ThreadStep(t)
  <2>1. PICK t \in Threads : ThreadStep(t)
    BY <1>1
  <2>2. CASE Work(t)
    BY <2>2, ListUnchanged DEF Work, listVars, pollVars
  <2>3. QED
    BY <2>1, <2>2, ListStart, ListRegister, ListEnd, ListReport, ListUnregister
    DEF ThreadStep
<1>2. CASE Poll
  BY <1>2, ListPoll
<1>3. CASE StopHostProc
  BY <1>3, ListUnchanged DEF StopHostProc, listVars, threadVars, pollVars
<1>4. CASE UNCHANGED vars
  BY <1>4, ListUnchanged DEF vars, listVars, threadVars, pollVars
<1>5. QED
  BY <1>1, <1>2, <1>3, <1>4 DEF Next

THEOREM ListInvariance == Spec => []ListInv
BY ListInit, ListNext, PTL DEF Spec

-----------------------------------------------------------------------------
(* A list entry belongs to the live thread that has its id, however ids    *)
(* are used again.                                                         *)
THEOREM EntriesAreOfLiveThreads == Spec => []EntriesFollowIds
<1>1. ListInv => EntriesFollowIds
  BY DEF ListInv, EntriesAreListed, Listed, EntriesFollowIds
<1>2. QED
  BY <1>1, ListInvariance, PTL

(* The poll thread never reads the counters of a thread that has gone.     *)
THEOREM PollIsSafe == Spec => []PollReadsLiveThreads
<1>1. ListInv => PollReadsLiveThreads
  BY DEF ListInv, ListTypes, EntriesAreListed, PollHoldsList, Listed, PollReadsLiveThreads
<1>2. QED
  BY <1>1, ListInvariance, PTL

-----------------------------------------------------------------------------
(* The reports.  Those written so far are of the threads that have been    *)
(* through zray_finalize, and LogIteration says how many they are, so that *)
(* it is 0 only while there is nothing a truncation could lose.            *)
Reported == {t \in Threads : stage[t] \in {"reported", "dead"}}

ReportTypes ==
  /\ stage \in [Threads -> Stages]
  /\ log_mutex \in Threads \cup {Nobody}
  /\ csv \in Seq(Threads \cup {Nobody})

HolderReports == \A t \in Threads : stage[t] = "reporting" <=> log_mutex = t

HasOneLine(t) ==
  \E k \in 1 .. Len(csv) : csv[k] = t /\ \A j \in 1 .. Len(csv) : csv[j] = t => j = k

LinesFollowReports ==
  /\ LogIteration = Cardinality(Reported)
  /\ \A t \in Reported : HasOneLine(t)
  /\ \A k \in 1 .. Len(csv) : IF k = 1 THEN csv[k] = Nobody ELSE csv[k] \in Reported
  /\ log_mutex # Nobody => Len(csv) > 0

ReportInv ==
  /\ ReportTypes
  /\ HolderReports
  /\ LinesFollowReports

LEMMA ReportedIsFinite ==
  /\ IsFiniteSet(Reported)
  /\ Cardinality(Reported) \in 0 .. Cardinality(Threads)
<1>1. Reported \in SUBSET Threads
  BY DEF Reported
<1>2. IsFiniteSet(Reported) /\ Cardinality(Reported) <= Cardinality(Threads)
  BY <1>1, HostAssumption, FS_Subset
<1>3. Cardinality(Reported) \in Nat /\ Cardinality(Threads) \in Nat
  BY <1>2, HostAssumption, FS_CardinalityType
<1>4. QED
  BY <1>2, <1>3

LEMMA ReportInit == Init => ReportInv
<1> SUFFICES ASSUME Init PROVE ReportInv
  OBVIOUS
<1>1. Reported = {}
  BY DEF Init, Reported
<1>2. LinesFollowReports
  BY <1>1, FS_EmptySet DEF Init, LinesFollowReports
<1>3. QED
  BY <1>2, HostAssumption DEF Init, ReportInv, ReportTypes, HolderReports

(* Steps that neither begin nor end a report.                              *)
LEMMA ReportUnchanged ==
  ASSUME ReportInv,
         UNCHANGED reportVars,
         stage' \in [Threads -> Stages],
         \A t \in Threads :
           /\ stage'[t] = "reporting" <=> stage[t] = "reporting"
           /\ stage'[t] \in {"reported", "dead"} <=> stage[t] \in {"reported", "dead"}
  PROVE  ReportInv'
<1>1. Reported' = Reported
  BY DEF Reported
<1>2. QED
  BY <1>1
  DEF ReportInv, ReportTypes, HolderReports, LinesFollowReports, HasOneLine, reportVars

(* The file is truncated only when no report is in it.                     *)
LEMMA ReportBegin ==
  ASSUME ReportInv, NEW t \in Threads, BeginReport(t)
  PROVE  ReportInv'
<1> USE DEF ReportInv
<1>1. /\ stage[t] = "ending"
      /\ stage' = [stage EXCEPT ![t] = "reporting"]
      /\ log_mutex = Nobody
      /\ log_mutex' = t
      /\ csv' = IF LogIteration = 0 THEN <<Nobody>> ELSE csv
      /\ LogIteration' = LogIteration
  BY DEF BeginReport
<1>2. Reported' = Reported
  BY <1>1 DEF Reported, ReportTypes
<1>3. ReportTypes' /\ HolderReports'
  <2>1. <<Nobody>> \in Seq(Threads \cup {Nobody})
    OBVIOUS
  <2>2. csv' \in Seq(Threads \cup {Nobody})
    BY <1>1, <2>1 DEF ReportTypes
  <2>3. stage' \in [Threads -> Stages]
    BY <1>1 DEF ReportTypes
  <2>4. HolderReports'
    BY <1>1, HostAssumption DEF ReportTypes, HolderReports
  <2>5. QED
    BY <1>1, <2>2, <2>3, <2>4 DEF ReportTypes
<1>4. CASE LogIteration = 0
  <2>1. Reported = {}
    BY <1>4, ReportedIsFinite, FS_EmptySet DEF LinesFollowReports
  <2>2. Len(csv') = 1 /\ csv'[1] = Nobody
    BY <1>1, <1>4
  <2>3. QED
    BY <1>1, <1>2, <1>3, <2>1, <2>2 DEF LinesFollowReports
<1>5. CASE LogIteration # 0
  <2>1. csv' = csv
    BY <1>1, <1>5
  <2>2. Reported # {}
    BY <1>5, FS_EmptySet DEF LinesFollowReports
  <2>3. Len(csv) > 0
    BY <2>2 DEF LinesFollowReports, HasOneLine, ReportTypes
  <2>4. QED
    BY <1>1, <1>2, <1>3, <2>1, <2>3 DEF LinesFollowReports, HasOneLine
<1>6. QED
  BY <1>4, <1>5

(* The report ends up behind the header and all reports before it.         *)
LEMMA ReportEnd ==
  ASSUME ReportInv, NEW t \in Threads, EndReport(t)
  PROVE  ReportInv'
<1> USE DEF ReportInv
<1>1. /\ stage[t] = "reporting"
      /\ stage' = [stage EXCEPT ![t] = "reported"]
      /\ log_mutex' = Nobody
      /\ csv' = Append(csv, t)
      /\ LogIteration' = LogIteration + 1
  BY DEF EndReport, NextIteration
<1>2. Reported' = Reported \cup {t} /\ t \notin Reported
  BY <1>1 DEF Reported, ReportTypes
<1>3. LogIteration' = Cardinality(Reported')
  BY <1>1, <1>2, ReportedIsFinite, FS_AddElement DEF LinesFollowReports
<1>4. ReportTypes' /\ HolderReports'
  BY <1>1, HostAssumption DEF ReportTypes, HolderReports
<1>5. Len(csv) \in Nat /\ Len(csv) > 0
  BY <1>1, HostAssumption DEF LinesFollowReports, HolderReports, ReportTypes
<1>6. /\ Len(csv') = Len(csv) + 1
      /\ csv'[Len(csv) + 1] = t
      /\ \A k \in 1 .. Len(csv) : csv'[k] = csv[k]
  BY <1>1 DEF ReportTypes
<1>7. \A k \in 1 .. Len(csv) : csv[k] # t
  BY <1>2, HostAssumption DEF LinesFollowReports
<1>8. \A u \in Reported' : HasOneLine(u)'
  <2> SUFFICES ASSUME NEW u \in Reported' PROVE HasOneLine(u)'
    OBVIOUS
  <2>1. CASE u = t
    BY <1>5, <1>6, <1>7, <2>1 DEF HasOneLine
  <2>2. CASE u # t
    <3>1. HasOneLine(u)
      BY <1>2, <2>2 DEF LinesFollowReports
    <3>2. PICK k \in 1 .. Len(csv) :
                 csv[k] = u /\ \A j \in 1 .. Len(csv) : csv[j] = u => j = k
      BY <3>1 DEF HasOneLine
    <3>3. k \in 1 .. Len(csv') /\ csv'[k] = u
      BY <1>5, <1>6, <3>2
    <3>4. ASSUME NEW j \in 1 .. Len(csv'), csv'[j] = u PROVE j = k
      <4>1. j # Len(csv) + 1
        BY <1>6, <2>2, <3>4
      <4>2. j \in 1 .. Len(csv)
        BY <1>5, <1>6, <4>1
      <4>3. QED
        BY <1>6, <3>2, <3>4, <4>2
    <3>5. QED
      BY <3>3, <3>4 DEF HasOneLine
  <2>3. QED
    BY <2>1, <2>2
<1>9. \A k \in 1 .. Len(csv') : IF k = 1 THEN csv'[k] = Nobody ELSE csv'[k] \in Reported'
  BY <1>2, <1>5, <1>6 DEF LinesFollowReports
<1>10. QED
  BY <1>1, <1>3, <1>4, <1>8, <1>9 DEF LinesFollowReports

LEMMA ReportNext == ReportInv /\ [Next]_vars => ReportInv'
<1> SUFFICES ASSUME ReportInv, [Next]_vars PROVE ReportInv'
  OBVIOUS
<1> USE DEF ReportInv
<1>1. CASE \E t \in Threads : ThreadStep(t)
  <2>1. PICK t \in Threads : ThreadStep(t)
    BY <1>1
  <2>2. CASE StartThread(t) \/ RegisterThread(t) \/ EndThread(t) \/ UnregisterThread(t)
    <3>1. UNCHANGED reportVars
      BY <2>2 DEF StartThread, RegisterThread, EndThread, UnregisterThread, reportVars
    <3>2. PICK from \in {"unborn", "outside", "registered", "reported"},
               to \in {"outside", "registered", "ending", "gone", "dead"} :
            Moves(t, from, to) /\ (from = "reported" <=> to = "dead")
      BY <2>2 DEF StartThread, RegisterThread, EndThread, UnregisterThread
    <3>3. QED
      BY <3>1, <3>2, ReportUnchanged DEF ReportTypes
  <2>3. CASE Work(t)
    BY <2>3, ReportUnchanged DEF Work, ReportTypes, reportVars
  <2>4. QED
    BY <2>1, <2>2, <2>3, ReportBegin, ReportEnd DEF ThreadStep
<1>2. CASE Poll
  <2>1. UNCHANGED <<stage, reportVars>>
    BY <1>2 DEF Poll, PollMove, LockList, ReadCounters, WriteLog, CheckStop, WakeUp,
                threadVars, reportVars
  <2>2. QED
    BY <2>1, ReportUnchanged DEF ReportTypes
<1>3. CASE StopHostProc
  BY <1>3, ReportUnchanged DEF StopHostProc, ReportTypes, threadVars, reportVars
<1>4. CASE UNCHANGED vars
  BY <1>4, ReportUnchanged DEF vars, ReportTypes, threadVars, reportVars
<1>5. QED
  BY <1>1, <1>2, <1>3, <1>4 DEF Next

THEOREM ReportInvariance == Spec => []ReportInv
BY ReportInit, ReportNext, PTL DEF Spec

(* The report of a thread that has been through zray_finalize is in the    *)
(* CSV once, after the one header, for any number of threads that end      *)
(* together.                                                               *)
THEOREM NoReportIsLost == Spec => []ReportsSurvive
<1>1. ReportInv => ReportsSurvive
  <2> SUFFICES ASSUME ReportInv PROVE ReportsSurvive
    OBVIOUS
  <2> USE DEF ReportInv
  <2>1. DOMAIN csv = 1 .. Len(csv)
    BY DEF ReportTypes
  <2>2. ASSUME NEW t \in Threads, stage[t] \in {"reported", "dead"}
        PROVE  Cardinality({k \in DOMAIN csv : csv[k] = t}) = 1
    <3>1. HasOneLine(t)
      BY <2>2 DEF LinesFollowReports, Reported
    <3>2. PICK k \in 1 .. Len(csv) : {j \in DOMAIN csv : csv[j] = t} = {k}
      BY <2>1, <3>1 DEF HasOneLine
    <3>3. QED
      BY <3>2, FS_Singleton
  <2>3. \A k \in DOMAIN csv : csv[k] = Nobody <=> k = 1
    BY <2>1, HostAssumption DEF LinesFollowReports, Reported
  <2>4. QED
    BY <2>2, <2>3 DEF ReportsSurvive
<1>2. QED
  BY <1>1, ReportInvariance, PTL
-----------------------------------------------------------------------------
(* The other variables.  That a copy is a counter's value needs the list   *)
(* to be right: the poll follows its entries.                              *)
CountTypes ==
  /\ counter \in [Threads -> 0 .. MaxWork]
  /\ poll \in {"lock", "read", "check", "sleep", "done"}
  /\ copies \in [Ids -> 0 .. MaxWork]
  /\ host_poll_stop \in BOOLEAN
  /\ logged \in [Threads -> 0 .. MaxWork]

LEMMA CountInit == Init => CountTypes
<1> SUFFICES ASSUME Init PROVE CountTypes
  OBVIOUS
<1>1. 0 \in 0 .. MaxWork
  BY HostAssumption
<1>2. QED
  BY <1>1 DEF Init, CountTypes

LEMMA CountPoll ==
  ASSUME ListInv, CountTypes, Poll
  PROVE  CountTypes'
<1> USE DEF CountTypes
<1>1. UNCHANGED <<counter, host_poll_stop>>
  BY DEF Poll, PollMove, LockList, ReadCounters, WriteLog, CheckStop, WakeUp, threadVars
<1>2. CASE LockList \/ CheckStop \/ WakeUp
  BY <1>1, <1>2 DEF LockList, CheckStop, WakeUp
<1>3. CASE \E i \in Ids : ReadCounters(i)
  <2>1. PICK i \in Ids : ReadCounters(i)
    BY <1>3
  <2>2. registered_threads[i] \in Threads
    BY <2>1 DEF ReadCounters, ListInv, ListTypes, PollHoldsList
  <2>3. copies' = [copies EXCEPT ![i] = counter[registered_threads[i]]]
    BY <2>1 DEF ReadCounters, Copied
  <2>4. QED
    BY <1>1, <2>1, <2>2, <2>3 DEF ReadCounters
<1>4. CASE WriteLog
  <2>1. \A t \in Threads, i \in Ids : registered_threads[i] = t => id[t] = i
    BY HostAssumption DEF ListInv, EntriesAreListed
  <2>2. \A t \in Threads : (\E i \in Ids : registered_threads[i] = t) => id[t] \in Ids
    BY <2>1
  <2>3. logged' \in [Threads -> 0 .. MaxWork]
    BY <1>4, <2>2 DEF WriteLog
  <2>4. QED
    BY <1>1, <1>4, <2>3, HostAssumption DEF WriteLog
<1>5. QED
  BY <1>2, <1>3, <1>4 DEF Poll, PollMove

LEMMA CountNext == ListInv /\ CountTypes /\ [Next]_vars => CountTypes'
<1> SUFFICES ASSUME ListInv, CountTypes, [Next]_vars PROVE CountTypes'
  OBVIOUS
<1> USE DEF CountTypes
<1>1. CASE \E t \in Threads : ThreadStep(t)
  <2>1. PICK t \in Threads : ThreadStep(t)
    BY <1>1
  <2>2. UNCHANGED <<pollVars, host_poll_stop>>
    BY <2>1 DEF ThreadStep, StartThread, RegisterThread, Work, EndThread, BeginReport,
                EndReport, UnregisterThread
  <2>3. counter' \in [Threads -> 0 .. MaxWork]
    <3>1. CASE Work(t)
      BY <3>1, HostAssumption DEF Work
    <3>2. CASE ~ Work(t)
      BY <2>1, <3>2 DEF ThreadStep, StartThread, RegisterThread, EndThread, BeginReport,
                        EndReport, UnregisterThread
    <3>3. QED
      BY <3>1, <3>2
  <2>4. QED
    BY <2>2, <2>3 DEF pollVars
<1>2. CASE Poll
  BY <1>2, CountPoll
<1>3. CASE StopHostProc
  BY <1>3 DEF StopHostProc, threadVars, pollVars
<1>4. CASE UNCHANGED vars
  BY <1>4 DEF vars, threadVars, pollVars
<1>5. QED
  BY <1>1, <1>2, <1>3, <1>4 DEF Next

(* Every variable keeps its type; LogIteration never exceeds the number of *)
(* threads.                                                                *)
THEOREM MonitorTypes == Spec => []TypeOK
<1>1. Spec => []CountTypes
  BY CountInit, CountNext, ListInvariance, PTL DEF Spec
<1>2. ListInv /\ ReportInv /\ CountTypes => TypeOK
  <2> SUFFICES ASSUME ListInv, ReportInv, CountTypes PROVE TypeOK
    OBVIOUS
  <2>1. LogIteration \in 0 .. Cardinality(Threads)
    BY ReportedIsFinite DEF ReportInv, LinesFollowReports
  <2>2. QED
    BY <2>1 DEF ListInv, ListTypes, PollHoldsList, ReportInv, ReportTypes, CountTypes, TypeOK
<1>3. QED
  BY <1>1, <1>2, ListInvariance, ReportInvariance, PTL

=============================================================================
