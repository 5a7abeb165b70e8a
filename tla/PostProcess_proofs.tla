-------------------------- MODULE PostProcess_proofs --------------------------
(***************************************************************************)
(* Proofs about PostProcess, for any number of threads, ids and counts:    *)
(* the deltas reported for an id that one thread has had add up to what    *)
(* was logged of that thread, and nothing but the reuse of an id makes the *)
(* reader give up.                                                         *)
(***************************************************************************)
EXTENDS PostProcess, HostMonitor_proofs

USE DEF Live, Moves, IsRegistered, RegisteredIds, Free

ReaderTypes ==
  /\ CounterLogs \in [Ids -> Nat \cup {Nobody}]
  /\ reported \in [Ids -> Nat]
  /\ rejected \in BOOLEAN
  /\ owners \in [Ids -> SUBSET Threads]

(* A thread has at most one id in its life, and none before it starts.     *)
OwnersFollowIds ==
  /\ \A i \in Ids, t \in Threads : id[t] = i => t \in owners[i]
  /\ \A i, j \in Ids : \A t \in owners[i] : t \in owners[j] => i = j
  /\ \A t \in Threads :
       stage[t] = "unborn" => logged[t] = 0 /\ \A i \in Ids : t \notin owners[i]

(* What is copied of a thread lies between what was logged of it last and  *)
(* what it has counted.                                                    *)
CopiesAreInOrder ==
  /\ \A t \in Threads : logged[t] <= counter[t]
  /\ poll = "read" =>
       \A i \in RegisteredIds \ toRead :
         LET t == registered_threads[i]
         IN  logged[t] <= copies[i] /\ copies[i] <= counter[t]

(* What the reader remembers of an id is what was logged last of the only  *)
(* thread that has had it.                                                 *)
ReaderFollowsLog ==
  ~ rejected =>
    \A i \in Ids :
      /\ owners[i] = {} => Previous(i) = 0 /\ reported[i] = 0
      /\ \A t \in Threads :
           owners[i] = {t} => Previous(i) = logged[t] /\ reported[i] = logged[t]

MonitorInv == ListInv /\ CountTypes

ReaderInv ==
  /\ ReaderTypes
  /\ OwnersFollowIds
  /\ CopiesAreInOrder
  /\ ReaderFollowsLog
  /\ OnlyReuseIsRejected

-----------------------------------------------------------------------------
(* The reader takes no step that the monitor does not take.                *)
LEMMA ReaderStepsAreMonitorSteps == [ReaderNext]_allVars => [Next]_vars
BY DEF ReaderNext, ReaderPoll, ReaderThread, ReaderStop, Next, Poll, allVars

LEMMA MonitorNext == MonitorInv /\ [ReaderNext]_allVars => MonitorInv'
BY ReaderStepsAreMonitorSteps, ListNext, CountNext DEF MonitorInv

LEMMA ReaderStarts == ReaderInit => ReaderInv
<1> SUFFICES ASSUME ReaderInit PROVE ReaderInv
  OBVIOUS
<1>1. Init
  BY DEF ReaderInit
<1>2. ReaderTypes
  BY DEF ReaderInit, ReaderTypes
<1>3. OwnersFollowIds
  BY <1>1, HostAssumption DEF ReaderInit, Init, OwnersFollowIds
<1>4. CopiesAreInOrder
  BY <1>1 DEF Init, CopiesAreInOrder
<1>5. ReaderFollowsLog
  BY <1>1 DEF ReaderInit, Init, ReaderFollowsLog, Previous
<1>6. OnlyReuseIsRejected
  BY DEF ReaderInit, OnlyReuseIsRejected
<1>7. QED
  BY <1>2, <1>3, <1>4, <1>5, <1>6 DEF ReaderInv

-----------------------------------------------------------------------------
(* The first thread that is given an id finds no record of it, and nothing *)
(* has been logged of it; any other thread makes it an id used again.      *)
LEMMA ReaderAtStart ==
  ASSUME MonitorInv, ReaderInv, NEW t \in Threads, StartThread(t), NewOwners,
         UNCHANGED readerVars
  PROVE  ReaderInv'
<1> USE DEF ReaderInv
<1>1. /\ stage[t] = "unborn"
      /\ stage' = [stage EXCEPT ![t] = "outside"]
      /\ UNCHANGED <<counter, registered_threads, poll, toRead, copies, logged>>
      /\ UNCHANGED <<CounterLogs, reported, rejected>>
  BY DEF StartThread, pollVars, readerVars
<1>2. PICK i \in Ids : id' = [id EXCEPT ![t] = i]
  BY DEF StartThread
<1>3. stage \in [Threads -> Stages] /\ id \in [Threads -> Ids \cup {Nobody}]
  BY DEF MonitorInv, ListInv, ListTypes
<1>4. owners' = [owners EXCEPT ![i] = @ \cup {t}]
  <2>1. ASSUME NEW j \in Ids
        PROVE  owners[j] \cup {u \in Threads : id'[u] = j}
                 = IF j = i THEN owners[j] \cup {t} ELSE owners[j]
    BY <1>2, <1>3 DEF OwnersFollowIds, ReaderTypes
  <2>2. QED
    BY <2>1 DEF NewOwners, ReaderTypes
<1>5. ReaderTypes'
  BY <1>1, <1>4 DEF ReaderTypes
<1>6. OwnersFollowIds'
  <2>1. \A j \in Ids, u \in Threads : id'[u] = j => u \in owners'[j]
    BY <1>2, <1>3, <1>4 DEF OwnersFollowIds, ReaderTypes
  <2>2. \A j, k \in Ids : \A u \in owners'[j] : u \in owners'[k] => j = k
    BY <1>1, <1>4 DEF OwnersFollowIds, ReaderTypes
  <2>3. \A u \in Threads : stage'[u] = "unborn" =>
          logged'[u] = 0 /\ \A j \in Ids : u \notin owners'[j]
    BY <1>1, <1>3, <1>4 DEF OwnersFollowIds, ReaderTypes
  <2>4. QED
    BY <2>1, <2>2, <2>3 DEF OwnersFollowIds
<1>7. CopiesAreInOrder'
  BY <1>1 DEF CopiesAreInOrder
<1>8. ReaderFollowsLog'
  <2> SUFFICES ASSUME ~ rejected, NEW j \in Ids
               PROVE  /\ owners'[j] = {} => Previous(j) = 0 /\ reported[j] = 0
                      /\ \A u \in Threads : owners'[j] = {u} =>
                           Previous(j) = logged[u] /\ reported[j] = logged[u]
    BY <1>1 DEF ReaderFollowsLog, Previous
  <2>1. CASE j # i
    BY <1>4, <2>1 DEF ReaderFollowsLog, ReaderTypes
  <2>2. CASE j = i
    <3>1. owners'[j] = owners[j] \cup {t} /\ t \notin owners[j] /\ logged[t] = 0
      BY <1>1, <1>4, <2>2 DEF OwnersFollowIds, ReaderTypes
    <3>2. ASSUME NEW u \in Threads, owners'[j] = {u}
          PROVE  u = t /\ owners[j] = {}
      BY <3>1, <3>2
    <3>3. QED
      BY <3>1, <3>2 DEF ReaderFollowsLog
  <2>3. QED
    BY <2>1, <2>2
<1>9. OnlyReuseIsRejected'
  BY <1>1, <1>4 DEF OnlyReuseIsRejected, ReaderTypes
<1>10. QED
  BY <1>5, <1>6, <1>7, <1>8, <1>9

(* The other steps of a thread: ids are at most given up, counters grow,   *)
(* and the list changes only while no poll walks it.                       *)
LEMMA ReaderAtThread ==
  ASSUME MonitorInv, ReaderInv, NEW t \in Threads, ThreadStep(t), ~ StartThread(t),
         NewOwners, UNCHANGED readerVars
  PROVE  ReaderInv'
<1> USE DEF ReaderInv
<1>1. UNCHANGED <<poll, toRead, copies, logged, CounterLogs, reported, rejected>>
  BY DEF ThreadStep, RegisterThread, Work, EndThread, BeginReport, EndReport,
         UnregisterThread, pollVars, readerVars
<1>2. stage \in [Threads -> Stages] /\ id \in [Threads -> Ids \cup {Nobody}]
  BY DEF MonitorInv, ListInv, ListTypes
<1>3. id' = id \/ id' = [id EXCEPT ![t] = Nobody]
  BY DEF ThreadStep, RegisterThread, Work, EndThread, BeginReport, EndReport,
         UnregisterThread
<1>4. \A u \in Threads : stage'[u] = "unborn" => stage[u] = "unborn"
  BY <1>2 DEF ThreadStep, RegisterThread, Work, EndThread, BeginReport, EndReport,
              UnregisterThread
<1>5. \A u \in Threads, i \in Ids : id'[u] = i => id[u] = i
  BY <1>2, <1>3, HostAssumption
<1>6. owners' = owners
  <2>1. \A i \in Ids : owners[i] \cup {u \in Threads : id'[u] = i} = owners[i]
    BY <1>5 DEF OwnersFollowIds, ReaderTypes
  <2>2. QED
    BY <2>1 DEF NewOwners, ReaderTypes
<1>7. ReaderTypes' /\ OwnersFollowIds' /\ ReaderFollowsLog' /\ OnlyReuseIsRejected'
  BY <1>1, <1>4, <1>5, <1>6
  DEF ReaderTypes, OwnersFollowIds, ReaderFollowsLog, OnlyReuseIsRejected, Previous
<1>8. /\ counter \in [Threads -> 0 .. MaxWork]
      /\ counter' \in [Threads -> 0 .. MaxWork]
      /\ logged \in [Threads -> 0 .. MaxWork]
      /\ copies \in [Ids -> 0 .. MaxWork]
      /\ registered_threads \in [Ids -> Threads \cup {Nobody}]
  <2>1. \/ counter' = counter
        \/ counter[t] < MaxWork /\ counter' = [counter EXCEPT ![t] = @ + 1]
    BY DEF ThreadStep, RegisterThread, Work, EndThread, BeginReport, EndReport,
           UnregisterThread
  <2>2. QED
    BY <2>1, HostAssumption DEF MonitorInv, CountTypes, ListInv, ListTypes
<1>9. \A u \in Threads : counter[u] <= counter'[u]
  BY <1>8, HostAssumption
  DEF ThreadStep, RegisterThread, Work, EndThread, BeginReport, EndReport, UnregisterThread
<1>10. poll = "read" => registered_threads' = registered_threads
  BY HostAssumption
  DEF MonitorInv, ListInv, PollHoldsList, ThreadStep, RegisterThread, Work, EndThread,
      BeginReport, EndReport, UnregisterThread
<1>11. CopiesAreInOrder'
  <2>1. \A u \in Threads : logged'[u] <= counter'[u]
    BY <1>1, <1>8, <1>9, HostAssumption DEF CopiesAreInOrder
  <2>2. ASSUME poll' = "read", NEW i \in RegisteredIds' \ toRead'
        PROVE  logged'[registered_threads'[i]] <= copies'[i]
               /\ copies'[i] <= counter'[registered_threads'[i]]
    <3>1. registered_threads' = registered_threads /\ i \in RegisteredIds \ toRead
      BY <1>1, <1>10, <2>2
    <3>2. registered_threads[i] \in Threads
      BY <1>8, <3>1
    <3>3. QED
      BY <1>1, <1>8, <1>9, <2>2, <3>1, <3>2, HostAssumption DEF CopiesAreInOrder
  <2>3. QED
    BY <2>1, <2>2 DEF CopiesAreInOrder
<1>12. QED
  BY <1>7, <1>11

(* A poll that has not been written yet changes the copies only.           *)
LEMMA ReaderAtPoll ==
  ASSUME MonitorInv, ReaderInv, PollMove, UNCHANGED <<readerVars, owners>>
  PROVE  ReaderInv'
<1> USE DEF ReaderInv
<1>1. UNCHANGED <<stage, id, counter, registered_threads, logged, CounterLogs, reported,
                  rejected, owners>>
  BY DEF PollMove, LockList, ReadCounters, CheckStop, WakeUp, threadVars, readerVars
<1>2. ReaderTypes' /\ OwnersFollowIds' /\ ReaderFollowsLog' /\ OnlyReuseIsRejected'
  BY <1>1 DEF ReaderTypes, OwnersFollowIds, ReaderFollowsLog, OnlyReuseIsRejected, Previous
<1>3. CopiesAreInOrder'
  <2>1. CASE LockList
    BY <1>1, <2>1 DEF LockList, CopiesAreInOrder
  <2>2. CASE \E i \in Ids : ReadCounters(i)
    <3>1. PICK i \in Ids : ReadCounters(i)
      BY <2>2
    <3>2. /\ poll = "read" /\ poll' = poll /\ toRead' = toRead \ {i} /\ i \in toRead
          /\ copies' = [copies EXCEPT ![i] = counter[registered_threads[i]]]
      BY <3>1 DEF ReadCounters, Copied
    <3>3. registered_threads[i] \in Threads
      BY <3>2 DEF MonitorInv, ListInv, ListTypes, PollHoldsList
    <3>4. /\ counter \in [Threads -> 0 .. MaxWork]
          /\ copies \in [Ids -> 0 .. MaxWork]
      BY DEF MonitorInv, CountTypes
    <3>5. ASSUME NEW j \in RegisteredIds \ toRead'
          PROVE  logged[registered_threads[j]] <= copies'[j]
                 /\ copies'[j] <= counter[registered_threads[j]]
      <4>1. CASE j = i
        BY <3>2, <3>3, <3>4, <4>1, HostAssumption DEF CopiesAreInOrder
      <4>2. CASE j # i
        BY <3>2, <3>4, <3>5, <4>2 DEF CopiesAreInOrder
      <4>3. QED
        BY <4>1, <4>2
    <3>6. QED
      BY <1>1, <3>2, <3>5 DEF CopiesAreInOrder
  <2>3. CASE CheckStop \/ WakeUp
    BY <1>1, <2>3 DEF CheckStop, WakeUp, CopiesAreInOrder
  <2>4. QED
    BY <2>1, <2>2, <2>3 DEF PollMove
<1>4. QED
  BY <1>2, <1>3

(* The poll is written and read.  The record of an id is of the live       *)
(* thread that has it, hence of its only owner if it has one.              *)
LEMMA ReaderAtWrite ==
  ASSUME MonitorInv, ReaderInv, WriteLog, ReadEpoch, UNCHANGED owners
  PROVE  ReaderInv'
<1> USE DEF ReaderInv
<1>1. /\ toRead = {} /\ poll = "read" /\ poll' = "check"
      /\ UNCHANGED <<stage, id, counter, registered_threads>>
      /\ logged' = [t \in Threads |-> IF \E i \in Ids : registered_threads[i] = t
                                        THEN copies[id[t]] ELSE logged[t]]
  BY DEF WriteLog, threadVars
<1>2. /\ counter \in [Threads -> 0 .. MaxWork]
      /\ copies \in [Ids -> 0 .. MaxWork]
      /\ logged \in [Threads -> 0 .. MaxWork]
      /\ stage \in [Threads -> Stages]
      /\ registered_threads \in [Ids -> Threads \cup {Nobody}]
  BY DEF MonitorInv, CountTypes, ListInv, ListTypes
<1>3. \A i \in Ids, t \in Threads : registered_threads[i] = t =>
        /\ id[t] = i
        /\ stage[t] # "unborn"
        /\ t \in owners[i]
        /\ logged'[t] = copies[i]
        /\ logged[t] <= copies[i] /\ copies[i] <= counter[t]
  <2> SUFFICES ASSUME NEW i \in Ids, NEW t \in Threads, registered_threads[i] = t
               PROVE  /\ id[t] = i
                      /\ stage[t] # "unborn"
                      /\ t \in owners[i]
                      /\ logged'[t] = copies[i]
                      /\ logged[t] <= copies[i] /\ copies[i] <= counter[t]
    OBVIOUS
  <2>1. i \in RegisteredIds
    BY HostAssumption
  <2>2. id[t] = i /\ stage[t] # "unborn"
    BY <2>1 DEF MonitorInv, ListInv, EntriesAreListed, Listed
  <2>3. t \in owners[i]
    BY <2>2 DEF OwnersFollowIds
  <2>4. logged'[t] = copies[i]
    BY <1>1, <2>2
  <2>5. logged[t] <= copies[i] /\ copies[i] <= counter[t]
    BY <1>1, <2>1 DEF CopiesAreInOrder
  <2>6. QED
    BY <2>2, <2>3, <2>4, <2>5
<1>4. \A t \in Threads : (\A i \in Ids : registered_threads[i] # t) => logged'[t] = logged[t]
  BY <1>1
<1>5. OwnersFollowIds'
  <2>1. \A t \in Threads : stage[t] = "unborn" => logged'[t] = logged[t]
    BY <1>3, <1>4
  <2>2. QED
    BY <1>1, <2>1 DEF OwnersFollowIds
<1>6. CopiesAreInOrder'
  BY <1>1, <1>3, <1>4 DEF CopiesAreInOrder
<1>7. CASE rejected
  BY <1>5, <1>6, <1>7
  DEF ReadEpoch, readerVars, ReaderTypes, ReaderFollowsLog, OnlyReuseIsRejected
<1>8. CASE ~ rejected
  <2>1. /\ rejected' = \E i \in RegisteredIds : copies[i] < Previous(i)
        /\ CounterLogs' = [i \in Ids |-> IF IsRegistered(i) THEN copies[i] ELSE CounterLogs[i]]
        /\ reported' = [i \in Ids |->
             IF IsRegistered(i) /\ copies[i] >= Previous(i)
               THEN reported[i] + (copies[i] - Previous(i)) ELSE reported[i]]
    BY <1>8 DEF ReadEpoch, Remembered
  <2>2. \A i \in Ids : Previous(i) \in Nat /\ copies[i] \in Nat /\ reported[i] \in Nat
    BY <1>2, HostAssumption DEF Previous, ReaderTypes
  <2>3. ReaderTypes'
    <3>1. CounterLogs' \in [Ids -> Nat \cup {Nobody}]
      BY <2>1, <2>2 DEF ReaderTypes
    <3>2. reported' \in [Ids -> Nat]
      BY <2>1, <2>2
    <3>3. rejected' \in BOOLEAN
      BY <2>1
    <3>4. QED
      BY <3>1, <3>2, <3>3 DEF ReaderTypes
  <2>4. OnlyReuseIsRejected'
    <3> SUFFICES ASSUME NEW i \in RegisteredIds, copies[i] < Previous(i)
                 PROVE  \E t, u \in owners[i] : t # u
      BY <2>1 DEF OnlyReuseIsRejected
    <3>1. PICK t \in Threads : registered_threads[i] = t
      BY <1>2
    <3>2. t \in owners[i] /\ logged[t] <= copies[i]
      BY <1>3, <3>1
    <3>3. logged[t] \in Nat
      BY <1>2
    <3>4. owners[i] # {t}
      BY <1>8, <2>2, <3>2, <3>3 DEF ReaderFollowsLog
    <3>5. QED
      BY <3>2, <3>4
  <2>5. ASSUME ~ rejected', NEW i \in Ids, ~ IsRegistered(i)
        PROVE  /\ Previous(i)' = Previous(i) /\ reported'[i] = reported[i]
               /\ \A t \in owners[i] : logged'[t] = logged[t]
    <3>1. Previous(i)' = Previous(i) /\ reported'[i] = reported[i]
      BY <2>1, <2>5 DEF Previous
    <3>2. ASSUME NEW t \in owners[i] PROVE logged'[t] = logged[t]
      <4>1. t \in Threads
        BY DEF ReaderTypes
      <4>2. \A j \in Ids : registered_threads[j] # t
        BY <1>3, <2>5, <4>1, HostAssumption DEF OwnersFollowIds
      <4>3. QED
        BY <1>4, <4>1, <4>2
    <3>3. QED
      BY <3>1, <3>2
  <2>6. ASSUME ~ rejected', NEW i \in Ids, IsRegistered(i), NEW t \in Threads,
               owners[i] = {t}
        PROVE  Previous(i)' = logged'[t] /\ reported'[i] = logged'[t]
    <3>1. registered_threads[i] = t
      BY <1>2, <1>3, <2>6
    <3>2. logged'[t] = copies[i] /\ Previous(i) = logged[t] /\ reported[i] = logged[t]
      BY <1>3, <1>8, <2>6, <3>1 DEF ReaderFollowsLog
    <3>3. copies[i] >= Previous(i)
      BY <1>3, <3>1, <3>2
    <3>4. CounterLogs'[i] = copies[i] /\ reported'[i] = reported[i] + (copies[i] - Previous(i))
      BY <2>1, <2>6, <3>3
    <3>5. Previous(i)' = copies[i]
      BY <2>2, <3>4, ReaderAssumption DEF Previous
    <3>6. reported'[i] = copies[i]
      BY <2>2, <3>2, <3>4
    <3>7. QED
      BY <3>2, <3>5, <3>6
  <2>7. ReaderFollowsLog'
    <3> SUFFICES ASSUME ~ rejected', NEW i \in Ids
                 PROVE  /\ owners[i] = {} => Previous(i)' = 0 /\ reported'[i] = 0
                        /\ \A t \in Threads : owners[i] = {t} =>
                             Previous(i)' = logged'[t] /\ reported'[i] = logged'[t]
      BY DEF ReaderFollowsLog
    <3>1. CASE IsRegistered(i)
      <4>1. owners[i] # {}
        BY <1>2, <1>3, <3>1
      <4>2. QED
        BY <2>6, <3>1, <4>1
    <3>2. CASE ~ IsRegistered(i)
      BY <1>8, <2>5, <3>2 DEF ReaderFollowsLog
    <3>3. QED
      BY <3>1, <3>2
  <2>8. QED
    BY <1>5, <1>6, <2>3, <2>4, <2>7
<1>9. QED
  BY <1>7, <1>8

LEMMA ReaderStep == MonitorInv /\ ReaderInv /\ [ReaderNext]_allVars => ReaderInv'
<1> SUFFICES ASSUME MonitorInv, ReaderInv, [ReaderNext]_allVars PROVE ReaderInv'
  OBVIOUS
<1>1. CASE ReaderPoll
  BY <1>1, ReaderAtPoll, ReaderAtWrite DEF ReaderPoll
<1>2. CASE \E t \in Threads : ReaderThread(t)
  BY <1>2, ReaderAtStart, ReaderAtThread DEF ReaderThread
<1>3. CASE ReaderStop \/ UNCHANGED allVars
  <2>1. UNCHANGED <<stage, id, counter, registered_threads, poll, toRead, copies, logged,
                    CounterLogs, reported, rejected, owners>>
    BY <1>3 DEF ReaderStop, StopHostProc, allVars, vars, threadVars, pollVars, readerVars
  <2>2. QED
    BY <2>1 DEF ReaderInv, ReaderTypes, OwnersFollowIds, CopiesAreInOrder, ReaderFollowsLog,
                OnlyReuseIsRejected, Previous
<1>4. QED
  BY <1>1, <1>2, <1>3 DEF ReaderNext

THEOREM ReaderInvariance == ReaderSpec => [](MonitorInv /\ ReaderInv)
<1>1. ReaderInit => MonitorInv
  BY ListInit, CountInit DEF ReaderInit, MonitorInv
<1>2. QED
  BY <1>1, ReaderStarts, MonitorNext, ReaderStep, PTL DEF ReaderSpec

-----------------------------------------------------------------------------
(* The deltas the reader reports for an id that one thread has had add up  *)
(* to what the monitor logged of that thread last: no epoch is lost or     *)
(* reported twice.                                                         *)
THEOREM NoEpochIsLost == ReaderSpec => []DeltasAddUp
<1>1. ReaderInv => DeltasAddUp
  BY DEF ReaderInv, ReaderFollowsLog, DeltasAddUp
<1>2. QED
  BY <1>1, ReaderInvariance, PTL

(* A negative delta, which makes the reader exit, takes an id that the     *)
(* system has used again: with distinct ids every log can be read.         *)
THEOREM RejectionIsReuse == ReaderSpec => []OnlyReuseIsRejected
<1>1. ReaderInv => OnlyReuseIsRejected
  BY DEF ReaderInv
<1>2. QED
  BY <1>1, ReaderInvariance, PTL

=============================================================================
