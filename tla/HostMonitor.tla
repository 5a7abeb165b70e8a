----------------------------- MODULE HostMonitor -----------------------------
(***************************************************************************)
(* Threads of a program instrumented with --hostmonitor, from the first    *)
(* region they enter to the end of their thread_local destructors, and the *)
(* host thread that polls their counters (src/zray_dyn.cc).                *)
(*                                                                         *)
(* A thread registers when it first enters an instrumented function.  When *)
(* it ends, its ThreadExiter reports its counters (zray_finalize, under    *)
(* log_mutex) and removes it from the polling list.  The poll thread walks *)
(* the list under host_interface_mutex; it is stopped and joined from      *)
(* atexit, which runs after the thread_local destructors of main.          *)
(*                                                                         *)
(* Abstracted: the counter arrays of a thread are one number that only     *)
(* grows; poll times, and the cells of a report, are left out.             *)
(***************************************************************************)
EXTENDS Naturals, FiniteSets, SequencesExt

CONSTANTS
  Threads,     (* the application's threads                                  *)
  MainThread,  (* the one that runs main and the atexit handlers             *)
  Ids,         (* hashes of std::thread::id; one may be used again after the *)
               (* thread that had it has ended                               *)
  Nobody,      (* no thread, no id                                           *)
  Poller,      (* owner of the mutex while the poll thread holds it          *)
  MaxWork      (* bound: what one thread counts                              *)

ASSUME HostAssumption ==
  /\ MainThread \in Threads
  /\ IsFiniteSet(Threads)
  /\ Cardinality(Ids) >= 1
  /\ Nobody \notin Threads \cup Ids
  /\ Poller \notin Threads \cup {Nobody}
  /\ MaxWork \in Nat

VARIABLES
  stage,                 (* how far each thread has come                     *)
  id,                    (* the id of each live thread                       *)
  counter,               (* the thread_local counters of each thread         *)
  registered_threads,    (* registered_threads[i]: the thread polled as i    *)
  host_interface_mutex,
  log_mutex,
  LogIteration,
  csv,                   (* zray_application_stats.csv: header and reports   *)
  poll,                  (* where __host_poll_proc stands                    *)
  toRead,                (* entries the current poll has still to copy       *)
  copies,                (* counters the current poll has copied             *)
  host_poll_stop,
  logged                 (* history: last counters logged for each thread    *)

threadVars == <<stage, id, counter>>
reportVars == <<log_mutex, LogIteration, csv>>
pollVars   == <<poll, toRead, copies, logged>>
vars == <<threadVars, registered_threads, host_interface_mutex, reportVars,
          pollVars, host_poll_stop>>

Stages == {"unborn", "outside", "registered", "ending", "reporting",
           "reported", "dead", "gone"}

Live(t) == stage[t] \notin {"unborn", "dead", "gone"}

IsRegistered(i) == registered_threads[i] # Nobody
RegisteredIds   == {i \in Ids : IsRegistered(i)}

Moves(t, from, to) ==
  /\ stage[t] = from
  /\ stage' = [stage EXCEPT ![t] = to]

Init ==
  /\ stage = [t \in Threads |-> IF t = MainThread THEN "outside" ELSE "unborn"]
  /\ \E i \in Ids : id = [t \in Threads |-> IF t = MainThread THEN i ELSE Nobody]
  /\ counter = [t \in Threads |-> 0]
  /\ registered_threads = [i \in Ids |-> Nobody]
  /\ host_interface_mutex = Nobody
  /\ log_mutex = Nobody
  /\ LogIteration = 0
  /\ csv = <<>>
  /\ poll = "lock"
  /\ toRead = {}
  /\ copies = [i \in Ids |-> 0]
  /\ host_poll_stop = FALSE
  /\ logged = [t \in Threads |-> 0]

-----------------------------------------------------------------------------
(* Mutated forms, used by the mutation runs only.                          *)

NoLock(m)         == TRUE
StaysListed(t)    == registered_threads
NeverStops        == FALSE
SameIteration     == LogIteration
IterationPerLine  == LogIteration + 2
StillPoller       == Poller

-----------------------------------------------------------------------------
Free(mutex) == mutex = Nobody

(* A live thread starts another, which gets an id no live thread has.      *)
StartThread(t) ==
  /\ Moves(t, "unborn", "outside")
  /\ \E u \in Threads : Live(u)
  /\ \E i \in Ids :
       /\ \A u \in Threads : Live(u) => id[u] # i
       /\ id' = [id EXCEPT ![t] = i]
  /\ UNCHANGED <<counter, registered_threads, host_interface_mutex, reportVars,
                 pollVars, host_poll_stop>>

(* __register_thread, at the head of every instrumented function; only the *)
(* first call of a thread gets past AccelInit.  An entry that is already   *)
(* there is kept, with a warning.                                          *)
RegisterThread(t) ==
  /\ Moves(t, "outside", "registered")
  /\ Free(host_interface_mutex)
  /\ registered_threads' = IF IsRegistered(id[t])
                             THEN registered_threads
                             ELSE [registered_threads EXCEPT ![id[t]] = t]
  /\ UNCHANGED <<id, counter, host_interface_mutex, reportVars, pollVars,
                 host_poll_stop>>

Work(t) ==
  /\ stage[t] = "registered"
  /\ counter[t] < MaxWork
  /\ counter' = [counter EXCEPT ![t] = @ + 1]
  /\ UNCHANGED <<stage, id, registered_threads, host_interface_mutex,
                 reportVars, pollVars, host_poll_stop>>

(* A thread that entered no region has no ThreadExiter.                    *)
EndThread(t) ==
  /\ \/ Moves(t, "outside", "gone")
     \/ Moves(t, "registered", "ending")
  /\ id' = IF stage'[t] = "gone" THEN [id EXCEPT ![t] = Nobody] ELSE id
  /\ UNCHANGED <<counter, registered_threads, host_interface_mutex,
                 reportVars, pollVars, host_poll_stop>>

(* zray_finalize: the first report truncates the file and writes the       *)
(* header.                                                                 *)
BeginReport(t) ==
  /\ Moves(t, "ending", "reporting")
  /\ Free(log_mutex)
  /\ log_mutex' = t
  /\ csv' = IF LogIteration = 0 THEN <<Nobody>> ELSE csv
  /\ UNCHANGED <<id, counter, registered_threads, host_interface_mutex,
                 LogIteration, pollVars, host_poll_stop>>

NextIteration == LogIteration + 1

EndReport(t) ==
  /\ Moves(t, "reporting", "reported")
  /\ csv' = Append(csv, t)
  /\ LogIteration' = NextIteration
  /\ log_mutex' = Nobody
  /\ UNCHANGED <<id, counter, registered_threads, host_interface_mutex,
                 pollVars, host_poll_stop>>

Unlisted(t) == [registered_threads EXCEPT ![id[t]] = Nobody]

(* __unregister_thread, the last thing the ThreadExiter does: the thread's *)
(* counters go away with it.                                               *)
UnregisterThread(t) ==
  /\ Moves(t, "reported", "dead")
  /\ Free(host_interface_mutex)
  /\ registered_threads' = Unlisted(t)
  /\ id' = [id EXCEPT ![t] = Nobody]
  /\ UNCHANGED <<counter, host_interface_mutex, reportVars, pollVars,
                 host_poll_stop>>

-----------------------------------------------------------------------------
(* __host_poll_proc.                                                       *)

LockList ==
  /\ poll = "lock"
  /\ Free(host_interface_mutex)
  /\ host_interface_mutex' = Poller
  /\ toRead' = RegisteredIds
  /\ poll' = "read"
  /\ UNCHANGED <<threadVars, registered_threads, reportVars, copies,
                 host_poll_stop, logged>>

Copied(i) == [copies EXCEPT ![i] = counter[registered_threads[i]]]

(* The counters are copied while their thread goes on counting.            *)
ReadCounters(i) ==
  /\ poll = "read"
  /\ i \in toRead
  /\ copies' = Copied(i)
  /\ toRead' = toRead \ {i}
  /\ UNCHANGED <<threadVars, registered_threads, host_interface_mutex,
                 reportVars, poll, host_poll_stop, logged>>

OwnerAfterPoll == Nobody

WriteLog ==
  /\ poll = "read"
  /\ toRead = {}
  /\ logged' = [t \in Threads |->
                  IF \E i \in Ids : registered_threads[i] = t
                    THEN copies[id[t]] ELSE logged[t]]
  /\ host_interface_mutex' = OwnerAfterPoll
  /\ copies' = [i \in Ids |-> 0]
  /\ poll' = "check"
  /\ UNCHANGED <<threadVars, registered_threads, reportVars, toRead,
                 host_poll_stop>>

StopSeen == host_poll_stop

CheckStop ==
  /\ poll = "check"
  /\ poll' = IF StopSeen THEN "done" ELSE "sleep"
  /\ UNCHANGED <<threadVars, registered_threads, host_interface_mutex,
                 reportVars, toRead, copies, host_poll_stop, logged>>

(* The sleep ends with the period, or early on the stop flag.              *)
WakeUp ==
  /\ poll = "sleep"
  /\ poll' = "lock"
  /\ UNCHANGED <<threadVars, registered_threads, host_interface_mutex,
                 reportVars, toRead, copies, host_poll_stop, logged>>

PollMove ==
  \/ LockList
  \/ \E i \in Ids : ReadCounters(i)
  \/ CheckStop
  \/ WakeUp

(* __stop_host_proc, from atexit: the destructors of main have run.        *)
StopHostProc ==
  /\ ~ Live(MainThread)
  /\ ~ host_poll_stop
  /\ host_poll_stop' = TRUE
  /\ UNCHANGED <<threadVars, registered_threads, host_interface_mutex,
                 reportVars, pollVars>>

(* The join has returned: the process ends, with any thread still running. *)
Ended == host_poll_stop /\ poll = "done"

ThreadStep(t) ==
  \/ StartThread(t)
  \/ RegisterThread(t)
  \/ Work(t)
  \/ EndThread(t)
  \/ BeginReport(t)
  \/ EndReport(t)
  \/ UnregisterThread(t)

Poll == ~ Ended /\ (PollMove \/ WriteLog)

Next ==
  \/ \E t \in Threads : ~ Ended /\ ThreadStep(t)
  \/ Poll
  \/ ~ Ended /\ StopHostProc

(* The scheduler runs the poll thread; nothing says that a thread enters a *)
(* region, works, ends or reports.                                         *)
Spec == Init /\ [][Next]_vars /\ WF_vars(Poll)

-----------------------------------------------------------------------------
TypeOK ==
  /\ stage \in [Threads -> Stages]
  /\ id \in [Threads -> Ids \cup {Nobody}]
  /\ counter \in [Threads -> 0 .. MaxWork]
  /\ registered_threads \in [Ids -> Threads \cup {Nobody}]
  /\ host_interface_mutex \in {Nobody, Poller}
  /\ log_mutex \in Threads \cup {Nobody}
  /\ LogIteration \in 0 .. Cardinality(Threads)
  /\ csv \in Seq(Threads \cup {Nobody})
  /\ poll \in {"lock", "read", "check", "sleep", "done"}
  /\ toRead \in SUBSET Ids
  /\ copies \in [Ids -> 0 .. MaxWork]
  /\ host_poll_stop \in BOOLEAN
  /\ logged \in [Threads -> 0 .. MaxWork]

(* While the poll thread walks the list, every entry it has still to copy  *)
(* is on the list and belongs to a thread whose thread_local counters      *)
(* exist: an ending thread waits for the poll ("May need a lock here so    *)
(* that the host doesn't poll a thread that has exited").                  *)
PollReadsLiveThreads ==
  poll = "read" =>
    \A i \in toRead : IsRegistered(i) /\ Live(registered_threads[i])

(* A list entry belongs to the live thread that has its id, so a thread    *)
(* that is given the id of an ended one never finds a stale entry in its   *)
(* place.                                                                  *)
EntriesFollowIds ==
  \A i \in RegisteredIds :
    Live(registered_threads[i]) /\ id[registered_threads[i]] = i

(* The report of a thread that has been through zray_finalize is in the    *)
(* CSV exactly once, after the one header, whatever other threads end at   *)
(* the same time: no later report truncates it away.                       *)
ReportsSurvive ==
  /\ \A t \in Threads :
       stage[t] \in {"reported", "dead"} =>
         Cardinality({k \in DOMAIN csv : csv[k] = t}) = 1
  /\ \A k \in DOMAIN csv : csv[k] = Nobody <=> k = 1

(* What a thread has counted reaches the log within some later poll,       *)
(* unless the thread ends first or the program does.                       *)
WorkReachesTheLog ==
  \A t \in Threads :
    (stage[t] = "registered" /\ counter[t] = MaxWork)
      ~> (logged[t] = MaxWork \/ stage[t] # "registered" \/ host_poll_stop)

(* Raising the stop flag ends the poll thread, so the join in atexit       *)
(* returns.                                                                *)
StopEndsThePoll == host_poll_stop ~> (poll = "done")

(* "The last poll runs after the stop flag is raised so the tail of the    *)
(* run is captured": when the process ends, the log has the final counters *)
(* of every thread that ended before it.                                   *)
TailIsLogged ==
  Ended => \A t \in Threads : stage[t] = "dead" => logged[t] = counter[t]

=============================================================================
