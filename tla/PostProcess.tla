----------------------------- MODULE PostProcess -----------------------------
(***************************************************************************)
(* The offline reader of the host log (src/post_process.cc), composed with *)
(* the HostMonitor that writes it.                                         *)
(*                                                                         *)
(* The reader goes through zray_host_log.bin once, front to back, after    *)
(* the program has ended.  Nothing it does depends on what comes later in  *)
(* the log, so its variables here hold the state it reaches on the log     *)
(* written so far, and the log itself need not be kept.                    *)
(***************************************************************************)
EXTENDS HostMonitor

(* No counter value is taken for "no record".                              *)
ASSUME ReaderAssumption == Nobody \notin Nat

VARIABLES
  CounterLogs,  (* the previous counters of each id; Nobody: no record yet   *)
  reported,     (* the sum of the counter deltas reported for each id        *)
  rejected,     (* the reader has exited on a negative delta                 *)
  owners        (* history: the threads each id has been given to            *)

readerVars == <<CounterLogs, reported, rejected>>
allVars == <<vars, readerVars, owners>>

ReaderInit ==
  /\ Init
  /\ CounterLogs = [i \in Ids |-> Nobody]
  /\ reported = [i \in Ids |-> 0]
  /\ rejected = FALSE
  /\ owners = [i \in Ids |-> {t \in Threads : id[t] = i}]

-----------------------------------------------------------------------------
Previous(i) == IF CounterLogs[i] = Nobody THEN 0 ELSE CounterLogs[i]

(* Mutated forms, used by the mutation runs only: the first record is kept *)
(* for ever; the counters are taken for increments.                        *)
FirstCounters(i, value) == IF CounterLogs[i] = Nobody THEN value
                                                      ELSE CounterLogs[i]
AddedUp(i, value)       == Previous(i) + value

(* What the reader remembers of a record for the next delta.               *)
Remembered(i, value) == value

(* The records of one poll: one per listed thread, so no id comes twice    *)
(* and their order does not matter.  A negative delta stops the reader     *)
(* before it reports the record.                                           *)
ReadEpoch ==
  IF rejected
    THEN UNCHANGED readerVars
    ELSE /\ rejected' = \E i \in RegisteredIds : copies[i] < Previous(i)
         /\ CounterLogs' = [i \in Ids |->
              IF IsRegistered(i) THEN Remembered(i, copies[i])
                                 ELSE CounterLogs[i]]
         /\ reported' = [i \in Ids |->
              IF IsRegistered(i) /\ copies[i] >= Previous(i)
                THEN reported[i] + (copies[i] - Previous(i))
                ELSE reported[i]]

NewOwners == owners' = [i \in Ids |-> owners[i] \cup {t \in Threads : id'[t] = i}]

(* The log grows by the records of a poll when the poll thread writes it.  *)
ReaderPoll ==
  /\ ~ Ended
  /\ \/ WriteLog /\ ReadEpoch
     \/ PollMove /\ UNCHANGED readerVars
  /\ UNCHANGED owners

ReaderThread(t) ==
  /\ ~ Ended
  /\ ThreadStep(t)
  /\ NewOwners
  /\ UNCHANGED readerVars

ReaderStop == ~ Ended /\ StopHostProc /\ UNCHANGED <<readerVars, owners>>

ReaderNext ==
  \/ ReaderPoll
  \/ \E t \in Threads : ReaderThread(t)
  \/ ReaderStop

ReaderSpec == ReaderInit /\ [][ReaderNext]_allVars /\ WF_allVars(ReaderPoll)

-----------------------------------------------------------------------------
(* The deltas reported for an id that one thread has had add up to the     *)
(* counters logged last for that thread: no epoch is lost or reported      *)
(* twice, however the thread's work and the polls interleave.              *)
DeltasAddUp ==
  \A i \in Ids, t \in Threads :
    (owners[i] = {t} /\ ~ rejected) => reported[i] = logged[t]

(* The reader takes counters that run backwards for an overflow and exits: *)
(* they do so only for an id that a later thread was given again.          *)
OnlyReuseIsRejected ==
  rejected => \E i \in Ids : \E t, u \in owners[i] : t # u

(* Every log the monitor writes can be read: the counters logged for an id *)
(* never go down ("Track latest region log to calculate deltas ... keyed   *)
(* on thread ID").                                                         *)
LogIsReadable == ~ rejected

=============================================================================
