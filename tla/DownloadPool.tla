----------------------------- MODULE DownloadPool -----------------------------
(***************************************************************************)
(* The workers of one download command.  Each artifact is a task of a      *)
(* thread pool; all of them share one aria2 process (the session) and one  *)
(* record of the first failure, which the others look at as they go.  The  *)
(* main thread waits for the tasks, takes SIGTERM, and in the end raises   *)
(* what the record says went wrong first.                                  *)
(***************************************************************************)
EXTENDS Naturals, FiniteSets

CONSTANTS
    Artifact,    \* the artifacts of the plan, none of them cached
    MaxWorkers,  \* max_workers of the pool
    Signalled,   \* is SIGTERM sent to the command?
    MaxRetries,  \* transfers of an artifact after the first
    Nothing,     \* no failure
    Closed,      \* "aria2 HTTP process is not running"
    Sigterm      \* PipelineInterrupted

ASSUME WorkersAssumption == MaxWorkers \in Nat \ {0} /\ MaxRetries \in Nat
ASSUME FiniteAssumption  == IsFiniteSet(Artifact) /\ Signalled \in BOOLEAN
ASSUME CausesAssumption  ==
    /\ {Nothing, Closed, Sigterm} \cap Artifact = {}
    /\ Nothing # Closed /\ Nothing # Sigterm /\ Closed # Sigterm

\* A failure is known by its cause: the artifact that failed, or one of the two.
Cause == Artifact \cup {Closed, Sigterm}

Task == {"queued", "working", "transfer", "hashing", "done", "failed", "cancelled"}
Busy == {"working", "transfer", "hashing"}
Ended == {"done", "failed", "cancelled"}
Main == {"starting", "waiting", "closing", "joining", "returned", "raised"}

VARIABLES
    main,      \* the main thread
    task,      \* the task of each artifact
    retries,   \* its transfers so far
    session,   \* is the aria2 process running?
    failure,   \* _failure_cause of the progress object
    pending,   \* the exception the main thread is handling
    signal,    \* is SIGTERM still to come?
    outcome    \* what the command ends with

vars == <<main, task, retries, session, failure, pending, signal, outcome>>

Init ==
    /\ main = "starting"
    /\ task = [a \in Artifact |-> "queued"]
    /\ retries = [a \in Artifact |-> 0]
    /\ session = "running"
    /\ failure = Nothing
    /\ pending = Nothing
    /\ signal = Signalled
    /\ outcome = Nothing

-----------------------------------------------------------------------------
(* A worker.                                                               *)

Becomes(a, t) == task' = [task EXCEPT ![a] = t]

\* Mutant: the last failure counts.
RecordLast(cause) == failure' = cause

\* _DownloadProgress.fail: the first failure counts.
Record(cause) ==
    failure' = IF failure = Nothing THEN cause ELSE failure

\* A free worker takes a task and first looks whether the download is over.
TakeTask(a) ==
    /\ main \in {"waiting", "closing"}
    /\ task[a] = "queued"
    /\ Cardinality({b \in Artifact : task[b] \in Busy}) < MaxWorkers
    /\ Becomes(a, IF failure = Nothing THEN "working" ELSE "failed")
    /\ UNCHANGED <<main, retries, session, failure, pending, signal, outcome>>

\* check_active, at any time in the life of a task.
Abandon(a) ==
    /\ task[a] \in Busy
    /\ failure # Nothing
    /\ Becomes(a, "failed")
    /\ UNCHANGED <<main, retries, session, failure, pending, signal, outcome>>

AddTransfer(a) ==
    /\ task[a] = "working"
    /\ session = "running"
    /\ retries[a] <= MaxRetries
    /\ Becomes(a, "transfer")
    /\ retries' = [retries EXCEPT ![a] = retries[a] + 1]
    /\ UNCHANGED <<main, session, failure, pending, signal, outcome>>

\* Mutant: a lost session is taken for a lost answer, and asked again.
SessionGoneUnnoticed(a) == FALSE

\* A call to a session that is gone, in addUri or in tellStatus.
SessionGone(a) ==
    /\ task[a] \in {"working", "transfer"}
    /\ session = "closed"
    /\ Becomes(a, "failed")
    /\ Record(Closed)
    /\ UNCHANGED <<main, retries, session, pending, signal, outcome>>

\* The transfer fails and is retried, or fails for good.
TransferFails(a) ==
    /\ task[a] = "transfer"
    /\ session = "running"
    /\ \/ /\ Becomes(a, "working")
          /\ UNCHANGED failure
       \/ /\ Becomes(a, "failed")
          /\ Record(a)
    /\ UNCHANGED <<main, retries, session, pending, signal, outcome>>

\* Retries used up, no progress, or a probe that is fatal.
GiveUp(a) ==
    /\ task[a] = "working"
    /\ Becomes(a, "failed")
    /\ Record(a)
    /\ UNCHANGED <<main, retries, session, pending, signal, outcome>>

TransferCompletes(a) ==
    /\ task[a] = "transfer"
    /\ session = "running"
    /\ Becomes(a, "hashing")
    /\ UNCHANGED <<main, retries, session, failure, pending, signal, outcome>>

Adopt(a) ==
    /\ task[a] = "hashing"
    /\ Becomes(a, "done")
    /\ UNCHANGED <<main, retries, session, failure, pending, signal, outcome>>

\* The hash is wrong at the last attempt, or the store refuses the file.
Reject(a) ==
    /\ task[a] = "hashing"
    /\ Becomes(a, "failed")
    /\ Record(a)
    /\ UNCHANGED <<main, retries, session, pending, signal, outcome>>

-----------------------------------------------------------------------------
(* The main thread.                                                        *)

\* The aria2 process answers getVersion, and the tasks are submitted.
SessionStarts ==
    /\ main = "starting"
    /\ main' = "waiting"
    /\ UNCHANGED <<task, retries, session, failure, pending, signal, outcome>>

\* Until then any StageExecutionError means "not yet", and PipelineInterrupted
\* is one.
SignalIsLost ==
    /\ main = "starting"
    /\ signal
    /\ signal' = FALSE
    /\ UNCHANGED <<main, task, retries, session, failure, pending, outcome>>

SignalArrives ==
    /\ main = "waiting"
    /\ signal
    /\ signal' = FALSE
    /\ pending' = Sigterm
    /\ main' = "closing"
    /\ UNCHANGED <<task, retries, session, failure, outcome>>

SeeFailure(a) ==
    /\ main = "waiting"
    /\ task[a] = "failed"
    /\ pending' = failure
    /\ main' = "closing"
    /\ UNCHANGED <<task, retries, session, failure, signal, outcome>>

\* The except clause: first the session is closed, then the queue is cancelled.
CloseSession ==
    /\ main = "closing"
    /\ session = "running"
    /\ session' = "closed"
    /\ UNCHANGED <<main, task, retries, failure, pending, signal, outcome>>

CancelQueued ==
    /\ main = "closing"
    /\ session = "closed"
    /\ task' = [a \in Artifact |-> IF task[a] = "queued" THEN "cancelled" ELSE task[a]]
    /\ main' = "joining"
    /\ UNCHANGED <<retries, session, failure, pending, signal, outcome>>

\* All threads have ended: raise the recorded cause, else the exception at hand.
Raise ==
    /\ main = "joining"
    /\ \A a \in Artifact : task[a] \in Ended
    /\ outcome' = IF failure # Nothing THEN failure ELSE pending
    /\ main' = "raised"
    /\ UNCHANGED <<task, retries, session, failure, pending, signal>>

Return ==
    /\ main = "waiting"
    /\ \A a \in Artifact : task[a] = "done"
    /\ session' = "closed"
    /\ main' = "returned"
    /\ UNCHANGED <<task, retries, failure, pending, signal, outcome>>

-----------------------------------------------------------------------------

\* What a worker does next if nothing goes wrong, or once it has.
Work(a) ==
    \/ TakeTask(a) \/ Abandon(a) \/ AddTransfer(a) \/ SessionGone(a)
    \/ GiveUp(a) \/ TransferCompletes(a) \/ Adopt(a)

MainStep ==
    \/ SessionStarts \/ \E a \in Artifact : SeeFailure(a)
    \/ CloseSession \/ CancelQueued \/ Raise \/ Return

Next ==
    \/ MainStep \/ SignalIsLost \/ SignalArrives
    \/ \E a \in Artifact : Work(a) \/ TransferFails(a) \/ Reject(a)

Spec == Init /\ [][Next]_vars

\* Every thread goes on; a transfer ends, well or by its progress timeout.
FairSpec == Spec /\ WF_vars(MainStep) /\ \A a \in Artifact : WF_vars(Work(a))

-----------------------------------------------------------------------------
(* Properties.                                                             *)

\* Every variable has its type, and no worker retries beyond the limit.
TypeOK ==
    /\ main \in Main
    /\ task \in [Artifact -> Task]
    /\ retries \in [Artifact -> 0..(MaxRetries + 1)]
    /\ session \in {"running", "closed"}
    /\ failure \in Cause \cup {Nothing}
    /\ pending \in Cause \cup {Nothing}
    /\ signal \in BOOLEAN
    /\ outcome \in Cause \cup {Nothing}

\* A command that is not interrupted reports an artifact that failed by itself,
\* never the error that closing the session gives the other workers, however
\* their failures interleave.
CauseIsOriginal == main = "raised" /\ pending # Sigterm => outcome \in Artifact

\* Why: a failure that is seen before the session is closed is an artifact's own,
\* and the first one stays.
PoolInv ==
    /\ TypeOK
    /\ failure # Sigterm
    /\ session = "running" => failure # Closed
    /\ main \in {"starting", "waiting"} => session = "running"
    /\ \A a \in Artifact : task[a] = "failed" => failure # Nothing
    /\ main \in {"closing", "joining", "raised"} /\ pending # Sigterm => failure \in Artifact
    /\ CauseIsOriginal

\* The command ends, with its artifacts or with an error.
CommandEnds == <>(main \in {"returned", "raised"})

=============================================================================
