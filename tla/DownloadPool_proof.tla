-------------------------- MODULE DownloadPool_proof --------------------------
(***************************************************************************)
(* What a failed download reports, for any number of artifacts, workers    *)
(* and retries.                                                            *)
(***************************************************************************)
EXTENDS DownloadPool, TLAPS

\* A task that changes takes a value of its kind.
LEMMA TaskType == ASSUME TypeOK, NEW a \in Artifact, NEW t \in Task, Becomes(a, t)
                  PROVE /\ task' \in [Artifact -> Task]
                        /\ \A b \in Artifact : task'[b] = IF b = a THEN t ELSE task[b]
BY DEF TypeOK, Becomes

\* What a worker does while the session is open is no other's fault.
LEMMA WorkerStep == ASSUME PoolInv, NEW a \in Artifact,
                           Work(a) \/ TransferFails(a) \/ Reject(a)
                    PROVE PoolInv'
<1>0. TypeOK
  BY DEF PoolInv
<1>1. CASE TakeTask(a)
  <2> DEFINE t == IF failure = Nothing THEN "working" ELSE "failed"
  <2>1. t \in Task /\ Becomes(a, t) /\ UNCHANGED <<main, retries, session, failure, pending, signal, outcome>>
    BY <1>1 DEF TakeTask, Task
  <2>2. t = "failed" => failure # Nothing
    OBVIOUS
  <2>3. task' \in [Artifact -> Task] /\ \A b \in Artifact : task'[b] = IF b = a THEN t ELSE task[b]
    BY <1>0, <2>1, TaskType
  <2> HIDE DEF t
  <2> QED BY <2>1, <2>2, <2>3 DEF PoolInv, TypeOK, CauseIsOriginal
<1>2. CASE Abandon(a)
  <2>1. task' \in [Artifact -> Task] /\ \A b \in Artifact : task'[b] = IF b = a THEN "failed" ELSE task[b]
    BY <1>0, <1>2, TaskType DEF Abandon, Task
  <2> QED BY <1>2, <2>1 DEF Abandon, PoolInv, TypeOK, CauseIsOriginal
<1>3. CASE AddTransfer(a)
  <2>1. task' \in [Artifact -> Task] /\ \A b \in Artifact : task'[b] = IF b = a THEN "transfer" ELSE task[b]
    BY <1>0, <1>3, TaskType DEF AddTransfer, Task
  <2>2. retries' \in [Artifact -> 0..(MaxRetries + 1)]
    BY <1>0, <1>3, WorkersAssumption DEF AddTransfer, TypeOK
  <2> QED BY <1>3, <2>1, <2>2 DEF AddTransfer, PoolInv, TypeOK, CauseIsOriginal
<1>4. CASE TransferCompletes(a) \/ Adopt(a)
  <2>1. PICK t \in {"hashing", "done"} : Becomes(a, t)
    BY <1>4 DEF TransferCompletes, Adopt
  <2>2. task' \in [Artifact -> Task] /\ \A b \in Artifact : task'[b] = IF b = a THEN t ELSE task[b]
    BY <1>0, <2>1, TaskType DEF Task
  <2> QED BY <1>4, <2>2 DEF TransferCompletes, Adopt, PoolInv, TypeOK, CauseIsOriginal
\* Of an error the first is recorded; the session's own is one only after it is closed.
<1>5. ASSUME NEW cause \in Artifact \cup {Closed}, Record(cause), Becomes(a, "failed"),
             cause = Closed => session = "closed",
             UNCHANGED <<main, retries, session, pending, signal, outcome>>
      PROVE PoolInv'
  <2>1. task' \in [Artifact -> Task] /\ \A b \in Artifact : task'[b] = IF b = a THEN "failed" ELSE task[b]
    BY <1>0, <1>5, TaskType DEF Task
  <2>2. /\ failure' \in Cause \cup {Nothing} /\ failure' # Sigterm /\ failure' # Nothing
        /\ session = "running" => failure' # Closed
        /\ failure \in Artifact => failure' \in Artifact
    BY <1>0, <1>5, CausesAssumption DEF Record, Cause, PoolInv, TypeOK
  <2> QED BY <1>5, <2>1, <2>2 DEF PoolInv, TypeOK, CauseIsOriginal
<1>6. CASE SessionGone(a) \/ GiveUp(a) \/ Reject(a)
  BY <1>5, <1>6, CausesAssumption DEF SessionGone, GiveUp, Reject
<1>7. CASE TransferFails(a)
  <2>1. CASE Becomes(a, "working") /\ UNCHANGED failure
    <3>1. task' \in [Artifact -> Task] /\ \A b \in Artifact : task'[b] = IF b = a THEN "working" ELSE task[b]
      BY <1>0, <2>1, TaskType DEF Task
    <3> QED BY <1>7, <2>1, <3>1 DEF TransferFails, PoolInv, TypeOK, CauseIsOriginal
  <2>2. CASE Becomes(a, "failed") /\ Record(a)
    <3>1. a # Closed
      BY CausesAssumption
    <3> QED BY <1>5, <1>7, <2>2, <3>1 DEF TransferFails
  <2> QED BY <1>7, <2>1, <2>2 DEF TransferFails
<1> QED BY <1>1, <1>2, <1>3, <1>4, <1>6, <1>7 DEF Work

\* The main thread sees a failure while the session is open, and keeps it.
LEMMA MainThreadStep == ASSUME PoolInv, MainStep \/ SignalIsLost \/ SignalArrives PROVE PoolInv'
<1>1. CASE SessionStarts \/ SignalIsLost
  BY <1>1 DEF SessionStarts, SignalIsLost, PoolInv, TypeOK, Main, CauseIsOriginal
<1>2. ASSUME NEW a \in Artifact, SeeFailure(a) PROVE PoolInv'
  <2>1. failure \in Artifact
    BY <1>2, CausesAssumption DEF SeeFailure, PoolInv, TypeOK, Cause
  <2> QED BY <1>2, <2>1 DEF SeeFailure, PoolInv, TypeOK, Main, Cause, CauseIsOriginal
<1>3. CASE CloseSession
  BY <1>3 DEF CloseSession, PoolInv, TypeOK, CauseIsOriginal
<1>4. CASE CancelQueued
  <2>1. /\ task' \in [Artifact -> Task]
        /\ \A a \in Artifact : task'[a] = "failed" => task[a] = "failed"
    BY <1>4 DEF CancelQueued, PoolInv, TypeOK, Task
  <2> QED BY <1>4, <2>1 DEF CancelQueued, PoolInv, TypeOK, Main, CauseIsOriginal
<1>5. CASE Raise
  <2>1. outcome' \in Cause \cup {Nothing} /\ (pending # Sigterm => outcome' \in Artifact)
    BY <1>5, CausesAssumption DEF Raise, PoolInv, TypeOK
  <2> QED BY <1>5, <2>1 DEF Raise, PoolInv, TypeOK, Main, CauseIsOriginal
<1>6. CASE Return
  BY <1>6 DEF Return, PoolInv, TypeOK, Main, CauseIsOriginal
<1>7. CASE SignalArrives
  BY <1>7 DEF SignalArrives, PoolInv, TypeOK, Main, Cause, CauseIsOriginal
<1> QED BY <1>1, <1>2, <1>3, <1>4, <1>5, <1>6, <1>7 DEF MainStep

\* Which failure is recorded, and by whom, at each step of the command.
THEOREM PoolInvariant == Spec => []PoolInv
<1>1. ASSUME Init PROVE PoolInv
  <2>1. task \in [Artifact -> Task] /\ retries \in [Artifact -> 0..(MaxRetries + 1)]
    BY <1>1, WorkersAssumption DEF Init, Task
  <2>2. signal \in BOOLEAN
    BY <1>1, FiniteAssumption DEF Init
  <2>3. \A a \in Artifact : task[a] # "failed"
    BY <1>1 DEF Init
  <2> QED BY <1>1, <2>1, <2>2, <2>3, CausesAssumption
          DEF Init, PoolInv, TypeOK, Main, CauseIsOriginal
<1>2. PoolInv /\ [Next]_vars => PoolInv'
  <2>1. PoolInv /\ Next => PoolInv'
    BY WorkerStep, MainThreadStep DEF Next
  <2>2. PoolInv /\ UNCHANGED vars => PoolInv'
    BY DEF vars, PoolInv, TypeOK, CauseIsOriginal
  <2> QED BY <2>1, <2>2
<1> QED BY <1>1, <1>2, PTL DEF Spec

\* A download that is not interrupted reports what went wrong first: an artifact,
\* not the session that its failure has closed.
THEOREM CauseIsTheFirst == Spec => []CauseIsOriginal
<1>1. PoolInv => CauseIsOriginal
  BY DEF PoolInv
<1> QED BY <1>1, PoolInvariant, PTL

=============================================================================
