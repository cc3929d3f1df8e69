------------------------------ MODULE VmLifecycle ------------------------------
(***************************************************************************)
(* The temporary VM of one attempt of process-game-release.yml: the SSH    *)
(* key, the hourly billed service and the runner registrations, which the  *)
(* provision job creates at two providers and four parties take away: the  *)
(* cleanup job, the queue watchdog, the reconciler workflow and the timer  *)
(* on the VM itself.                                                       *)
(*                                                                         *)
(* A call may be accepted and its answer lost, an accepted order is listed *)
(* only later, a DELETE is queued, and a job may die between two calls.    *)
(* Names carry the attempt, so that everything here belongs to one.        *)
(***************************************************************************)
EXTENDS Naturals

CONSTANTS
    Role,       \* the runners of the VM
    MaxFaults   \* bound on failed calls, dead jobs and lost VMs

ASSUME RoleAssumption   == Role # {}
ASSUME FaultsAssumption == MaxFaults \in Nat

Cleaner == {"cleanup", "watchdog", "reconciler"}
\* "ordered": accepted, not listed yet; "lost": suspended or blocked;
\* "deleting": a DELETE is queued.
ServiceState == {"none", "ordered", "pending", "active", "lost", "deleting", "deleted"}
Listed == {"pending", "active", "lost", "deleting"}
ProvisionPC == {"key", "order", "find", "activate", "jit", "bootstrap", "online",
                "ok", "failed"}
WatchdogPC == {"off", "queue", "monitor", "cleanup", "cancel", "done"}
CleanerPC == {"off", "list", "delete", "confirm", "keys", "runners", "done"}

VARIABLES
    service,    \* the VM at Aeza
    sshKey,     \* is the SSH key registered at Aeza?
    runners,    \* the runners registered at GitHub
    online,     \* have they come online?
    timer,      \* is the emergency timer of the VM armed?
    expired,    \* has the absolute deadline passed?
    provision,  \* the next step of the provision job
    outputs,    \* the ids the provision job has written
    jobs,       \* download and publication
    watchdog,   \* the next step of the queue watchdog
    cancelled,  \* has the run been cancelled?
    cleaner,    \* the executions of runner_lifecycle.py cleanup
    faults      \* faults so far

aeza == <<service, sshKey, timer, expired>>
github == <<runners, online>>
run == <<jobs, watchdog, cancelled>>
vars == <<aeza, github, provision, outputs, run, cleaner, faults>>

\* candidate: the service has been found or is given; vmDeleted: the output of
\* that name; incomplete: the command reports "Cleanup incomplete".
Idle == [pc |-> "off", candidate |-> FALSE, vmDeleted |-> FALSE, incomplete |-> FALSE]

Init ==
    /\ service = "none" /\ sshKey = FALSE
    /\ timer = FALSE /\ expired = FALSE
    /\ runners = {} /\ online = FALSE
    /\ provision = "key"
    /\ outputs = [server |-> FALSE, runners |-> {}]
    /\ jobs = "waiting" /\ watchdog = "off" /\ cancelled = FALSE
    /\ cleaner = [c \in Cleaner |-> Idle]
    /\ faults = 0

\* One of the bounded faults.
Faulty == faults < MaxFaults /\ faults' = faults + 1

-----------------------------------------------------------------------------
(* The providers.                                                          *)

\* An accepted order is listed, the VM boots, a queued DELETE is carried out.
ServiceProceeds ==
    /\ service \in {"ordered", "pending", "deleting"}
    /\ service' = CASE service = "ordered"  -> "pending"
                    [] service = "pending"  -> "active"
                    [] service = "deleting" -> "deleted"
    /\ UNCHANGED <<sshKey, timer, expired, github, provision, outputs, run, cleaner, faults>>

\* The VM is suspended or blocked.
ServiceIsLost ==
    /\ Faulty
    /\ service \in {"pending", "active"}
    /\ service' = "lost"
    /\ UNCHANGED <<sshKey, timer, expired, github, provision, outputs, run, cleaner>>

\* The bootstrap on the VM starts the runners that have been given a JIT
\* configuration.
RunnersComeOnline ==
    /\ ~online
    /\ timer /\ service = "active"
    /\ runners = Role
    /\ online' = TRUE
    /\ UNCHANGED <<aeza, runners, provision, outputs, run, cleaner, faults>>

\* Four hours after the provision job has begun.
Expire ==
    /\ ~expired
    /\ provision \in {"ok", "failed"}
    /\ expired' = TRUE
    /\ UNCHANGED <<service, sshKey, timer, github, provision, outputs, run, cleaner, faults>>

-----------------------------------------------------------------------------
(* gup-emergency-self-destruct, on the VM: it fails as long as it has not  *)
(* found the service deleted, and systemd starts it again.                 *)

\* Mutant: the DELETE is the end of it.
EmergencyDeleteOnce ==
    /\ timer /\ expired
    /\ service \in {"active", "deleting"}
    /\ timer' = FALSE
    /\ \/ service' = "deleting" /\ UNCHANGED faults
       \/ Faulty /\ UNCHANGED service
    /\ UNCHANGED <<sshKey, expired, github, provision, outputs, run, cleaner>>

EmergencyDelete ==
    /\ timer /\ expired
    /\ service \in {"active", "deleting"}
    /\ \/ service' = "deleting" /\ UNCHANGED faults
       \/ Faulty /\ UNCHANGED service
    /\ UNCHANGED <<sshKey, timer, expired, github, provision, outputs, run, cleaner>>

-----------------------------------------------------------------------------
(* The provision job.  No POST is sent twice: after a lost answer, which the *)
(* steps below write as going on to "failed", the job is over.             *)

ToNext(step, next) == provision = step /\ provision' = next
Answered(step, next) == ToNext(step, next) \/ ToNext(step, "failed")

CreateKey ==
    /\ Answered("key", "order")
    /\ sshKey' = TRUE
    /\ UNCHANGED <<service, timer, expired, github, outputs, run, cleaner, faults>>

OrderService ==
    /\ Answered("order", "find")
    /\ service' = "ordered"
    /\ UNCHANGED <<sshKey, timer, expired, github, outputs, run, cleaner, faults>>

FindService ==
    /\ ToNext("find", "activate")
    /\ service \in Listed
    /\ outputs' = [server |-> TRUE, runners |-> {}]
    /\ UNCHANGED <<aeza, github, run, cleaner, faults>>

WaitForActive ==
    /\ ToNext("activate", "jit")
    /\ service = "active"
    /\ UNCHANGED <<aeza, github, outputs, run, cleaner, faults>>

CreateRunner(r) ==
    /\ r \notin outputs.runners
    /\ runners' = runners \cup {r}
    /\ \/ /\ ToNext("jit", IF runners' = Role THEN "bootstrap" ELSE "jit")
          /\ outputs' = [server |-> TRUE, runners |-> runners']
       \/ ToNext("jit", "failed") /\ UNCHANGED outputs
    /\ UNCHANGED <<aeza, online, run, cleaner, faults>>

\* The payload, submitted once, arms the timer and then starts the bootstrap.  When
\* its acknowledgement is lost, the runners will show whether it has arrived.
SubmitBootstrap ==
    /\ service = "active"
    /\ Answered("bootstrap", "online")
    /\ timer' \in BOOLEAN
    /\ UNCHANGED <<service, sshKey, expired, github, outputs, run, cleaner, faults>>

WaitForOnline ==
    /\ ToNext("online", "ok")
    /\ online
    /\ watchdog' = "queue"
    /\ UNCHANGED <<aeza, github, outputs, jobs, cancelled, cleaner, faults>>

\* A call is rejected, a wait is over or the VM unusable; or the job dies, and its
\* outputs with it.
ProvisionFails ==
    /\ provision \notin {"ok", "failed"}
    /\ provision' = "failed"
    /\ outputs' \in {outputs, [server |-> FALSE, runners |-> {}]}
    /\ UNCHANGED <<aeza, github, run, cleaner, faults>>

-----------------------------------------------------------------------------
(* The jobs on the VM, and the queue watchdog beside them.                 *)

\* Jobs that need a failed provision are skipped.
JobsOver == jobs = "over" \/ provision = "failed"

JobsStart ==
    /\ jobs = "waiting"
    /\ provision = "ok" /\ service = "active"
    /\ jobs' = "running"
    /\ UNCHANGED <<aeza, github, provision, outputs, watchdog, cancelled, cleaner, faults>>

\* Jobs end, or GitHub gives up a runner that is lost, or has never come.
JobsEnd ==
    /\ jobs = "running" \/ (jobs = "waiting" /\ watchdog = "done" /\ expired)
    /\ jobs' = "over"
    /\ UNCHANGED <<aeza, github, provision, outputs, watchdog, cancelled, cleaner, faults>>

\* A JIT runner leaves after its one job.
RunnerLeaves(r) ==
    /\ jobs # "waiting"
    /\ r \in runners
    /\ runners' = runners \ {r}
    /\ UNCHANGED <<aeza, online, provision, outputs, run, cleaner, faults>>

QueueAssigned ==
    /\ watchdog = "queue"
    /\ jobs # "waiting"
    /\ watchdog' = "monitor"
    /\ UNCHANGED <<aeza, github, provision, outputs, jobs, cancelled, cleaner, faults>>

Started(c) == [pc |-> "list", candidate |-> c # "reconciler" /\ outputs.server,
               vmDeleted |-> FALSE, incomplete |-> FALSE]

\* The mutant waits for the download as long as it takes.
QueueNeverTimesOut == FALSE

QueueTimesOut ==
    /\ watchdog = "queue"
    /\ jobs = "waiting"
    /\ watchdog' = "cleanup"
    /\ cleaner' = [cleaner EXCEPT !["watchdog"] = Started("watchdog")]
    /\ UNCHANGED <<aeza, github, provision, outputs, jobs, cancelled, faults>>

WatchdogHasCleaned ==
    /\ watchdog = "cleanup"
    /\ cleaner["watchdog"].pc = "done"
    /\ watchdog' = IF cancelled THEN "done" ELSE "cancel"
    /\ UNCHANGED <<aeza, github, provision, outputs, jobs, cancelled, cleaner, faults>>

MonitorSeesJobsOver ==
    /\ watchdog = "monitor"
    /\ ~expired
    /\ JobsOver
    /\ watchdog' = "done"
    /\ UNCHANGED <<aeza, github, provision, outputs, jobs, cancelled, cleaner, faults>>

\* The VM is unavailable or past its deadline, or the monitor fails.
MonitorCancels ==
    /\ watchdog = "monitor"
    /\ \/ (service \in {"lost", "deleted"} \/ expired) /\ UNCHANGED faults
       \/ Faulty
    /\ watchdog' = "cancel"
    /\ UNCHANGED <<aeza, github, provision, outputs, jobs, cancelled, cleaner>>

CancelRun ==
    /\ watchdog = "cancel"
    /\ watchdog' = "done"
    /\ \/ cancelled' = TRUE /\ jobs' = "over" /\ UNCHANGED faults
       \/ Faulty /\ UNCHANGED <<cancelled, jobs>>
    /\ UNCHANGED <<aeza, github, provision, outputs, cleaner>>

\* The watchdog's job dies, a cleanup it has begun with it.
WatchdogDies ==
    /\ watchdog \notin {"off", "done"}
    /\ Faulty
    /\ watchdog' = "done"
    /\ cleaner' = IF watchdog = "cleanup"
                    THEN [cleaner EXCEPT !["watchdog"] =
                             [pc |-> "done", candidate |-> @.candidate,
                              vmDeleted |-> @.vmDeleted, incomplete |-> TRUE]]
                    ELSE cleaner
    /\ UNCHANGED <<aeza, github, provision, outputs, jobs, cancelled>>

\* Somebody cancels the run: what is always() to be done is still done.
UserCancels ==
    /\ ~cancelled
    /\ ~(JobsOver /\ watchdog \in {"off", "done"})
    /\ cancelled' = TRUE
    /\ jobs' = "over"
    /\ provision' = IF provision = "ok" THEN "ok" ELSE "failed"
    /\ watchdog' = IF watchdog \in {"off", "cleanup"} THEN watchdog ELSE "done"
    /\ UNCHANGED <<aeza, github, outputs, cleaner, faults>>

-----------------------------------------------------------------------------
(* runner_lifecycle.py cleanup.                                            *)

Set(c, step, candidate, vmDeleted, incomplete) ==
    cleaner' = [cleaner EXCEPT ![c] = [pc |-> step, candidate |-> candidate,
                                       vmDeleted |-> vmDeleted,
                                       incomplete |-> incomplete]]
\* The service could not be deleted: the keys are kept, the runners removed.
GiveUpService(c) == Set(c, "runners", cleaner[c].candidate, FALSE, TRUE)
ServiceGone(c, candidate) == Set(c, "keys", candidate, TRUE, FALSE)
Keep == UNCHANGED <<timer, expired, online, provision, outputs, run>>

\* The job needs all others; always().
StartCleanup ==
    /\ cleaner["cleanup"].pc = "off"
    /\ provision \in {"ok", "failed"}
    /\ JobsOver
    /\ watchdog = "done" \/ (watchdog = "off" /\ provision = "failed")
    /\ cleaner' = [cleaner EXCEPT !["cleanup"] = Started("cleanup")]
    /\ UNCHANGED <<service, sshKey, runners, faults>>
    /\ Keep

\* Started when the run has completed (workflow_run), or by hand at any later time.
StartReconciler ==
    /\ cleaner["cleanup"].pc = "done"
    /\ cleaner["reconciler"].pc \in {"off", "done"}
    /\ cleaner' = [cleaner EXCEPT !["reconciler"] = Started("reconciler")]
    /\ UNCHANGED <<service, sshKey, runners, faults>>
    /\ Keep

\* Mutant: only a service whose id is given.
ListGiven(c) ==
    /\ cleaner[c].pc = "list"
    /\ IF cleaner[c].candidate THEN Set(c, "delete", TRUE, FALSE, FALSE)
                               ELSE ServiceGone(c, FALSE)
    /\ UNCHANGED <<service, sshKey, runners, faults>>
    /\ Keep

List(c) ==
    /\ cleaner[c].pc = "list"
    /\ \/ /\ IF cleaner[c].candidate \/ service \in Listed
               THEN Set(c, "delete", TRUE, FALSE, FALSE)
               ELSE ServiceGone(c, FALSE)
          /\ UNCHANGED faults
       \/ Faulty /\ GiveUpService(c)
    /\ UNCHANGED <<service, sshKey, runners>>
    /\ Keep

\* A DELETE of unknown outcome is confirmed like one that is known to be queued.
DeleteService(c) ==
    /\ cleaner[c].pc = "delete"
    /\ \/ service = "deleted" /\ ServiceGone(c, TRUE) /\ UNCHANGED <<service, faults>>
       \/ /\ service # "deleted"
          /\ Set(c, "confirm", TRUE, FALSE, FALSE)
          /\ \/ service' = "deleting" /\ UNCHANGED faults
             \/ Faulty /\ UNCHANGED service
       \/ Faulty /\ GiveUpService(c) /\ UNCHANGED service
    /\ UNCHANGED <<sshKey, runners>>
    /\ Keep

\* Mutant: a DELETE that is queued will be carried out.
ConfirmAnything(c) ==
    /\ cleaner[c].pc = "confirm"
    /\ ServiceGone(c, TRUE)
    /\ UNCHANGED <<service, sshKey, runners, faults>>
    /\ Keep

ConfirmDeleted(c) ==
    /\ cleaner[c].pc = "confirm"
    /\ IF service = "deleted" THEN ServiceGone(c, TRUE) ELSE GiveUpService(c)
    /\ UNCHANGED <<service, sshKey, runners, faults>>
    /\ Keep

DeleteKeys(c) ==
    /\ cleaner[c].pc = "keys"
    /\ \/ /\ sshKey' = FALSE
          /\ Set(c, "runners", cleaner[c].candidate, TRUE, FALSE)
          /\ UNCHANGED faults
       \/ /\ Faulty
          /\ Set(c, "runners", cleaner[c].candidate, TRUE, TRUE)
          /\ UNCHANGED sshKey
    /\ UNCHANGED <<service, runners>>
    /\ Keep

\* Mutant: only runners whose ids are given.
DeleteGivenRunners(c) ==
    /\ cleaner[c].pc = "runners"
    /\ runners' = IF c = "reconciler" THEN runners ELSE runners \ outputs.runners
    /\ Set(c, "done", cleaner[c].candidate, cleaner[c].vmDeleted, cleaner[c].incomplete)
    /\ UNCHANGED <<service, sshKey, faults>>
    /\ Keep

\* Each role is tried, whatever has happened to the service and the others.
DeleteRunners(c) ==
    /\ cleaner[c].pc = "runners"
    /\ \/ /\ runners' = {}
          /\ Set(c, "done", cleaner[c].candidate, cleaner[c].vmDeleted, cleaner[c].incomplete)
          /\ UNCHANGED faults
       \/ /\ Faulty
          /\ runners' \in SUBSET runners
          /\ Set(c, "done", cleaner[c].candidate, cleaner[c].vmDeleted, TRUE)
    /\ UNCHANGED <<service, sshKey>>
    /\ Keep

CleanerDies(c) ==
    /\ c # "watchdog"
    /\ cleaner[c].pc \notin {"off", "done"}
    /\ Faulty
    /\ Set(c, "done", cleaner[c].candidate, cleaner[c].vmDeleted, TRUE)
    /\ UNCHANGED <<service, sshKey, runners>>
    /\ Keep

-----------------------------------------------------------------------------

ProvisionStep ==
    \/ CreateKey \/ OrderService \/ FindService \/ WaitForActive
    \/ \E r \in Role : CreateRunner(r)
    \/ SubmitBootstrap \/ WaitForOnline \/ ProvisionFails
WatchdogStep ==
    \/ QueueAssigned \/ QueueTimesOut \/ WatchdogHasCleaned
    \/ MonitorSeesJobsOver \/ MonitorCancels \/ CancelRun
CleanerStep(c) ==
    \/ List(c) \/ DeleteService(c) \/ ConfirmDeleted(c) \/ DeleteKeys(c)
    \/ DeleteRunners(c)

Next ==
    \/ ServiceProceeds \/ ServiceIsLost \/ RunnersComeOnline \/ Expire
    \/ EmergencyDelete
    \/ ProvisionStep
    \/ JobsStart \/ JobsEnd \/ \E r \in Role : RunnerLeaves(r)
    \/ WatchdogStep \/ WatchdogDies \/ UserCancels
    \/ StartCleanup \/ StartReconciler
    \/ \E c \in Cleaner : CleanerStep(c) \/ CleanerDies(c)

Spec == Init /\ [][Next]_vars

\* Aeza carries out what it has accepted, time passes, systemd starts the timer's
\* service again, jobs and commands have time limits.
Fairness ==
    /\ WF_vars(ServiceProceeds) /\ WF_vars(Expire) /\ WF_vars(EmergencyDelete)
    /\ WF_vars(ProvisionStep) /\ WF_vars(JobsEnd) /\ WF_vars(WatchdogStep)
    /\ WF_vars(StartCleanup)
    /\ \A c \in Cleaner : WF_vars(CleanerStep(c))

FairSpec == Spec /\ Fairness

-----------------------------------------------------------------------------
(* Properties.                                                             *)

Execution == [pc : CleanerPC, candidate : BOOLEAN, vmDeleted : BOOLEAN, incomplete : BOOLEAN]

\* The variables have their types, and the id of a service that the provision job
\* has found is among its outputs from then on.
TypeOK ==
    /\ service \in ServiceState
    /\ sshKey \in BOOLEAN /\ timer \in BOOLEAN /\ expired \in BOOLEAN
    /\ runners \subseteq Role /\ online \in BOOLEAN
    /\ provision \in ProvisionPC
    /\ outputs.server \in BOOLEAN /\ outputs.runners \subseteq Role
    /\ jobs \in {"waiting", "running", "over"}
    /\ watchdog \in WatchdogPC
    /\ cancelled \in BOOLEAN
    /\ cleaner \in [Cleaner -> Execution]
    /\ faults \in 0..MaxFaults
    /\ provision \in {"activate", "jit", "bootstrap", "online"} => outputs.server

\* A cleanup that had a service to delete and reports vm_deleted is right for good,
\* whichever cleanups, timers and lost answers were there besides.
VmDeletedIsTrue ==
    \A c \in Cleaner : cleaner[c].vmDeleted /\ cleaner[c].candidate => service = "deleted"

\* After a cleanup of the run that is not incomplete no runner of the attempt is
\* registered, not even one whose registration was accepted without an answer.
NoRunnerIsLeft ==
    cleaner["cleanup"].pc = "done" /\ ~cleaner["cleanup"].incomplete => runners = {}

\* Why: the provision job orders and registers only before any cleanup can begin,
\* and keys are deleted only for a service that is gone.
JobsInOrder ==
    /\ watchdog # "off" => provision = "ok"
    /\ provision \notin {"ok", "failed"} => \A c \in Cleaner : cleaner[c].pc = "off"
    /\ provision \in {"key", "order"} => service = "none"
    /\ \A c \in Cleaner : cleaner[c].pc = "keys" => cleaner[c].vmDeleted

VmInv == TypeOK /\ JobsInOrder /\ VmDeletedIsTrue /\ NoRunnerIsLeft

\* The run does not wait for ever: whatever becomes of the VM and of the jobs that
\* wait for its runners, the cleanup job is reached and ends.
CleanupIsReached == provision \in {"ok", "failed"} ~> cleaner["cleanup"].pc = "done"

\* Without any help from GitHub a VM whose timer is armed is deleted, unless it is
\* suspended and cannot run it.
TimerIsEnough == timer ~> service \in {"lost", "deleted"}

\* If the reconciler is started again and again, an order that has been accepted
\* ends deleted, whatever the provision job knows of it.
ReconcilerFindsIt ==
    []<>(cleaner["reconciler"].pc = "list")
        => (service = "ordered" ~> service = "deleted")

=============================================================================
