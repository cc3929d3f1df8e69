--------------------------- MODULE VmLifecycle_proof ---------------------------
(***************************************************************************)
(* What a cleanup may claim, for any roles and any number of faults.       *)
(***************************************************************************)
EXTENDS VmLifecycle, TLAPS

\* A cleaner that goes on keeps its record in shape, and touches no other's.
LEMMA SetType ==
    ASSUME TypeOK, NEW c \in Cleaner, NEW step \in CleanerPC, NEW candidate \in BOOLEAN,
           NEW vmDeleted \in BOOLEAN, NEW incomplete \in BOOLEAN,
           Set(c, step, candidate, vmDeleted, incomplete)
    PROVE /\ cleaner' \in [Cleaner -> Execution]
          /\ cleaner'[c].pc = step /\ cleaner'[c].candidate = candidate
          /\ cleaner'[c].vmDeleted = vmDeleted /\ cleaner'[c].incomplete = incomplete
          /\ \A d \in Cleaner \ {c} : cleaner'[d] = cleaner[d]
BY DEF TypeOK, Set, Execution

LEMMA FaultType == ASSUME TypeOK, Faulty \/ UNCHANGED faults PROVE faults' \in 0..MaxFaults
BY FaultsAssumption DEF TypeOK, Faulty

LEMMA CleanerIs == ASSUME TypeOK, NEW c \in Cleaner
                   PROVE /\ cleaner[c].pc \in CleanerPC /\ cleaner[c].candidate \in BOOLEAN
                         /\ cleaner[c].vmDeleted \in BOOLEAN /\ cleaner[c].incomplete \in BOOLEAN
BY DEF TypeOK, Execution

LEMMA StartedType == ASSUME TypeOK, NEW c \in Cleaner, cleaner' = [cleaner EXCEPT ![c] = Started(c)]
                     PROVE /\ cleaner' \in [Cleaner -> Execution]
                           /\ cleaner'[c].pc = "list" /\ ~cleaner'[c].vmDeleted
                           /\ \A d \in Cleaner \ {c} : cleaner'[d] = cleaner[d]
<1>1. Started(c) \in Execution
  BY DEF Started, TypeOK, Execution, CleanerPC
<1> QED BY <1>1 DEF TypeOK, Started

-----------------------------------------------------------------------------
(* The parties other than the cleaners.                                    *)

\* Aeza and the VM.
ProviderStep ==
    \/ ServiceProceeds \/ ServiceIsLost \/ RunnersComeOnline \/ Expire \/ EmergencyDelete

\* The jobs on the VM, and those that watch them.
JobStep ==
    \/ JobsStart \/ JobsEnd \/ \E r \in Role : RunnerLeaves(r)
    \/ QueueAssigned \/ WatchdogHasCleaned \/ MonitorSeesJobsOver \/ MonitorCancels
    \/ CancelRun \/ UserCancels

\* A service that is deleted stays so, and none is there before it is ordered.
LEMMA Provider == ASSUME VmInv, ProviderStep PROVE VmInv'
<1>1. TypeOK'
  <2> USE FaultsAssumption DEF VmInv, TypeOK, ServiceState
  <2>1. CASE ServiceProceeds
    BY <2>1 DEF ServiceProceeds, run, github
  <2>2. CASE ServiceIsLost
    BY <2>2 DEF ServiceIsLost, Faulty, run, github
  <2>3. CASE RunnersComeOnline
    BY <2>3 DEF RunnersComeOnline, run, aeza
  <2>4. CASE Expire
    BY <2>4 DEF Expire, run, github
  <2>5. CASE EmergencyDelete
    BY <2>5 DEF EmergencyDelete, Faulty, run, github
  <2> QED BY <2>1, <2>2, <2>3, <2>4, <2>5 DEF ProviderStep
<1>2. /\ UNCHANGED <<runners, provision, watchdog, cleaner>>
      /\ service \in {"none", "deleted"} => service' = service
  BY DEF ProviderStep, ServiceProceeds, ServiceIsLost, RunnersComeOnline, Expire,
         EmergencyDelete, run, github, aeza
<1> QED BY <1>1, <1>2 DEF VmInv, JobsInOrder, VmDeletedIsTrue, NoRunnerIsLeft

\* The provision job acts only while no cleaner does.
LEMMA Provision == ASSUME VmInv, ProvisionStep PROVE VmInv'
<1>1. provision \notin {"ok", "failed"} /\ UNCHANGED cleaner
  BY DEF ProvisionStep, CreateKey, OrderService, FindService, WaitForActive, CreateRunner,
         SubmitBootstrap, WaitForOnline, ProvisionFails, Answered, ToNext
<1>2. \A c \in Cleaner : cleaner'[c].pc = "off"
  BY <1>1 DEF VmInv, JobsInOrder
<1>3. watchdog = "off"
  BY <1>1 DEF VmInv, JobsInOrder
<1>4. watchdog' # "off" => provision' = "ok"
  BY <1>3 DEF ProvisionStep, CreateKey, OrderService, FindService, WaitForActive, CreateRunner,
         SubmitBootstrap, WaitForOnline, ProvisionFails, ToNext, run
<1>5. provision' \in {"key", "order"} => service' = "none"
  BY DEF ProvisionStep, CreateKey, OrderService, FindService, WaitForActive, CreateRunner,
         SubmitBootstrap, WaitForOnline, ProvisionFails, Answered, ToNext, VmInv, JobsInOrder
<1>6. \A c \in Cleaner : cleaner'[c].vmDeleted /\ cleaner'[c].candidate => service' = "deleted"
  BY <1>1 DEF ProvisionStep, CreateKey, OrderService, FindService, WaitForActive, CreateRunner,
         SubmitBootstrap, WaitForOnline, ProvisionFails, Answered, ToNext, VmInv, JobsInOrder,
         VmDeletedIsTrue, aeza
<1>7. TypeOK'
  <2> USE DEF VmInv, TypeOK, ServiceState, ProvisionPC, WatchdogPC, Answered, ToNext
  <2>1. CASE CreateKey
    BY <2>1 DEF CreateKey, run, github
  <2>2. CASE OrderService
    BY <2>2 DEF OrderService, run, github
  <2>3. CASE FindService
    BY <2>3 DEF FindService, run, aeza, github
  <2>4. CASE WaitForActive
    BY <2>4 DEF WaitForActive, run, aeza, github
  <2>5. ASSUME NEW r \in Role, CreateRunner(r) PROVE TypeOK'
    <3>1. runners' \subseteq Role /\ UNCHANGED <<aeza, online, run, cleaner, faults>>
      BY <2>5 DEF CreateRunner
    <3>2. CASE UNCHANGED outputs /\ provision = "jit" /\ provision' = "failed"
      BY <3>1, <3>2 DEF aeza, run
    <3>3. CASE outputs' = [server |-> TRUE, runners |-> runners'] /\ provision' \in {"jit", "bootstrap"}
      BY <3>1, <3>3 DEF aeza, run
    <3> QED BY <2>5, <3>2, <3>3 DEF CreateRunner
  <2>6. CASE SubmitBootstrap
    BY <2>6 DEF SubmitBootstrap, run, github
  <2>7. CASE WaitForOnline
    BY <2>7 DEF WaitForOnline, aeza, github
  <2>8. CASE ProvisionFails
    <3>1. outputs'.server \in BOOLEAN /\ outputs'.runners \subseteq Role
      <4>1. CASE outputs' = outputs
        BY <4>1
      <4>2. CASE outputs' = [server |-> FALSE, runners |-> {}]
        BY <4>2
      <4> QED BY <2>8, <4>1, <4>2 DEF ProvisionFails
    <3> QED BY <2>8, <3>1 DEF ProvisionFails, run, aeza, github
  <2> QED BY <2>1, <2>2, <2>3, <2>4, <2>5, <2>6, <2>7, <2>8 DEF ProvisionStep
<1> QED BY <1>2, <1>4, <1>5, <1>6, <1>7
        DEF VmInv, JobsInOrder, VmDeletedIsTrue, NoRunnerIsLeft, Cleaner

\* Jobs and watchdog leave the service alone, and runners only go.
LEMMA Job == ASSUME VmInv, JobStep PROVE VmInv'
<1>1. UNCHANGED <<service, cleaner>> /\ runners' \subseteq runners
  BY DEF JobStep, JobsStart, JobsEnd, RunnerLeaves, QueueAssigned, WatchdogHasCleaned,
         MonitorSeesJobsOver, MonitorCancels, CancelRun, UserCancels, aeza, github
<1>2. /\ provision' \notin {"ok", "failed"} => provision' = provision
      /\ provision = "ok" => provision' = "ok"
      /\ watchdog' # "off" => watchdog # "off"
  BY DEF JobStep, JobsStart, JobsEnd, RunnerLeaves, QueueAssigned, WatchdogHasCleaned,
         MonitorSeesJobsOver, MonitorCancels, CancelRun, UserCancels, run
<1>3. TypeOK'
  <2> USE FaultsAssumption DEF VmInv, TypeOK, WatchdogPC, ProvisionPC, aeza, github, Faulty
  <2>1. CASE JobsStart \/ JobsEnd
    BY <2>1 DEF JobsStart, JobsEnd
  <2>2. ASSUME NEW r \in Role, RunnerLeaves(r) PROVE TypeOK'
    BY <2>2 DEF RunnerLeaves, run
  <2>3. CASE QueueAssigned \/ WatchdogHasCleaned \/ MonitorSeesJobsOver
    BY <2>3 DEF QueueAssigned, WatchdogHasCleaned, MonitorSeesJobsOver
  <2>4. CASE MonitorCancels
    BY <2>4 DEF MonitorCancels
  <2>5. CASE CancelRun
    <3>1. CASE cancelled' = TRUE /\ jobs' = "over" /\ UNCHANGED faults
      BY <2>5, <3>1 DEF CancelRun
    <3>2. CASE Faulty /\ UNCHANGED <<cancelled, jobs>>
      BY <2>5, <3>2 DEF CancelRun
    <3> QED BY <2>5, <3>1, <3>2 DEF CancelRun
  <2>6. CASE UserCancels
    BY <2>6 DEF UserCancels
  <2> QED BY <2>1, <2>2, <2>3, <2>4, <2>5, <2>6 DEF JobStep
<1> QED BY <1>1, <1>2, <1>3 DEF VmInv, JobsInOrder, VmDeletedIsTrue, NoRunnerIsLeft, Cleaner

-----------------------------------------------------------------------------
(* The cleaners.                                                           *)

\* What a cleaner does to its record, when the service is gone or is given up.
LEMMA GiveUpType == ASSUME TypeOK, NEW c \in Cleaner, GiveUpService(c)
                    PROVE /\ cleaner' \in [Cleaner -> Execution]
                          /\ cleaner'[c].pc = "runners" /\ ~cleaner'[c].vmDeleted
                          /\ \A d \in Cleaner \ {c} : cleaner'[d] = cleaner[d]
<1>1. Set(c, "runners", cleaner[c].candidate, FALSE, TRUE) /\ "runners" \in CleanerPC
  BY DEF GiveUpService, CleanerPC
<1>2. cleaner[c].candidate \in BOOLEAN
  BY CleanerIs
<1> QED BY <1>1, <1>2, SetType

LEMMA GoneType == ASSUME TypeOK, NEW c \in Cleaner, NEW candidate \in BOOLEAN,
                         ServiceGone(c, candidate)
                  PROVE /\ cleaner' \in [Cleaner -> Execution]
                        /\ cleaner'[c].pc = "keys" /\ cleaner'[c].vmDeleted
                        /\ cleaner'[c].candidate = candidate
                        /\ \A d \in Cleaner \ {c} : cleaner'[d] = cleaner[d]
<1>1. Set(c, "keys", candidate, TRUE, FALSE) /\ "keys" \in CleanerPC
  BY DEF ServiceGone, CleanerPC
<1>2. /\ cleaner' \in [Cleaner -> Execution]
      /\ cleaner'[c].pc = "keys" /\ cleaner'[c].candidate = candidate
      /\ cleaner'[c].vmDeleted = TRUE /\ cleaner'[c].incomplete = FALSE
      /\ \A d \in Cleaner \ {c} : cleaner'[d] = cleaner[d]
  BY <1>1, SetType, Zenon
<1> QED BY <1>2

LEMMA EndType ==
    ASSUME TypeOK, NEW c \in Cleaner, NEW incomplete \in BOOLEAN,
           Set(c, "done", cleaner[c].candidate, cleaner[c].vmDeleted, incomplete)
    PROVE /\ cleaner' \in [Cleaner -> Execution]
          /\ cleaner'[c].pc = "done" /\ cleaner'[c].candidate = cleaner[c].candidate
          /\ cleaner'[c].vmDeleted = cleaner[c].vmDeleted
          /\ cleaner'[c].incomplete = incomplete
          /\ \A d \in Cleaner \ {c} : cleaner'[d] = cleaner[d]
<1>1. /\ cleaner[c].candidate \in BOOLEAN /\ cleaner[c].vmDeleted \in BOOLEAN
      /\ "done" \in CleanerPC
  BY CleanerIs DEF CleanerPC
<1> QED BY <1>1, SetType

\* The invariant holds after a step of one cleaner if the others are untouched, and
\* the service goes on only if none of them can claim that it is deleted.
LEMMA OneCleaner ==
    ASSUME VmInv, NEW c \in Cleaner, TypeOK', cleaner[c].pc # "off",
           \A d \in Cleaner \ {c} : cleaner'[d] = cleaner[d],
           UNCHANGED <<provision, watchdog>>, runners' \subseteq runners,
           service = "deleted" => service' = "deleted",
           cleaner'[c].vmDeleted /\ cleaner'[c].candidate => service' = "deleted",
           cleaner'[c].pc = "keys" => cleaner'[c].vmDeleted,
           cleaner'[c].pc = "done" /\ ~cleaner'[c].incomplete => runners' = {}
    PROVE VmInv'
<1>1. provision \in {"ok", "failed"}
  BY DEF VmInv, JobsInOrder
<1>2. JobsInOrder'
  BY <1>1 DEF VmInv, JobsInOrder
<1>3. VmDeletedIsTrue'
  BY DEF VmInv, VmDeletedIsTrue
<1>4. NoRunnerIsLeft'
  <2>1. CASE c = "cleanup"
    BY <2>1 DEF NoRunnerIsLeft
  <2>2. CASE c # "cleanup"
    BY <2>2 DEF VmInv, NoRunnerIsLeft, Cleaner
  <2> QED BY <2>1, <2>2
<1> QED BY <1>2, <1>3, <1>4 DEF VmInv

LEMMA CleanerActs == ASSUME VmInv, NEW c \in Cleaner, CleanerStep(c) \/ CleanerDies(c) PROVE VmInv'
<1>1. TypeOK
  BY DEF VmInv
<1>2. cleaner[c].pc # "off" /\ Keep
  BY DEF CleanerStep, CleanerDies, List, DeleteService, ConfirmDeleted, DeleteKeys, DeleteRunners
<1>3. UNCHANGED <<provision, watchdog>>
  BY <1>2 DEF Keep, run
<1>4. ASSUME cleaner' \in [Cleaner -> Execution], service' \in ServiceState,
             sshKey' \in BOOLEAN, runners' \subseteq Role, faults' \in 0..MaxFaults
      PROVE TypeOK'
  BY <1>1, <1>2, <1>4 DEF TypeOK, Keep, run
<1>5. CASE List(c)
  <2>1. UNCHANGED <<service, sshKey, runners>> /\ faults' \in 0..MaxFaults
    BY <1>1, <1>5, FaultType DEF List
  <2>2. CASE Set(c, "delete", TRUE, FALSE, FALSE)
    <3>1. /\ cleaner' \in [Cleaner -> Execution]
          /\ cleaner'[c].pc = "delete" /\ ~cleaner'[c].vmDeleted
          /\ \A d \in Cleaner \ {c} : cleaner'[d] = cleaner[d]
      <4>1. "delete" \in CleanerPC
        BY DEF CleanerPC
      <4> QED BY <1>1, <2>2, <4>1, SetType
    <3>2. TypeOK'
      BY <1>1, <1>4, <2>1, <3>1 DEF TypeOK
    <3> QED BY <1>2, <1>3, <2>1, <3>1, <3>2, OneCleaner
  <2>3. CASE ServiceGone(c, FALSE)
    <3>1. /\ cleaner' \in [Cleaner -> Execution]
          /\ cleaner'[c].pc = "keys" /\ cleaner'[c].vmDeleted /\ ~cleaner'[c].candidate
          /\ \A d \in Cleaner \ {c} : cleaner'[d] = cleaner[d]
      BY <1>1, <2>3, GoneType
    <3>2. TypeOK'
      BY <1>1, <1>4, <2>1, <3>1 DEF TypeOK
    <3> QED BY <1>2, <1>3, <2>1, <3>1, <3>2, OneCleaner
  <2>4. CASE GiveUpService(c)
    <3>1. TypeOK'
      BY <1>1, <1>4, <2>1, <2>4, GiveUpType DEF TypeOK
    <3> QED BY <1>1, <1>2, <1>3, <2>1, <2>4, <3>1, GiveUpType, OneCleaner
  <2> QED BY <1>5, <2>2, <2>3, <2>4 DEF List
<1>6. CASE DeleteService(c)
  <2>1. UNCHANGED <<sshKey, runners>> /\ faults' \in 0..MaxFaults
    BY <1>1, <1>6, FaultType DEF DeleteService
  <2>2. service' \in ServiceState /\ (service = "deleted" => service' = "deleted")
    BY <1>1, <1>6 DEF DeleteService, TypeOK, ServiceState
  <2>3. CASE service = "deleted" /\ ServiceGone(c, TRUE)
    <3>1. TypeOK'
      BY <1>1, <1>4, <2>1, <2>2, <2>3, GoneType DEF TypeOK
    <3> QED BY <1>1, <1>2, <1>3, <2>1, <2>2, <2>3, <3>1, GoneType, OneCleaner
  <2>4. CASE Set(c, "confirm", TRUE, FALSE, FALSE)
    <3>1. /\ cleaner' \in [Cleaner -> Execution]
          /\ cleaner'[c].pc = "confirm" /\ ~cleaner'[c].vmDeleted
          /\ \A d \in Cleaner \ {c} : cleaner'[d] = cleaner[d]
      <4>1. "confirm" \in CleanerPC
        BY DEF CleanerPC
      <4> QED BY <1>1, <2>4, <4>1, SetType
    <3>2. TypeOK'
      BY <1>1, <1>4, <2>1, <2>2, <3>1 DEF TypeOK
    <3> QED BY <1>2, <1>3, <2>1, <2>2, <3>1, <3>2, OneCleaner
  <2>5. CASE GiveUpService(c)
    <3>1. TypeOK'
      BY <1>1, <1>4, <2>1, <2>2, <2>5, GiveUpType DEF TypeOK
    <3> QED BY <1>1, <1>2, <1>3, <2>1, <2>2, <2>5, <3>1, GiveUpType, OneCleaner
  <2> QED BY <1>6, <2>3, <2>4, <2>5 DEF DeleteService
<1>7. CASE ConfirmDeleted(c)
  <2>1. UNCHANGED <<service, sshKey, runners, faults>>
    BY <1>7 DEF ConfirmDeleted
  <2>2. CASE service = "deleted"
    <3>1. ServiceGone(c, TRUE)
      BY <1>7, <2>2 DEF ConfirmDeleted
    <3>2. TypeOK'
      BY <1>1, <1>4, <2>1, <3>1, GoneType DEF TypeOK
    <3> QED BY <1>1, <1>2, <1>3, <2>1, <2>2, <3>1, <3>2, GoneType, OneCleaner
  <2>3. CASE service # "deleted"
    <3>1. GiveUpService(c)
      BY <1>7, <2>3 DEF ConfirmDeleted
    <3>2. TypeOK'
      BY <1>1, <1>4, <2>1, <3>1, GiveUpType DEF TypeOK
    <3> QED BY <1>1, <1>2, <1>3, <2>1, <3>1, <3>2, GiveUpType, OneCleaner
  <2> QED BY <2>2, <2>3
<1>8. CASE DeleteKeys(c)
  <2>1. /\ UNCHANGED <<service, runners>> /\ faults' \in 0..MaxFaults /\ sshKey' \in BOOLEAN
    BY <1>1, <1>8, FaultType DEF DeleteKeys, TypeOK
  <2>2. PICK incomplete \in BOOLEAN :
           Set(c, "runners", cleaner[c].candidate, TRUE, incomplete)
    BY <1>8 DEF DeleteKeys
  <2>3. /\ cleaner' \in [Cleaner -> Execution]
        /\ cleaner'[c].pc = "runners" /\ cleaner'[c].candidate = cleaner[c].candidate
        /\ \A d \in Cleaner \ {c} : cleaner'[d] = cleaner[d]
    <3>1. "runners" \in CleanerPC /\ cleaner[c].candidate \in BOOLEAN
      BY <1>1, CleanerIs DEF CleanerPC
    <3> QED BY <1>1, <2>2, <3>1, SetType
  <2>4. cleaner[c].vmDeleted
    BY <1>8 DEF DeleteKeys, VmInv, JobsInOrder
  <2>5. TypeOK'
    BY <1>1, <1>4, <2>1, <2>3 DEF TypeOK
  <2>6. cleaner[c].candidate => service = "deleted"
    BY <2>4 DEF VmInv, VmDeletedIsTrue
  <2> QED BY <1>2, <1>3, <2>1, <2>3, <2>5, <2>6, OneCleaner
<1>9. CASE DeleteRunners(c) \/ CleanerDies(c)
  <2>1. /\ UNCHANGED <<service, sshKey>> /\ faults' \in 0..MaxFaults /\ runners' \subseteq runners
    BY <1>1, <1>9, FaultType DEF DeleteRunners, CleanerDies
  <2>2. PICK incomplete \in BOOLEAN :
           /\ Set(c, "done", cleaner[c].candidate, cleaner[c].vmDeleted, incomplete)
           /\ ~incomplete => runners' = {}
    <3>1. CASE CleanerDies(c)
      BY <3>1 DEF CleanerDies
    <3>2. CASE DeleteRunners(c)
      <4>1. cleaner[c].incomplete \in BOOLEAN
        BY <1>1, CleanerIs
      <4> QED BY <3>2, <4>1 DEF DeleteRunners
    <3> QED BY <1>9, <3>1, <3>2
  <2>3. /\ cleaner' \in [Cleaner -> Execution]
        /\ cleaner'[c].pc = "done" /\ cleaner'[c].incomplete = incomplete
        /\ cleaner'[c].candidate = cleaner[c].candidate
        /\ cleaner'[c].vmDeleted = cleaner[c].vmDeleted
        /\ \A d \in Cleaner \ {c} : cleaner'[d] = cleaner[d]
    BY <1>1, <2>2, EndType
  <2>4. TypeOK'
    BY <1>1, <1>4, <2>1, <2>3 DEF TypeOK
  <2>5. cleaner[c].vmDeleted /\ cleaner[c].candidate => service = "deleted"
    BY DEF VmInv, VmDeletedIsTrue
  <2> QED BY <1>2, <1>3, <2>1, <2>2, <2>3, <2>4, <2>5, OneCleaner
<1> QED BY <1>5, <1>6, <1>7, <1>8, <1>9 DEF CleanerStep

\* A cleanup begins when the provision job is over; then it knows nothing yet.
LEMMA CleanerBegins == ASSUME VmInv, StartCleanup \/ StartReconciler \/ QueueTimesOut \/ WatchdogDies
                       PROVE VmInv'
<1>1. TypeOK
  BY DEF VmInv
<1>2. CASE StartCleanup \/ StartReconciler \/ QueueTimesOut
  <2>1. PICK c \in Cleaner : cleaner' = [cleaner EXCEPT ![c] = Started(c)]
    BY <1>2 DEF StartCleanup, StartReconciler, QueueTimesOut, Cleaner
  <2>2. /\ cleaner' \in [Cleaner -> Execution]
        /\ cleaner'[c].pc = "list" /\ ~cleaner'[c].vmDeleted
        /\ \A d \in Cleaner \ {c} : cleaner'[d] = cleaner[d]
    BY <1>1, <2>1, StartedType
  <2>3. /\ UNCHANGED <<service, sshKey, timer, expired, runners, online, provision, outputs,
                       jobs, cancelled, faults>>
        /\ watchdog' \in {watchdog, "cleanup"} /\ (watchdog = "off" => watchdog' = "off")
    BY <1>2 DEF StartCleanup, StartReconciler, QueueTimesOut, Keep, run, aeza, github
  <2>4. provision \in {"ok", "failed"}
    <3>1. CASE StartCleanup
      BY <3>1 DEF StartCleanup
    <3>2. CASE QueueTimesOut
      BY <3>2 DEF QueueTimesOut, VmInv, JobsInOrder
    <3>3. CASE StartReconciler
      BY <3>3 DEF StartReconciler, VmInv, JobsInOrder, Cleaner
    <3> QED BY <1>2, <3>1, <3>2, <3>3
  <2>5. TypeOK'
    BY <1>1, <2>2, <2>3 DEF TypeOK, WatchdogPC
  <2>6. JobsInOrder'
    BY <2>2, <2>3, <2>4 DEF VmInv, JobsInOrder
  <2>7. VmDeletedIsTrue'
    BY <2>2, <2>3 DEF VmInv, VmDeletedIsTrue
  <2>8. NoRunnerIsLeft'
    BY <2>2, <2>3 DEF VmInv, NoRunnerIsLeft, Cleaner
  <2> QED BY <2>5, <2>6, <2>7, <2>8 DEF VmInv
<1>3. CASE WatchdogDies
  <2>1. /\ UNCHANGED <<service, sshKey, timer, expired, runners, online, provision, outputs,
                       jobs, cancelled>>
        /\ watchdog # "off" /\ watchdog' = "done" /\ faults' \in 0..MaxFaults
    BY <1>1, <1>3, FaultsAssumption DEF WatchdogDies, Faulty, aeza, github, TypeOK
  <2>2. CASE cleaner' = cleaner
    <3>1. TypeOK'
      BY <1>1, <2>1, <2>2 DEF TypeOK, WatchdogPC
    <3> QED BY <2>1, <2>2, <3>1 DEF VmInv, JobsInOrder, VmDeletedIsTrue, NoRunnerIsLeft
  <2>3. CASE cleaner' = [cleaner EXCEPT !["watchdog"] =
                            [pc |-> "done", candidate |-> @.candidate,
                             vmDeleted |-> @.vmDeleted, incomplete |-> TRUE]]
    <3> DEFINE w == "watchdog"
    <3>1. w \in Cleaner
      BY DEF Cleaner
    <3>2. Set(w, "done", cleaner[w].candidate, cleaner[w].vmDeleted, TRUE)
      BY <2>3 DEF Set
    <3>3. /\ cleaner' \in [Cleaner -> Execution]
          /\ cleaner'[w].pc = "done" /\ cleaner'[w].candidate = cleaner[w].candidate
          /\ cleaner'[w].vmDeleted = cleaner[w].vmDeleted
          /\ cleaner'[w].incomplete = TRUE
          /\ \A d \in Cleaner \ {w} : cleaner'[d] = cleaner[d]
      BY <1>1, <3>1, <3>2, EndType
    <3>4. TypeOK'
      BY <1>1, <2>1, <3>3 DEF TypeOK, WatchdogPC
    <3>5. JobsInOrder'
      BY <2>1, <3>3 DEF VmInv, JobsInOrder
    <3>6. VmDeletedIsTrue'
      BY <2>1, <3>1, <3>3 DEF VmInv, VmDeletedIsTrue
    <3>7. NoRunnerIsLeft'
      BY <2>1, <3>3 DEF VmInv, NoRunnerIsLeft, Cleaner
    <3> QED BY <3>4, <3>5, <3>6, <3>7 DEF VmInv
  <2> QED BY <1>3, <2>2, <2>3 DEF WatchdogDies
<1> QED BY <1>2, <1>3

-----------------------------------------------------------------------------
(* The theorems.                                                           *)

\* The order of the jobs, and what their cleanups know, at every step.
THEOREM VmInvariant == Spec => []VmInv
<1>1. ASSUME Init PROVE VmInv
  <2>1. \A c \in Cleaner : cleaner[c] = Idle
    BY <1>1 DEF Init
  <2>2. cleaner \in [Cleaner -> Execution]
    BY <1>1 DEF Init, Idle, Execution, CleanerPC
  <2>3. TypeOK
    <3>1. /\ service \in ServiceState /\ provision \in ProvisionPC /\ watchdog \in WatchdogPC
          /\ outputs.server \in BOOLEAN /\ outputs.runners \subseteq Role
          /\ runners \subseteq Role
          /\ jobs \in {"waiting", "running", "over"} /\ faults \in 0..MaxFaults
          /\ provision \notin {"activate", "jit", "bootstrap", "online"}
      BY <1>1, FaultsAssumption DEF Init, ServiceState, ProvisionPC, WatchdogPC
    <3>2. /\ sshKey \in BOOLEAN /\ timer \in BOOLEAN /\ expired \in BOOLEAN
          /\ online \in BOOLEAN /\ cancelled \in BOOLEAN
      BY <1>1 DEF Init
    <3> QED BY <2>2, <3>1, <3>2 DEF TypeOK
  <2>4. JobsInOrder /\ VmDeletedIsTrue /\ NoRunnerIsLeft
    BY <1>1, <2>1 DEF Init, JobsInOrder, VmDeletedIsTrue, NoRunnerIsLeft, Idle, Cleaner
  <2> QED BY <2>3, <2>4 DEF VmInv
<1>2. VmInv /\ [Next]_vars => VmInv'
  <2>1. VmInv /\ Next => VmInv'
    BY Provider, Provision, Job, CleanerActs, CleanerBegins
       DEF Next, ProviderStep, JobStep, WatchdogStep
  <2>2. VmInv /\ UNCHANGED vars => VmInv'
    BY DEF vars, aeza, github, run, VmInv, TypeOK, JobsInOrder, VmDeletedIsTrue, NoRunnerIsLeft
  <2> QED BY <2>1, <2>2
<1> QED BY <1>1, <1>2, PTL DEF Spec

\* vm_deleted is true for good, with any number of lost answers and dead jobs.
THEOREM VmDeletedIsRight == Spec => []VmDeletedIsTrue
<1>1. VmInv => VmDeletedIsTrue
  BY DEF VmInv
<1> QED BY <1>1, VmInvariant, PTL

\* A complete cleanup leaves no runner, for any set of roles.
THEOREM RunnersAreGone == Spec => []NoRunnerIsLeft
<1>1. VmInv => NoRunnerIsLeft
  BY DEF VmInv
<1> QED BY <1>1, VmInvariant, PTL

=============================================================================
