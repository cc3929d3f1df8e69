----------------------------- MODULE StatusReader -----------------------------
(***************************************************************************)
(* The `status' command beside the commands that write the run.  It takes  *)
(* no lock for its whole length: it probes the lock, reads status.json of  *)
(* one stage after the other, probes the lock again if the first probe     *)
(* found it free, and then compares committed results with their digests.  *)
(* A probe is itself an attempt to take the lock, dropped at once.  `run'  *)
(* and `resume' end with the same report, made after they have released    *)
(* the lock: the process that makes it is a Reader here.                   *)
(***************************************************************************)
EXTENDS PipelineRun

CONSTANT Reader

ASSUME ReaderAssumption == Reader \cap (Proc \cup {NoProc}) = {}

VARIABLES
    rpc,        \* what each reader does next
    next,       \* the stage it reads or judges next
    locked,     \* whether a probe has found the lock taken
    verify,     \* whether it compares results with their digests
    seen,       \* status.json of each stage, as read
    report,     \* the state it reports for each stage
    watched     \* who has held the lock since the reader began

reader == <<rpc, next, locked, verify, seen, report>>
allVars == <<vars, reader, watched>>

Pending == [state |-> "pending", attempt |-> 0, input |-> NoInput, result |-> NoResult]
NoReport == [s \in Stage |-> "pending"]

InitReaders ==
    /\ rpc = [r \in Reader |-> "idle"]
    /\ next = [r \in Reader |-> Resolve]
    /\ locked = [r \in Reader |-> FALSE]
    /\ verify = [r \in Reader |-> TRUE]
    /\ seen = [r \in Reader |-> [s \in Stage |-> Pending]]
    /\ report = [r \in Reader |-> NoReport]
    /\ watched = [r \in Reader |-> {}]

-----------------------------------------------------------------------------

BeginStatus(r, v) ==
    /\ rpc[r] = "idle"
    /\ rpc' = [rpc EXCEPT ![r] = "probe"]
    /\ verify' = [verify EXCEPT ![r] = v]
    /\ UNCHANGED <<vars, next, locked, seen, report>>

\* is_held: a taken lock is seen as such; a free one is taken, and dropped by the
\* next step.  The lock file is there from the creation of the run.
AfterProbe(r) == IF rpc[r] = "probe" THEN "read" ELSE "judge"

\* Mutant: the outcome of the probe is dropped.
ProbeTakenUnnoticed(r) ==
    /\ rpc[r] \in {"probe", "again"}
    /\ lock \notin {NoProc, r}
    /\ rpc' = [rpc EXCEPT ![r] = AfterProbe(r)]
    /\ UNCHANGED <<vars, next, locked, verify, seen, report>>

ProbeTaken(r) ==
    /\ rpc[r] \in {"probe", "again"}
    /\ lock \notin {NoProc, r}
    /\ locked' = [locked EXCEPT ![r] = TRUE]
    /\ rpc' = [rpc EXCEPT ![r] = AfterProbe(r)]
    /\ UNCHANGED <<vars, next, verify, seen, report>>

ProbeFree(r) ==
    /\ rpc[r] \in {"probe", "again"}
    /\ lock = NoProc
    /\ lock' = r
    /\ UNCHANGED <<disk, made, local, reader>>

DropProbe(r) ==
    /\ rpc[r] \in {"probe", "again"}
    /\ lock = r
    /\ lock' = NoProc
    /\ rpc' = [rpc EXCEPT ![r] = AfterProbe(r)]
    /\ UNCHANGED <<disk, made, local, next, locked, verify, seen, report>>

\* The statuses are read in stage order; the second probe is made only if the
\* first has not found a holder.
ReadStatus(r) ==
    /\ rpc[r] = "read"
    /\ seen' = [seen EXCEPT ![r] = [seen[r] EXCEPT ![next[r]] = status[next[r]]]]
    /\ IF next[r] < NumStages
         THEN /\ next' = [next EXCEPT ![r] = next[r] + 1]
              /\ UNCHANGED rpc
         ELSE /\ next' = [next EXCEPT ![r] = Resolve]
              /\ rpc' = [rpc EXCEPT ![r] = IF locked[r] THEN "judge" ELSE "again"]
    /\ UNCHANGED <<vars, locked, verify, report>>

\* Mutant: the report of a stage is its status, whoever holds the lock.
ReportedAsRead(r, s) == seen[r][s].state

\* What is reported for a stage, given the status read and result.json now.
Reported(r, s) ==
    CASE seen[r][s].state = "running" /\ ~locked[r] -> "interrupted"
      [] seen[r][s].state = "succeeded" /\ verify[r]
           /\ (resultFile[s] # seen[r][s].result \/ <<s, "result">> \in damaged)
         -> "failed"
      [] OTHER -> seen[r][s].state

Judge(r) ==
    /\ rpc[r] = "judge"
    /\ report' = [report EXCEPT ![r] =
                                     [report[r] EXCEPT ![next[r]] = Reported(r, next[r])]]
    /\ IF next[r] < NumStages
         THEN /\ next' = [next EXCEPT ![r] = next[r] + 1]
              /\ UNCHANGED rpc
         ELSE /\ rpc' = [rpc EXCEPT ![r] = "done"]
              /\ UNCHANGED next
    /\ UNCHANGED <<vars, locked, verify, seen>>

\* Mutant: the release of an unfinished probe, whoever has the lock.
EndStatusAndFree(r) ==
    /\ rpc[r] # "idle"
    /\ rpc' = [rpc EXCEPT ![r] = "idle"]
    /\ next' = [next EXCEPT ![r] = Resolve]
    /\ locked' = [locked EXCEPT ![r] = FALSE]
    /\ verify' = [verify EXCEPT ![r] = TRUE]
    /\ seen' = [seen EXCEPT ![r] = [s \in Stage |-> Pending]]
    /\ report' = [report EXCEPT ![r] = NoReport]
    /\ lock' = NoProc
    /\ UNCHANGED <<disk, made, local>>

\* The report is printed, or the reader killed; either way it is gone, and with
\* it the lock of an unfinished probe.
EndStatus(r) ==
    /\ rpc[r] # "idle"
    /\ rpc' = [rpc EXCEPT ![r] = "idle"]
    /\ next' = [next EXCEPT ![r] = Resolve]
    /\ locked' = [locked EXCEPT ![r] = FALSE]
    /\ verify' = [verify EXCEPT ![r] = TRUE]
    /\ seen' = [seen EXCEPT ![r] = [s \in Stage |-> Pending]]
    /\ report' = [report EXCEPT ![r] = NoReport]
    /\ lock' = IF lock = r THEN NoProc ELSE lock
    /\ UNCHANGED <<disk, made, local>>

ReaderStep(r) ==
    \/ \E v \in BOOLEAN : BeginStatus(r, v)
    \/ ProbeTaken(r) \/ ProbeFree(r) \/ DropProbe(r)
    \/ ReadStatus(r) \/ Judge(r) \/ EndStatus(r)

\* Bookkeeping: the holders of the lock while a reader is at work.
Observe ==
    watched' = [r \in Reader |->
                  IF rpc'[r] = "idle" THEN {} ELSE watched[r] \cup {lock, lock'}]

NextWithReaders ==
    /\ \/ Next /\ UNCHANGED reader
       \/ \E r \in Reader : ReaderStep(r)
    /\ Observe

InitWithReaders == Init /\ InitReaders

SpecWithReaders == InitWithReaders /\ [][NextWithReaders]_allVars

\* Beside the fairness of the commands, a reader that has taken the lock to probe
\* it goes on to drop it, or is killed.
FairSpecWithReaders ==
    /\ SpecWithReaders
    /\ Fairness
    /\ \A r \in Reader : WF_vars(DropProbe(r) \/ EndStatus(r))

-----------------------------------------------------------------------------
(* Properties.                                                             *)

\* With nobody else at the run the report is right: a stage left RUNNING is
\* INTERRUPTED, a committed one is FAILED only if its result is damaged, and every
\* other is what status.json says.
QuietReportIsRight ==
    \A r \in Reader : rpc[r] = "done" /\ watched[r] \subseteq {r, NoProc} =>
        \A s \in Stage :
            \/ report[r][s] = status[s].state /\ status[s].state # "running"
            \/ status[s].state = "running" /\ report[r][s] = "interrupted"
            \/ /\ status[s].state = "succeeded" /\ report[r][s] = "failed"
               /\ <<s, "result">> \in damaged

\* A stage is not called interrupted while one command holds the run from the
\* reader's first step to its last, whatever stages the command passes through
\* between the reads.
LiveCommandIsNotInterrupted ==
    \A r \in Reader, p \in Proc : rpc[r] = "done" /\ watched[r] = {p} =>
        \A s \in Stage : seen[r][s].state = "running" => report[r][s] = "running"

\* To the commands a reader that probes the lock is nobody: while it has the lock
\* they are refused, and find it free again when the probe is dropped.
HeldByCommand == IF lock \in Proc THEN lock ELSE NoProc
Alone == INSTANCE PipelineRun WITH lock <- HeldByCommand

\* Beside any readers the commands do what they do alone, and no more: a probe is
\* no step of theirs, and a lock that a reader has taken is never mistaken for
\* one of theirs.
ImplementsPipelineRun == Alone!Spec

-----------------------------------------------------------------------------
(* Why: what readers rely on.                                              *)

\* A probe keeps commands out, and nothing else: a stage that is called succeeded
\* has the result that it names, whatever the readers do.
CommandsKeepOrder ==
    /\ \A p \in Proc : pc[p] # "idle" => lock = p
    /\ \A p \in Proc : pc[p] \in InFlight /\ at[p] \in Stage
                          => status[at[p]].state = "running"
    /\ \A p \in Proc : pc[p] = "written" /\ at[p] \in Stage
                          => resultFile[at[p]] = job[p].result
    /\ \A s \in Stage : status[s].state = "succeeded" => resultFile[s] = status[s].result

\* Files and processes are where the program puts them.
CommandsHaveShape ==
    /\ status = [s \in Stage |-> status[s]] /\ resultFile = [s \in Stage |-> resultFile[s]]
    /\ pc = [p \in Proc |-> pc[p]] /\ job = [p \in Proc |-> job[p]]
    /\ at \in [Proc -> Nat] /\ cmd \in [Proc -> Command]

ReadersHaveShape ==
    /\ rpc \in [Reader -> {"idle", "probe", "read", "again", "judge", "done"}]
    /\ next \in [Reader -> Stage]
    /\ locked \in [Reader -> BOOLEAN] /\ verify \in [Reader -> BOOLEAN]
    /\ seen = [r \in Reader |-> [s \in Stage |-> seen[r][s]]]
    /\ report = [r \in Reader |-> [s \in Stage |-> report[r][s]]]
    /\ watched = [r \in Reader |-> watched[r]]
    /\ \A r \in Reader : rpc[r] # "idle" => lock \in watched[r]
    /\ \A r \in Reader : rpc[r] \in {"idle", "probe", "again"} => next[r] = Resolve
    /\ \A r \in Reader : rpc[r] = "idle" => ~locked[r]

\* The stages that a reader has read, and those that it has judged.
Read(r) ==
    CASE rpc[r] \in {"idle", "probe"} -> {}
      [] rpc[r] = "read" -> {s \in Stage : s < next[r]}
      [] OTHER -> Stage
Judged(r) ==
    CASE rpc[r] = "judge" -> {s \in Stage : s < next[r]}
      [] rpc[r] = "done" -> Stage
      [] OTHER -> {}

\* What is right to report for a stage if no command is at work.
IsRight(r, s) ==
    \/ report[r][s] = status[s].state /\ status[s].state # "running"
    \/ status[s].state = "running" /\ report[r][s] = "interrupted"
    \/ /\ status[s].state = "succeeded" /\ report[r][s] = "failed"
       /\ <<s, "result">> \in damaged

\* A reader that has seen nobody at work has read what is on disk.
QuietReader(r) ==
    rpc[r] # "idle" /\ watched[r] \subseteq {r, NoProc} =>
        /\ ~locked[r]
        /\ \A s \in Read(r) : seen[r][s] = status[s]
        /\ \A s \in Judged(r) : IsRight(r, s)

\* A reader beside one command knows from its first probe that one is at work.
LiveReader(r) ==
    \A p \in Proc : rpc[r] # "idle" /\ watched[r] = {p} =>
        /\ rpc[r] # "probe" => locked[r]
        /\ \A s \in Judged(r) : seen[r][s].state = "running" => report[r][s] = "running"

ReaderInv ==
    /\ CommandsHaveShape /\ CommandsKeepOrder
    /\ ReadersHaveShape
    /\ \A r \in Reader : QuietReader(r) /\ LiveReader(r)

=============================================================================
