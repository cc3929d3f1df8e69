----------------------------- MODULE PipelineRun -----------------------------
(***************************************************************************)
(* One run directory of the game downloader and the processes that execute *)
(* it.  A run is a fixed line of stages; every stage keeps three files     *)
(* (status.json, input.json, result.json), each replaced atomically but    *)
(* never together, so that a process may die between any two of them.  The *)
(* stages chain through digests: a stage's input names the digest of the   *)
(* result it was computed from.                                            *)
(*                                                                         *)
(* Digests are abstract and collision-free.  A result is known by the      *)
(* index at which it was first produced; `made' is the ledger of the       *)
(* inputs the results were computed from.  An implementation version here  *)
(* stands for the version string together with the stage's configuration,  *)
(* the two things besides the upstream result that enter an input digest.  *)
(***************************************************************************)
EXTENDS Naturals, Sequences

CONSTANTS
    NumStages,   \* the length of STAGE_ORDER
    Proc,        \* the processes that run `run' and `resume' commands
    Version,     \* implementation versions
    Build,       \* installed programs: the version of each stage
    Accepting,   \* the builds whose validator accepts a committed resolve
    Damageable,  \* the stages whose files the disk may damage
    MaxAttempts, \* bound on the attempts of a stage, tested as a command begins
    NoProc,      \* the lock is free
    NoInput      \* no input document

Stage == 1..NumStages
Resolve == 1
Snapshot == NumStages

ASSUME StagesAssumption == NumStages \in Nat /\ NumStages > 1
ASSUME BuildAssumption  == Build \subseteq [Stage -> Version] /\ Build # {}
ASSUME BoundAssumption  == MaxAttempts \in Nat
ASSUME ProcAssumption   == NoProc \notin Proc
ASSUME DamageableAssumption == Damageable \subseteq Stage

StageState == {"pending", "running", "succeeded", "failed", "interrupted"}
File == {"input", "result"}
NoResult == 0

Input == [stage : Stage, version : Version, upstream : Nat]
Status == [state   : StageState,
           attempt : Nat,
           input   : Input \cup {NoInput},
           result  : Nat]

\* The steps of a command, named for what the process has done last.
PC == {"idle", "reconcile", "predecessor", "stage", "start",
       "running", "execute", "written", "committing", "finish"}
\* Inside the try block of _execute_stage.
Guarded == {"start", "running", "execute", "written", "committing"}
\* RUNNING is on disk and SUCCEEDED is not.
InFlight == {"running", "execute", "written"}

Mode == {"full", "direct"}
Command == [until : Stage, mode : Mode, build : Build]
Job == [input : Input \cup {NoInput}, attempt : Nat, result : Nat]
NoJob == [input |-> NoInput, attempt |-> 0, result |-> NoResult]

VARIABLES
    status,      \* status.json of each stage
    inputFile,   \* input.json of each stage, as last written
    resultFile,  \* result.json of each stage, as last written
    damaged,     \* the files whose bytes are no longer what was written
    made,        \* made[r] is the input that result r was computed from
    lock,        \* the process that holds the run's advisory lock
    pc,          \* what each process does next
    cmd,         \* the command it executes
    at,          \* the stage it works on
    up,          \* the result of that stage's predecessor
    job          \* the attempt it makes at that stage

disk == <<status, inputFile, resultFile, damaged>>
local == <<pc, cmd, at, up, job>>
vars == <<disk, made, lock, local>>

NoCommand == [until |-> Resolve, mode |-> "full",
              build |-> CHOOSE b \in Build : TRUE]

Init ==
    /\ status = [s \in Stage |-> [state |-> "pending", attempt |-> 0,
                                  input |-> NoInput, result |-> NoResult]]
    /\ inputFile = [s \in Stage |-> NoInput]
    /\ resultFile = [s \in Stage |-> NoResult]
    /\ damaged = {}
    /\ made = << >>
    /\ lock = NoProc
    /\ pc = [p \in Proc |-> "idle"]
    /\ cmd = [p \in Proc |-> NoCommand]
    /\ at = [p \in Proc |-> Resolve]
    /\ up = [p \in Proc |-> NoResult]
    /\ job = [p \in Proc |-> NoJob]

-----------------------------------------------------------------------------
(* What a process reads.                                                   *)

\* _load_committed_result: the status, the input and the result agree.
Intact(s) ==
    /\ status[s].state = "succeeded"
    /\ inputFile[s] = status[s].input
    /\ resultFile[s] = status[s].result
    /\ \A f \in File : <<s, f>> \notin damaged

\* The input digest the process computes for its current stage.
Prepared(p) == [stage    |-> at[p],
                version  |-> cmd[p].build[at[p]],
                upstream |-> up[p]]

\* Mutant: a damaged or refused resolve is executed anew.
PinnedNever(p) == FALSE

\* A succeeded resolve is never executed again: it is used, or refused.
Pinned(p) == at[p] = Resolve /\ status[Resolve].state = "succeeded"

\* Mutants: any intact checkpoint will do; a direct resume always executes.
ReusableWhateverInput(p) == Intact(at[p])
ReusableUnlessDirect(p) ==
    cmd[p].mode = "full" /\ Intact(at[p]) /\ status[at[p]].input = Prepared(p)

Reusable(p) ==
    Intact(at[p]) /\ status[at[p]].input = Prepared(p)

\* Mutant: the lock outlives the command.
ReleaseNothing(p) ==
    /\ pc' = [pc EXCEPT ![p] = "idle"]
    /\ cmd' = [cmd EXCEPT ![p] = NoCommand]
    /\ at' = [at EXCEPT ![p] = Resolve]
    /\ up' = [up EXCEPT ![p] = NoResult]
    /\ job' = [job EXCEPT ![p] = NoJob]
    /\ UNCHANGED lock

\* The exception path and the normal path both end in lock.release().
Release(p) ==
    /\ lock' = NoProc
    /\ pc' = [pc EXCEPT ![p] = "idle"]
    /\ cmd' = [cmd EXCEPT ![p] = NoCommand]
    /\ at' = [at EXCEPT ![p] = Resolve]
    /\ up' = [up EXCEPT ![p] = NoResult]
    /\ job' = [job EXCEPT ![p] = NoJob]

\* Mutant: the upstream result is not passed on.
AdvanceWithoutUpstream(p, r) ==
    /\ \/ /\ at[p] = cmd[p].until
          /\ pc' = [pc EXCEPT ![p] = "finish"]
          /\ UNCHANGED at
       \/ /\ at[p] # cmd[p].until
          /\ pc' = [pc EXCEPT ![p] = "stage"]
          /\ at' = [at EXCEPT ![p] = at[p] + 1]
    /\ job' = [job EXCEPT ![p] = NoJob]
    /\ UNCHANGED <<cmd, up>>

\* The current stage is done with result r: go on to the next one.
Advance(p, r) ==
    /\ \/ /\ at[p] = cmd[p].until
          /\ pc' = [pc EXCEPT ![p] = "finish"]
          /\ UNCHANGED at
       \/ /\ at[p] # cmd[p].until
          /\ pc' = [pc EXCEPT ![p] = "stage"]
          /\ at' = [at EXCEPT ![p] = at[p] + 1]
    /\ up' = [up EXCEPT ![p] = r]
    /\ job' = [job EXCEPT ![p] = NoJob]
    /\ UNCHANGED cmd

-----------------------------------------------------------------------------
(* A command, step by step.                                                *)

\* run or resume: take the lock without waiting.  A process that finds it
\* taken reports so and changes nothing.
\* Mode "direct" is direct_resume for a stage that has a predecessor.
Begin(p, until, mode, b) ==
    /\ lock = NoProc
    /\ pc[p] = "idle"
    /\ \A s \in Stage : status[s].attempt < MaxAttempts
    /\ mode = "direct" => until # Resolve
    /\ lock' = p
    /\ pc' = [pc EXCEPT ![p] = "reconcile"]
    /\ cmd' = [cmd EXCEPT ![p] = [until |-> until, mode |-> mode, build |-> b]]
    /\ UNCHANGED <<disk, made, at, up, job>>

\* Mutant: the last stage is left out.
ReconcileAllButLast(p, s) ==
    /\ pc[p] = "reconcile"
    /\ s < NumStages
    /\ status[s].state = "running"
    /\ \A t \in 1..(s - 1) : status[t].state # "running"
    /\ status' = [status EXCEPT ![s] =
                    [state |-> "interrupted", attempt |-> status[s].attempt,
                     input |-> status[s].input, result |-> NoResult]]
    /\ UNCHANGED <<inputFile, resultFile, damaged, made, lock, local>>

\* A stage left RUNNING by a dead process becomes INTERRUPTED, in stage order.
ReconcileStage(p, s) ==
    /\ pc[p] = "reconcile"
    /\ status[s].state = "running"
    /\ \A t \in 1..(s - 1) : status[t].state # "running"
    /\ status' = [status EXCEPT ![s] =
                    [state |-> "interrupted", attempt |-> status[s].attempt,
                     input |-> status[s].input, result |-> NoResult]]
    /\ UNCHANGED <<inputFile, resultFile, damaged, made, lock, local>>

\* Mutant: the stages are executed before all of them are reconciled.
ReconciledTooSoon(p) ==
    /\ pc[p] = "reconcile"
    /\ pc' = [pc EXCEPT ![p] =
                IF cmd[p].mode = "direct" THEN "predecessor" ELSE "stage"]
    /\ UNCHANGED <<disk, made, lock, cmd, at, up, job>>

Reconciled(p) ==
    /\ pc[p] = "reconcile"
    /\ \A s \in Stage : status[s].state # "running"
    /\ \/ /\ cmd[p].mode = "direct"
          /\ pc' = [pc EXCEPT ![p] = "predecessor"]
       \/ /\ cmd[p].mode = "full"
          /\ pc' = [pc EXCEPT ![p] = "stage"]
    /\ UNCHANGED <<disk, made, lock, cmd, at, up, job>>

\* --skip-check on resume: trust the committed prefix, read its last stage.
TrustedPrefix(p) ==
    /\ \A s \in 1..(cmd[p].until - 1) : status[s].state = "succeeded"
    /\ Intact(cmd[p].until - 1)

\* Mutant: the predecessor is checked and not kept.
LoadNoPredecessor(p) ==
    /\ pc[p] = "predecessor"
    /\ TrustedPrefix(p)
    /\ pc' = [pc EXCEPT ![p] = "stage"]
    /\ at' = [at EXCEPT ![p] = cmd[p].until]
    /\ UNCHANGED <<disk, made, lock, cmd, up, job>>

LoadPredecessor(p) ==
    /\ pc[p] = "predecessor"
    /\ TrustedPrefix(p)
    /\ pc' = [pc EXCEPT ![p] = "stage"]
    /\ at' = [at EXCEPT ![p] = cmd[p].until]
    /\ up' = [up EXCEPT ![p] = status[cmd[p].until - 1].result]
    /\ UNCHANGED <<disk, made, lock, cmd, job>>

RejectPredecessor(p) ==
    /\ pc[p] = "predecessor"
    /\ ~TrustedPrefix(p)
    /\ Release(p)
    /\ UNCHANGED <<disk, made>>

UsePinnedResolve(p) ==
    /\ pc[p] = "stage"
    /\ Pinned(p)
    /\ Intact(Resolve)
    /\ cmd[p].build \in Accepting
    /\ Advance(p, status[Resolve].result)
    /\ UNCHANGED <<disk, made, lock>>

RejectPinnedResolve(p) ==
    /\ pc[p] = "stage"
    /\ Pinned(p)
    /\ ~Intact(Resolve) \/ cmd[p].build \notin Accepting
    /\ Release(p)
    /\ UNCHANGED <<disk, made>>

ReuseStage(p) ==
    /\ pc[p] = "stage"
    /\ ~Pinned(p)
    /\ Reusable(p)
    /\ Advance(p, status[at[p]].result)
    /\ UNCHANGED <<disk, made, lock>>

\* _execute_stage up to its try block.
StartStage(p) ==
    /\ pc[p] = "stage"
    /\ ~Pinned(p)
    /\ ~Reusable(p)
    /\ pc' = [pc EXCEPT ![p] = "start"]
    /\ job' = [job EXCEPT ![p] = [input   |-> Prepared(p),
                                  attempt |-> status[at[p]].attempt + 1,
                                  result  |-> NoResult]]
    /\ UNCHANGED <<disk, made, lock, cmd, at, up>>

\* Mutant: the old status stays until the new attempt has succeeded.
WriteRunningNowhere(p) ==
    /\ pc[p] = "start"
    /\ pc' = [pc EXCEPT ![p] = "running"]
    /\ UNCHANGED <<disk, made, lock, cmd, at, up, job>>

\* The four commit points, in the order of the code.
WriteRunning(p) ==
    /\ pc[p] = "start"
    /\ status' = [status EXCEPT ![at[p]] =
                    [state |-> "running", attempt |-> job[p].attempt,
                     input |-> job[p].input, result |-> NoResult]]
    /\ pc' = [pc EXCEPT ![p] = "running"]
    /\ UNCHANGED <<inputFile, resultFile, damaged, made, lock, cmd, at, up, job>>

WriteInput(p) ==
    /\ pc[p] = "running"
    /\ inputFile' = [inputFile EXCEPT ![at[p]] = job[p].input]
    /\ damaged' = damaged \ {<<at[p], "input">>}
    /\ pc' = [pc EXCEPT ![p] = "execute"]
    /\ UNCHANGED <<status, resultFile, made, lock, cmd, at, up, job>>

\* The stage's executor, its validator and audit, and the write of result.json.
\* A repeated execution may give the bytes of an earlier one or new ones.
StoreResult(p, r) ==
    /\ resultFile' = [resultFile EXCEPT ![at[p]] = r]
    /\ damaged' = damaged \ {<<at[p], "result">>}
    /\ pc' = [pc EXCEPT ![p] = "written"]
    /\ job' = [job EXCEPT ![p] = [input   |-> job[p].input,
                                  attempt |-> job[p].attempt,
                                  result  |-> r]]
    /\ UNCHANGED <<status, inputFile, lock, cmd, at, up>>

ExecuteStage(p) ==
    /\ pc[p] = "execute"
    /\ \/ /\ made' = Append(made, job[p].input)
          /\ StoreResult(p, Len(made) + 1)
       \/ \E r \in DOMAIN made :
             /\ made[r] = job[p].input
             /\ UNCHANGED made
             /\ StoreResult(p, r)

WriteSucceeded(p) ==
    /\ pc[p] = "written"
    /\ status' = [status EXCEPT ![at[p]] =
                    [state |-> "succeeded", attempt |-> job[p].attempt,
                     input |-> job[p].input, result |-> job[p].result]]
    /\ pc' = [pc EXCEPT ![p] = "committing"]
    /\ UNCHANGED <<inputFile, resultFile, damaged, made, lock, cmd, at, up, job>>

\* committed = True: only now does an interruption leave the stage succeeded.
Commit(p) ==
    /\ pc[p] = "committing"
    /\ Advance(p, job[p].result)
    /\ UNCHANGED <<disk, made, lock>>

\* An exception inside the try block: SIGTERM gives INTERRUPTED, any other
\* error FAILED.  It may strike after SUCCEEDED is on disk (the directory is
\* still to be fsynced, the flag to be set) and then replaces it.
Abort(p, state) ==
    /\ pc[p] \in Guarded
    /\ status' = [status EXCEPT ![at[p]] =
                    [state |-> state, attempt |-> job[p].attempt,
                     input |-> job[p].input, result |-> NoResult]]
    /\ Release(p)
    /\ UNCHANGED <<inputFile, resultFile, damaged, made>>

Finish(p) ==
    /\ pc[p] = "finish"
    /\ Release(p)
    /\ UNCHANGED <<disk, made>>

\* The process dies, or an exception leaves it outside the try block: the
\* kernel or the finally clause drops the lock and the files stay as they are.
Crash(p) ==
    /\ pc[p] # "idle"
    /\ Release(p)
    /\ UNCHANGED <<disk, made>>

\* The disk loses or changes a file of a stage.
Damage(s, f) ==
    /\ inputFile[s] # NoInput
    /\ f = "result" => resultFile[s] # NoResult
    /\ damaged' = damaged \cup {<<s, f>>}
    /\ UNCHANGED <<status, inputFile, resultFile, made, lock, local>>

-----------------------------------------------------------------------------

Step(p) ==
    \/ \E s \in Stage : ReconcileStage(p, s)
    \/ Reconciled(p)
    \/ LoadPredecessor(p) \/ RejectPredecessor(p)
    \/ UsePinnedResolve(p) \/ RejectPinnedResolve(p)
    \/ ReuseStage(p) \/ StartStage(p)
    \/ WriteRunning(p) \/ WriteInput(p) \/ ExecuteStage(p)
    \/ WriteSucceeded(p) \/ Commit(p) \/ Finish(p)

Request(p) ==
    \E until \in Stage, mode \in Mode, b \in Build : Begin(p, until, mode, b)

Fault(p) == Crash(p) \/ \E state \in {"failed", "interrupted"} : Abort(p, state)

Next ==
    \/ \E p \in Proc : Request(p) \/ Step(p) \/ Fault(p)
    \/ \E s \in Damageable, f \in File : Damage(s, f)

Spec == Init /\ [][Next]_vars

\* A process that is not killed goes on, and somebody keeps asking for the
\* whole run with checks.  Commands are separate processes that find the lock
\* taken or free as they come, hence strong fairness of the request.
Fairness ==
    /\ \A p \in Proc : WF_vars(Step(p))
    /\ SF_vars(\E p \in Proc, b \in Build : Begin(p, Snapshot, "full", b))

FairSpec == Spec /\ Fairness

-----------------------------------------------------------------------------
(* Properties.                                                             *)

\* Every variable has its type; a process computes only while it holds the
\* lock, and the result ids in use are in the ledger.
TypeOK ==
    /\ status \in [Stage -> Status]
    /\ inputFile \in [Stage -> Input \cup {NoInput}]
    /\ resultFile \in [Stage -> Nat]
    /\ damaged \subseteq Stage \X File
    /\ made \in Seq(Input)
    /\ lock \in Proc \cup {NoProc}
    /\ pc \in [Proc -> PC]
    /\ cmd \in [Proc -> Command]
    /\ at \in [Proc -> Stage]
    /\ up \in [Proc -> Nat]
    /\ job \in [Proc -> Job]

\* Whoever reads the run sees at most one stage RUNNING, also after crashes in
\* any stage followed by a command that starts over from an earlier one.
AtMostOneRunning ==
    \A s, t \in Stage :
        status[s].state = "running" /\ status[t].state = "running" => s = t

\* Between its RUNNING and its SUCCEEDED record a process finds its own record
\* in status.json: no other process has replaced it with another attempt.
OwnsItsStage ==
    \A p \in Proc : pc[p] \in InFlight =>
        /\ lock = p
        /\ status[at[p]] = [state |-> "running",
                                   attempt |-> job[p].attempt,
                                   input |-> job[p].input,
                                   result |-> NoResult]

\* A stage that status.json calls succeeded has the input and the result it
\* names on disk, unless the disk has damaged them, and that result was
\* computed from that input.  Killing the process between any two of the three
\* files must not leave a SUCCEEDED record beside files of another attempt.
CommittedIntegrity ==
    \A s \in Stage : status[s].state = "succeeded" =>
        /\ inputFile[s] = status[s].input
        /\ resultFile[s] = status[s].result
        /\ status[s].result \in DOMAIN made
        /\ made[status[s].result] = status[s].input

\* The stage's input names the version of the build and the result that its
\* predecessor has committed.
Linked(s, b) ==
    status[s].input = [stage |-> s, version |-> b[s],
                       upstream |-> status[s - 1].result]

\* When a command with checks ends well, every stage through its `until' is
\* succeeded, was computed by this build (the resolve, which is pinned, may be
\* older) and from the result its predecessor has now.  With --skip-check on
\* resume only the last stage is known to be so.
FinishedPrefixIsChained ==
    \A p \in Proc : pc[p] = "finish" =>
        /\ \A s \in 1..cmd[p].until : status[s].state = "succeeded"
        /\ \A s \in 2..cmd[p].until :
              cmd[p].mode = "full" \/ s = cmd[p].until => Linked(s, cmd[p].build)

\* Once a stage after the resolve has been attempted, no command, build, crash
\* or damage replaces the committed resolve: the run keeps the game version it
\* was pinned to, or it stops.
PinnedResolve ==
    [][(\E s \in Stage \ {Resolve} : status[s].attempt > 0)
          => status'[Resolve] = status[Resolve]]_vars

\* A stage with an undamaged checkpoint for the same input is not run again.
NoNeedlessExecution ==
    [][\A s \in Stage :
          status[s].state = "succeeded" /\ status'[s].state = "running"
             => ~(Intact(s) /\ status[s].input = status'[s].input)]_vars

\* What the run promises its readers: the chain of PinnedChain.tla.
Committed ==
    [s \in Stage |-> IF status[s].state = "succeeded" THEN status[s].result
                                                      ELSE NoResult]
Chain == INSTANCE PinnedChain WITH commit <- Committed
ImplementsPinnedChain == Chain!Spec

\* A command that has taken the lock lets go of it.
LockIsReleased == \A p \in Proc : lock = p ~> lock # p

\* If commands are not for ever killed before they record an attempt, the run is
\* completed, unless some stage has already been attempted as often as the
\* bound allows: nothing a killed or failed attempt leaves behind blocks it.
KillsBeforeAnAttemptStop ==
    <>[][\A p \in Proc : pc[p] \in {"reconcile", "stage", "start"}
                             => pc'[p] # "idle"]_vars
RunCompletes ==
    KillsBeforeAnAttemptStop =>
        <>(\/ status[Snapshot].state = "succeeded"
           \/ \E s \in Stage : status[s].attempt = MaxAttempts)

=============================================================================
