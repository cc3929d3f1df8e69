----------------------------- MODULE ReleaseCycle -----------------------------
(***************************************************************************)
(* How a release of one target gets published: the checker finds a release *)
(* that differs from the published one and dispatches a run of the         *)
(* processing workflow; runs are processed one at a time, in the order of  *)
(* the workflow's queue, and each ends by recording itself in the target's *)
(* status document, which the next check reads.  Checker and runs are      *)
(* separate workflows: they meet only in the document and in the list of   *)
(* unfinished runs.                                                        *)
(*                                                                         *)
(* Releases are numbered in the order in which the game publishes them.    *)
(* Time is one clock for all the machines that take part.                  *)
(***************************************************************************)
EXTENDS ReleaseStatus, Sequences

CONSTANTS
    MaxTime,      \* the clock stops here
    MaxRuns,      \* bound on the runs of the target
    MayRejectPush \* whether the push of a status commit may be rejected

ASSUME OrderAssumption == Release \subseteq Nat \ {0} /\ NoRelease = 0
ASSUME CycleAssumption == MaxTime \in Nat /\ MaxRuns \in Nat /\ MayRejectPush \in BOOLEAN

JobResult == Result \cup {"skipped"}
RunState == {"queued", "running", "ended", "recorded", "lost", "done"}
Unfinished == RunState \ {"done"}
NoResult == "none"

VARIABLES
    now,       \* the clock
    current,   \* the release the game serves
    doc,       \* the status document on the default branch
    runs,      \* the runs of the workflow, oldest first
    phase,     \* what the checker has done last
    seen,      \* the document it has checked out
    found      \* the release it has detected

checker == <<phase, seen, found>>
vars == <<now, current, doc, runs, checker>>

Init ==
    /\ now = 0
    /\ current \in Release
    /\ doc = Bootstrap
    /\ runs = << >>
    /\ phase = "idle"
    /\ seen = Bootstrap
    /\ found = NoRelease

Tick ==
    /\ now < MaxTime
    /\ now' = now + 1
    /\ UNCHANGED <<current, doc, runs, checker>>

NewRelease(r) ==
    /\ current < r
    /\ current' = r
    /\ UNCHANGED <<now, doc, runs, checker>>

-----------------------------------------------------------------------------
(* The checker.  Its own workflow is serialised: one check at a time.      *)

NewRun(by, hint) == [by |-> by, hint |-> hint, state |-> "queued", began |-> now,
                     resolved |-> NoRelease, result |-> NoResult]

Dispatch(by, hint) ==
    /\ Len(runs) < MaxRuns
    /\ runs' = Append(runs, NewRun(by, hint))

\* A check leaves nothing behind.
EndCheck ==
    /\ phase' = "idle"
    /\ seen' = Bootstrap
    /\ found' = NoRelease

CheckOut ==
    /\ phase = "idle"
    /\ phase' = "checkout"
    /\ seen' = doc
    /\ UNCHANGED <<now, current, doc, runs, found>>

\* The probe and the comparison; force_retry ignores the retry delay.
Compare(force) ==
    /\ phase = "checkout"
    /\ IF /\ Readable(seen)
          /\ Mismatch(seen, current)
          /\ force \/ ~RetryBlocked(seen, current, now)
         THEN phase' = "due" /\ found' = current /\ UNCHANGED seen
         ELSE EndCheck
    /\ UNCHANGED <<now, current, doc, runs>>

\* Mutants: runs still in the queue, or runs long done, are (not) active.
CheckActiveOverlooksQueue ==
    /\ phase = "due"
    /\ IF \E i \in DOMAIN runs : runs[i].state \in Unfinished \ {"queued"}
         THEN EndCheck
         ELSE phase' = "clear" /\ UNCHANGED <<seen, found>>
    /\ UNCHANGED <<now, current, doc, runs>>
CheckActiveCountsDone ==
    /\ phase = "due"
    /\ IF runs # << >>
         THEN EndCheck
         ELSE phase' = "clear" /\ UNCHANGED <<seen, found>>
    /\ UNCHANGED <<now, current, doc, runs>>

\* An active run of the target is waited for.
CheckActive ==
    /\ phase = "due"
    /\ IF \E i \in DOMAIN runs : runs[i].state \in Unfinished
         THEN EndCheck
         ELSE phase' = "clear" /\ UNCHANGED <<seen, found>>
    /\ UNCHANGED <<now, current, doc, runs>>

CheckerDispatch ==
    /\ phase = "clear"
    /\ Dispatch("checker", found)
    /\ EndCheck
    /\ UNCHANGED <<now, current, doc>>

\* Any step of a check may fail, and ends the check.
CheckFails ==
    /\ phase # "idle"
    /\ EndCheck
    /\ UNCHANGED <<now, current, doc, runs>>

ManualDispatch ==
    /\ Dispatch("manual", NoRelease)
    /\ UNCHANGED <<now, current, doc, checker>>

-----------------------------------------------------------------------------
(* A run of process-game-release.yml.                                      *)

SetRun(i, run) ==
    /\ runs' = [runs EXCEPT ![i] = run]
    /\ UNCHANGED <<now, current, checker>>

Moved(run, state, resolved, result) ==
    [by |-> run.by, hint |-> run.hint, state |-> state, began |-> run.began,
     resolved |-> resolved, result |-> result]
MoveTo(i, state) ==
    SetRun(i, Moved(runs[i], state, runs[i].resolved, runs[i].result))

\* Nobody looks at a run that is over, other than that it is.
Over == [by |-> "manual", hint |-> NoRelease, state |-> "done", began |-> 0,
         resolved |-> NoRelease, result |-> NoResult]

\* Mutant: without the concurrency group.
StartRunAtOnce(i) ==
    /\ runs[i].state = "queued"
    /\ MoveTo(i, "running")
    /\ UNCHANGED doc

\* The concurrency group of the workflow: first come, first served.
StartRun(i) ==
    /\ runs[i].state = "queued"
    /\ \A j \in DOMAIN runs : j < i => runs[j].state = "done"
    /\ MoveTo(i, "running")
    /\ UNCHANGED doc

\* A run cancelled in the queue has no jobs, not even the one that records it.
CancelQueued(i) ==
    /\ runs[i].state = "queued"
    /\ SetRun(i, Over)
    /\ UNCHANGED doc

\* The resolve stage fixes the release the run processes.
ResolveRelease(i) ==
    /\ runs[i].state = "running"
    /\ runs[i].resolved = NoRelease
    /\ SetRun(i, Moved(runs[i], "running", current, NoResult))
    /\ UNCHANGED doc

\* The required jobs are over: download, and a publication.
FinishProcessing(i, download, publish) ==
    /\ runs[i].state = "running"
    /\ download = "success" => runs[i].resolved # NoRelease
    /\ publish = "success" => download = "success"
    /\ SetRun(i, Moved(runs[i], "ended", runs[i].resolved,
                       ProcessingResult({download, publish})))
    /\ UNCHANGED doc

\* version_name || detected_release_name
NameOf(run) == IF run.resolved # NoRelease THEN run.resolved ELSE run.hint

\* The record-status job: check out the branch, record the run, commit, push.
\* The job is over when the document is rejected or the push is.
RunRecord(i) == [result |-> runs[i].result, release |-> NameOf(runs[i]),
                 started |-> runs[i].began, completed |-> now]

RecordStatus(i) ==
    /\ runs[i].state = "ended"
    /\ Recordable(doc, RunRecord(i))
    /\ doc' = Recorded(doc, RunRecord(i))
    /\ MoveTo(i, "recorded")

LoseStatus(i) ==
    /\ runs[i].state = "ended"
    /\ MayRejectPush \/ ~Recordable(doc, RunRecord(i))
    /\ MoveTo(i, "lost")
    /\ UNCHANGED doc

\* The page is deployed, the report sent: only now is the run over.
CompleteRun(i) ==
    /\ runs[i].state \in {"recorded", "lost"}
    /\ SetRun(i, Over)
    /\ UNCHANGED doc

-----------------------------------------------------------------------------

Check == CheckOut \/ Compare(FALSE) \/ CheckActive \/ CheckerDispatch

Process(i) ==
    \/ StartRun(i) \/ ResolveRelease(i)
    \/ \E download, publish \in JobResult : FinishProcessing(i, download, publish)
    \/ RecordStatus(i) \/ LoseStatus(i) \/ CompleteRun(i)

Next ==
    \/ Tick
    \/ \E r \in Release : NewRelease(r)
    \/ Check \/ Compare(TRUE) \/ CheckFails \/ ManualDispatch
    \/ \E i \in DOMAIN runs : Process(i) \/ CancelQueued(i)

Spec == Init /\ [][Next]_vars

\* Time passes, checks are made every hour and runs are processed.  A check may
\* fail in any step, but not every check in the same one: strong fairness.
Fairness ==
    /\ WF_vars(Tick)
    /\ WF_vars(CheckOut)
    /\ SF_vars(Compare(FALSE)) /\ SF_vars(CheckActive) /\ SF_vars(CheckerDispatch)
    /\ \A i \in 1..MaxRuns : WF_vars(i \in DOMAIN runs /\ Process(i))

FairSpec == Spec /\ Fairness

-----------------------------------------------------------------------------
(* Properties.                                                             *)

\* The variables have their types.
TypeOK ==
    /\ now \in Nat
    /\ current \in Release
    /\ doc \in Document
    /\ \A i \in DOMAIN runs : /\ runs[i].state \in RunState
                              /\ runs[i].resolved \in Release \cup {NoRelease}
                              /\ runs[i].hint \in Release \cup {NoRelease}
                              /\ runs[i].result \in Result \cup {NoResult}
                              /\ runs[i].began \in Nat
    /\ phase \in {"idle", "checkout", "due", "clear"}
    /\ seen \in Document
    /\ found \in Release \cup {NoRelease}

\* record writes only documents that read, compare and record accept: a
\* document they reject blocks its target for good.
DocumentIsReadable == Readable(doc)

\* The published release never goes back: a run that resolved an older release
\* is recorded before a run that resolved a newer one.
PublishedNeverGoesBack == [][doc'.published >= doc.published]_vars

\* The checker never has two unfinished runs of a target.
OneAutomaticRun ==
    \A i, j \in DOMAIN runs :
        /\ runs[i].by = "checker" /\ runs[i].state \in Unfinished
        /\ runs[j].by = "checker" /\ runs[j].state \in Unfinished
        => i = j

\* Within one cycle of failures the time of the first is kept and that of the
\* last moves forward, whatever other runs are recorded in between.
CycleKeepsItsStart ==
    [][(/\ doc.retry # NoRetry /\ doc'.retry # NoRetry
        /\ doc.retry.release = doc'.retry.release)
         => /\ doc'.retry.first = doc.retry.first
            /\ doc'.retry.last >= doc.retry.last]_vars

\* If attempts come to succeed, the release the game ends up with is published,
\* unless the runs, or the time to wait for the next attempt, exceed the bounds.
AttemptsComeToSucceed ==
    <>[][\A i \in DOMAIN runs :
            /\ runs'[i].state = "ended" => runs'[i].result = "success"
            /\ runs'[i].state = "lost" => runs[i].state = "lost"
            /\ runs[i].state = "queued" => runs'[i].state # "done"]_vars
EventuallyPublished ==
    AttemptsComeToSucceed =>
        <>(\/ doc.published = current
           \/ Len(runs) = MaxRuns
           \/ RetryBlocked(doc, current, MaxTime))

=============================================================================
