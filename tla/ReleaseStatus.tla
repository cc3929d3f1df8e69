---------------------------- MODULE ReleaseStatus ----------------------------
(***************************************************************************)
(* The status document of one target (status/<target>.json): what is       *)
(* published, how the last run ended, and since when an unpublished        *)
(* release has been failing.  The three operations of release_status.py,   *)
(* as operators on documents: the checks made when a document is read, the *)
(* comparison with a detected release, and the recording of a run.         *)
(*                                                                         *)
(* A release stands for its name.  The readable version is set and cleared *)
(* together with the published release and is left out.  Times are         *)
(* naturals; the code keeps them to the second.                            *)
(***************************************************************************)
EXTENDS Integers

CONSTANTS
    Release,        \* release names
    NoRelease,      \* null
    NoRun, NoRetry, \* null
    Young, Old,     \* ages at which a failing release is retried less often
    Soon, Later, Seldom,  \* the intervals between the attempts
    MaxDuration     \* the longest run that can be recorded

ASSUME ReleaseAssumption == NoRelease \notin Release
ASSUME TimesAssumption ==
    /\ {Young, Old, Soon, Later, Seldom, MaxDuration} \subseteq Nat
    /\ Young < Old

Result == {"success", "failure", "cancelled"}
Run == [result : Result, release : Release \cup {NoRelease},
        started : Nat, completed : Nat]
Retry == [release : Release, first : Nat, last : Nat]
ASSUME NullAssumption == NoRun \notin Run /\ NoRetry \notin Retry

Document == [published : Release \cup {NoRelease},
             run       : Run \cup {NoRun},
             retry     : Retry \cup {NoRetry}]

\* The document of a target that has never been processed.
Bootstrap == [published |-> NoRelease, run |-> NoRun, retry |-> NoRetry]

\* _load_run: what record and read accept as a run.
ValidRun(run) ==
    /\ run.result = "success" => run.release # NoRelease
    /\ run.started <= run.completed
    /\ run.completed - run.started <= MaxDuration

\* The run failed for a release that is named and is not the published one.
FailedUnpublished(run, published) ==
    /\ run.result # "success"
    /\ run.release \notin {NoRelease, published}

\* parse_status_document with _load_retry.
RunFits(doc) ==
    doc.run # NoRun =>
        /\ ValidRun(doc.run)
        /\ doc.run.result = "success" => doc.run.release = doc.published

RetryFits(doc) ==
    IF doc.retry = NoRetry
      THEN doc.run # NoRun => ~FailedUnpublished(doc.run, doc.published)
      ELSE /\ doc.retry.release # doc.published
           /\ doc.retry.first <= doc.retry.last
           /\ doc.run # NoRun
           /\ doc.run.result # "success"
           /\ doc.retry.last <= doc.run.completed
           /\ FailedUnpublished(doc.run, doc.published) =>
                 /\ doc.retry.release = doc.run.release
                 /\ doc.retry.last = doc.run.completed

Readable(doc) == RunFits(doc) /\ RetryFits(doc)

\* ReleaseRetry.next_retry
Interval(retry) ==
    IF retry.last - retry.first < Young THEN Soon
    ELSE IF retry.last - retry.first < Old THEN Later
    ELSE Seldom

NextRetry(retry) == retry.last + Interval(retry)

\* compare_release
Mismatch(doc, found) == doc.published # found
RetryBlocked(doc, found, time) ==
    /\ Mismatch(doc, found)
    /\ doc.retry # NoRetry
    /\ doc.retry.release = found
    /\ time < NextRetry(doc.retry)

\* record_run: the document after the run.  A success clears the retry state; a
\* failure of an unpublished release starts or continues its cycle; any other
\* failure leaves the cycle alone.
Earlier(s, t) == IF s <= t THEN s ELSE t

\* Mutants: a success leaves the cycle; every failure starts it anew.
RetryAfterSuccessToo(doc, run) ==
    IF ~FailedUnpublished(run, doc.published) THEN doc.retry
    ELSE [release |-> run.release, first |-> run.completed, last |-> run.completed]
RetryAlwaysRestarted(doc, run) ==
    IF run.result = "success" THEN NoRetry
    ELSE IF ~FailedUnpublished(run, doc.published) THEN doc.retry
    ELSE [release |-> run.release, first |-> run.completed, last |-> run.completed]

RetryAfter(doc, run) ==
    IF run.result = "success" THEN NoRetry
    ELSE IF ~FailedUnpublished(run, doc.published) THEN doc.retry
    ELSE [release |-> run.release,
          first   |-> IF doc.retry # NoRetry /\ doc.retry.release = run.release
                        THEN Earlier(doc.retry.first, run.completed)
                        ELSE run.completed,
          last    |-> run.completed]

Recorded(doc, run) ==
    [published |-> IF run.result = "success" THEN run.release ELSE doc.published,
     run       |-> run,
     retry     |-> RetryAfter(doc, run)]

\* record_run raises, and writes nothing, on a document or a run it cannot read.
Recordable(doc, run) == Readable(doc) /\ ValidRun(run)

\* processing-result: the jobs of a run, disabled consumers counted as success.
ProcessingResult(jobs) ==
    IF "failure" \in jobs THEN "failure"
    ELSE IF "cancelled" \in jobs THEN "cancelled"
    ELSE IF jobs = {"success"} THEN "success"
    ELSE "failure"

=============================================================================
