-------------------------- MODULE ReleaseCycle_proof --------------------------
(***************************************************************************)
(* Proofs about ReleaseCycle, for any releases, retry intervals and bounds *)
(* on time, runs and durations.                                            *)
(***************************************************************************)
EXTENDS ReleaseCycle, TLAPS

USE ReleaseAssumption, NullAssumption, TimesAssumption, OrderAssumption, CycleAssumption

\* What recording a run does to a readable document, for any document and run:
\* if runs are recorded in the order of their completion, the result is readable.
LEMMA RecordedIsReadable ==
    ASSUME NEW d \in Document, NEW run \in Run,
           Recordable(d, run),
           d.run # NoRun => d.run.completed <= run.completed
    PROVE  Recorded(d, run) \in Document /\ Readable(Recorded(d, run))
<1> DEFINE e == Recorded(d, run)
<1>1. /\ run.result \in Result /\ run.release \in Release \cup {NoRelease}
      /\ run.started \in Nat /\ run.completed \in Nat /\ run # NoRun
  BY DEF Run
<1>2. /\ d.published \in Release \cup {NoRelease} /\ d.run \in Run \cup {NoRun}
      /\ d.retry \in Retry \cup {NoRetry}
  BY DEF Document
<1>3. d.retry # NoRetry => /\ d.retry.release \in Release
                           /\ d.retry.first \in Nat /\ d.retry.last \in Nat
                           /\ d.retry.first <= d.retry.last
                           /\ d.retry.last <= run.completed
                           /\ d.retry.release # d.published
  <2> SUFFICES ASSUME d.retry # NoRetry
               PROVE  /\ d.retry.release \in Release
                      /\ d.retry.first \in Nat /\ d.retry.last \in Nat
                      /\ d.retry.first <= d.retry.last
                      /\ d.retry.last <= run.completed
                      /\ d.retry.release # d.published
    OBVIOUS
  <2>1. d.retry.release \in Release /\ d.retry.first \in Nat /\ d.retry.last \in Nat
    BY <1>2 DEF Retry
  <2>2. /\ d.run # NoRun /\ d.retry.first <= d.retry.last
        /\ d.retry.last <= d.run.completed /\ d.retry.release # d.published
    BY DEF Recordable, Readable, RetryFits
  <2>3. d.run.completed \in Nat
    BY <1>2, <2>2 DEF Run
  <2>4. QED
    BY <1>1, <2>1, <2>2, <2>3
<1>4. /\ e.published = IF run.result = "success" THEN run.release ELSE d.published
      /\ e.run = run /\ e.retry = RetryAfter(d, run)
  BY DEF Recorded
<1>5. CASE run.result = "success"
  <2>1. run.release \in Release
    BY <1>1, <1>5 DEF Recordable, ValidRun
  <2>2. e.published = run.release /\ e.retry = NoRetry
    BY <1>4, <1>5 DEF RetryAfter
  <2>3. Readable(e)
    BY <1>4, <1>5, <2>2 DEF Readable, RunFits, RetryFits, FailedUnpublished, Recordable
  <2>4. e \in Document
    BY <1>5, <2>1, <2>2, <1>4 DEF Document, Recorded, RetryAfter
  <2>5. QED
    BY <2>3, <2>4
<1>6. CASE run.result # "success" /\ ~FailedUnpublished(run, d.published)
  <2>1. e.published = d.published /\ e.retry = d.retry
    BY <1>4, <1>6 DEF RetryAfter
  <2>2. Readable(e)
    BY <1>1, <1>3, <1>4, <1>6, <2>1 DEF Readable, RunFits, RetryFits, Recordable
  <2>3. e \in Document
    BY <1>2, <1>6 DEF Document, Recorded, RetryAfter
  <2>4. QED
    BY <2>2, <2>3
<1>7. CASE run.result # "success" /\ FailedUnpublished(run, d.published)
  <2>1. run.release \in Release
    BY <1>1, <1>7 DEF FailedUnpublished
  <2> DEFINE first == IF d.retry # NoRetry /\ d.retry.release = run.release
                        THEN Earlier(d.retry.first, run.completed)
                        ELSE run.completed
  <2>2. first \in Nat /\ first <= run.completed
    BY <1>1, <1>3 DEF Earlier
  <2>3. e.retry = [release |-> run.release, first |-> first, last |-> run.completed]
    BY <1>4, <1>7 DEF RetryAfter
  <2> HIDE DEF first
  <2>4. /\ e.retry \in Retry /\ e.retry.release = run.release
        /\ e.retry.first = first /\ e.retry.last = run.completed
    BY <1>1, <2>1, <2>2, <2>3 DEF Retry
  <2>5. e.published = d.published
    BY <1>4, <1>7
  <2>6. Readable(e)
    BY <1>1, <1>4, <1>7, <2>2, <2>4, <2>5
    DEF Readable, RunFits, RetryFits, FailedUnpublished, Recordable
  <2>7. e \in Document
    <3>1. e = [published |-> e.published, run |-> e.run, retry |-> e.retry]
      BY DEF Recorded
    <3>2. QED
      BY <1>2, <1>4, <2>4, <2>5, <3>1 DEF Document
  <2>8. QED
    BY <2>6, <2>7
<1>8. QED
  BY <1>5, <1>6, <1>7

-----------------------------------------------------------------------------
(* The runs and the document they leave.                                   *)

RunType == [by : {"checker", "manual"}, hint : Release \cup {NoRelease},
            state : RunState, began : Nat, resolved : Release \cup {NoRelease},
            result : Result \cup {NoResult}]
Active == {"running", "ended", "recorded", "lost"}

\* One run at a time is past the queue; what it has resolved is not older than
\* what is published, and not newer than what the game serves.
RunInv(i) ==
    /\ runs[i].state \in Active => \A j \in DOMAIN runs : j < i => runs[j].state = "done"
    /\ runs[i].state = "queued" => runs[i].resolved = NoRelease
    /\ runs[i].state \in Active /\ runs[i].resolved # NoRelease =>
          doc.published <= runs[i].resolved /\ runs[i].resolved <= current
    /\ runs[i].state = "ended" => runs[i].result \in Result
    /\ runs[i].state = "ended" /\ runs[i].result = "success" => runs[i].resolved # NoRelease

CycleInv ==
    /\ now \in Nat /\ current \in Release /\ found \in Release \cup {NoRelease}
    /\ runs \in Seq(RunType)
    /\ \A i \in DOMAIN runs : RunInv(i)
    /\ doc \in Document /\ Readable(doc)
    /\ doc.run # NoRun => doc.run.completed <= now
    /\ doc.published <= current

LEMMA InitCycle == Init => CycleInv
<1> SUFFICES ASSUME Init PROVE CycleInv
  OBVIOUS
<1>1. Bootstrap \in Document /\ Readable(Bootstrap)
  BY DEF Bootstrap, Document, Readable, RunFits, RetryFits
<1>2. runs \in Seq(RunType) /\ \A i \in DOMAIN runs : RunInv(i)
  BY DEF Init
<1>3. QED
  BY <1>1, <1>2 DEF Init, CycleInv, Bootstrap

\* Release names are numbers, and null is below all of them.
LEMMA NameTypes ==
    ASSUME CycleInv
    PROVE  /\ doc.published \in Release \cup {NoRelease} /\ doc.published \in Nat
           /\ current \in Nat
           /\ \A i \in DOMAIN runs : /\ runs[i] \in RunType
                                     /\ runs[i].resolved \in Release \cup {NoRelease}
                                     /\ runs[i].resolved \in Nat
<1>1. \A x \in Release \cup {NoRelease} : x \in Nat
  OBVIOUS
<1>2. doc.published \in Release \cup {NoRelease} /\ current \in Release
  BY DEF CycleInv, Document
<1>3. \A i \in DOMAIN runs : runs[i] \in RunType
  BY DEF CycleInv
<1>4. \A run \in RunType : run.resolved \in Release \cup {NoRelease}
  BY DEF RunType
<1>5. QED
  BY <1>1, <1>2, <1>3, <1>4

\* Steps that leave the runs and the document alone.
LEMMA QuietInv ==
    ASSUME CycleInv, UNCHANGED <<runs, doc>>,
           now' \in Nat, now <= now', current' \in Release, current <= current',
           found' \in Release \cup {NoRelease}
    PROVE  CycleInv'
<1>1. current' \in Nat /\ now \in Nat
  BY DEF CycleInv
<1>2. ASSUME NEW i \in DOMAIN runs PROVE RunInv(i)'
  <2>1. RunInv(i) /\ runs[i].resolved \in Nat /\ current \in Nat
    BY NameTypes DEF CycleInv
  <2>2. QED
    BY <1>1, <2>1 DEF RunInv
<1>3. doc.run # NoRun => doc.run.completed \in Nat /\ doc.run.completed <= now
  <2>1. doc.run \in Run \cup {NoRun}
    BY DEF CycleInv, Document
  <2>2. doc.run # NoRun => doc.run.completed \in Nat
    BY <2>1 DEF Run
  <2>3. QED
    BY <2>2 DEF CycleInv
<1>4. doc.published <= current'
  BY <1>1, NameTypes DEF CycleInv
<1>5. doc'.run # NoRun => doc'.run.completed <= now'
  BY <1>1, <1>3
<1>6. Readable(doc)'
  BY DEF CycleInv, Readable, RunFits, RetryFits
<1>7. QED
  BY <1>2, <1>4, <1>5, <1>6 DEF CycleInv

LEMMA DispatchInv ==
    ASSUME CycleInv, NEW by \in {"checker", "manual"},
           NEW hint \in Release \cup {NoRelease}, Dispatch(by, hint),
           UNCHANGED <<now, current, doc>>, found' \in Release \cup {NoRelease}
    PROVE  CycleInv'
<1> DEFINE new == NewRun(by, hint)
<1>1. new \in RunType /\ new.state = "queued" /\ new.resolved = NoRelease
  BY DEF CycleInv, NewRun, RunType, RunState
<1> HIDE DEF new
<1>2. /\ runs' = Append(runs, new) /\ runs' \in Seq(RunType)
      /\ \A i \in DOMAIN runs : i \in DOMAIN runs' /\ runs'[i] = runs[i]
      /\ \A i \in DOMAIN runs' : i \in DOMAIN runs \/ runs'[i] = new
      /\ \A i \in DOMAIN runs, j \in DOMAIN runs' : j < i => j \in DOMAIN runs
  BY <1>1 DEF CycleInv, Dispatch, new
<1>3. ASSUME NEW i \in DOMAIN runs' PROVE RunInv(i)'
  <2>1. CASE i \in DOMAIN runs
    BY <1>2, <2>1 DEF CycleInv, RunInv
  <2>2. CASE runs'[i] = new
    BY <1>1, <2>2 DEF RunInv, Active
  <2>3. QED
    BY <1>2, <2>1, <2>2
<1>4. QED
  BY <1>2, <1>3 DEF CycleInv, Readable, RunFits, RetryFits

\* A run goes from one of its states to the next, the document stays.
LEMMA MoveInv ==
    ASSUME CycleInv, NEW i \in DOMAIN runs, NEW run \in RunType,
           runs' = [runs EXCEPT ![i] = run],
           UNCHANGED <<now, current, doc, found>>,
           run.state # "queued",
           run.state \in Active =>
               \A j \in DOMAIN runs : j < i => runs[j].state = "done",
           run.state \in Active /\ run.resolved # NoRelease =>
               doc.published <= run.resolved /\ run.resolved <= current,
           run.state = "ended" => run.result \in Result,
           run.state = "ended" /\ run.result = "success" => run.resolved # NoRelease,
           run.state = "done" \/ runs[i].state # "done"
    PROVE  CycleInv'
<1>1. /\ runs' \in Seq(RunType) /\ DOMAIN runs' = DOMAIN runs /\ runs'[i] = run
      /\ \A j \in DOMAIN runs : j # i => runs'[j] = runs[j]
  BY DEF CycleInv
<1>2. \A j \in DOMAIN runs : runs[j].state = "done" => runs'[j].state = "done"
  BY <1>1
<1>3. ASSUME NEW j \in DOMAIN runs' PROVE RunInv(j)'
  <2>1. CASE j = i
    BY <1>1, <1>2, <2>1 DEF RunInv
  <2>2. CASE j # i
    BY <1>1, <1>2, <2>2 DEF RunInv, CycleInv
  <2>3. QED
    BY <2>1, <2>2
<1>4. QED
  BY <1>1, <1>3 DEF CycleInv, Readable, RunFits, RetryFits

\* The record of a run that has ended, at the time it is made.
LEMMA RecordTypes ==
    ASSUME CycleInv, NEW i \in DOMAIN runs, runs[i].state = "ended"
    PROVE  /\ RunRecord(i) \in Run /\ RunRecord(i).completed = now
           /\ RunRecord(i).result = runs[i].result
           /\ runs[i].result = "success" => RunRecord(i).release = runs[i].resolved
<1>1. RunInv(i) /\ runs[i] \in RunType /\ now \in Nat
  BY NameTypes DEF CycleInv
<1>2. runs[i].result \in Result /\ runs[i].began \in Nat
  BY <1>1 DEF RunInv, RunType
<1>3. NameOf(runs[i]) \in Release \cup {NoRelease}
  BY <1>1 DEF NameOf, RunType
<1>4. runs[i].result = "success" => NameOf(runs[i]) = runs[i].resolved
  BY <1>1 DEF RunInv, NameOf
<1>5. QED
  BY <1>1, <1>2, <1>3, <1>4 DEF RunRecord, Run

\* Recording changes what is published to what the run resolved, or not at all.
LEMMA RecordPublishes ==
    ASSUME CycleInv, NEW i \in DOMAIN runs, RecordStatus(i)
    PROVE  /\ doc'.published = IF runs[i].result = "success" THEN runs[i].resolved
                                                             ELSE doc.published
           /\ doc'.published <= current /\ doc.published <= doc'.published
           /\ runs[i].resolved # NoRelease => doc'.published <= runs[i].resolved
<1>1. /\ RunInv(i) /\ runs[i].state = "ended" /\ doc.published <= current
      /\ doc' = Recorded(doc, RunRecord(i))
  BY DEF CycleInv, RecordStatus
<1>2. doc'.published = IF runs[i].result = "success" THEN runs[i].resolved
                                                     ELSE doc.published
  BY <1>1, RecordTypes DEF Recorded
<1>3. runs[i].resolved # NoRelease =>
          doc.published <= runs[i].resolved /\ runs[i].resolved <= current
  BY <1>1 DEF RunInv, Active
<1>4. runs[i].result = "success" => runs[i].resolved # NoRelease
  BY <1>1 DEF RunInv
<1>5. QED
  BY <1>1, <1>2, <1>3, <1>4, NameTypes

LEMMA RecordStatusInv ==
    ASSUME CycleInv, NEW i \in DOMAIN runs, RecordStatus(i)
    PROVE  CycleInv'
<1> DEFINE run == Moved(runs[i], "recorded", runs[i].resolved, runs[i].result)
<1>1. /\ RunInv(i) /\ runs[i].state = "ended" /\ runs[i] \in RunType
      /\ runs' = [runs EXCEPT ![i] = run] /\ UNCHANGED <<now, current, found>>
  BY NameTypes DEF CycleInv, RecordStatus, MoveTo, SetRun, checker
<1>2. run \in RunType /\ run.state = "recorded" /\ run.resolved = runs[i].resolved
  BY <1>1 DEF RunType, Moved, RunState
<1> HIDE DEF run
<1>3. /\ runs' \in Seq(RunType) /\ DOMAIN runs' = DOMAIN runs /\ runs'[i] = run
      /\ \A j \in DOMAIN runs : j # i => runs'[j] = runs[j]
  BY <1>1, <1>2 DEF CycleInv
<1>4. \A j \in DOMAIN runs : j < i => runs[j].state = "done"
  BY <1>1 DEF RunInv, Active
<1>5. \A j \in DOMAIN runs : j > i => runs[j].state \notin Active
  BY <1>1 DEF CycleInv, RunInv
<1>6. ASSUME NEW j \in DOMAIN runs' PROVE RunInv(j)'
  <2>1. CASE j = i
    <3>1. \A k \in DOMAIN runs' : k < j => runs'[k].state = "done"
      <4>1. ASSUME NEW k \in DOMAIN runs', k < j PROVE runs'[k].state = "done"
        <5>1. k \in Nat /\ k # i
          BY <1>3, <2>1, <4>1 DEF CycleInv
        <5>2. QED
          BY <1>3, <1>4, <2>1, <4>1, <5>1
      <4>2. QED
        BY <4>1
    <3>2. QED
      BY <1>1, <1>2, <1>3, <2>1, <3>1, RecordPublishes DEF RunInv, Active
  <2>2. CASE j # i
    <3>1. j \in Nat /\ i \in Nat /\ runs'[j] = runs[j] /\ RunInv(j)
      BY <1>3, <2>2 DEF CycleInv
    <3>2. runs[j].state \notin Active
      BY <1>3, <1>4, <1>5, <2>2, <3>1 DEF Active
    <3>3. QED
      BY <3>1, <3>2 DEF RunInv, Active
  <2>3. QED
    BY <2>1, <2>2
<1>7. doc' \in Document /\ Readable(doc')
  <2>1. doc.run # NoRun => doc.run.completed <= RunRecord(i).completed
    BY <1>1, RecordTypes DEF CycleInv
  <2>2. Recordable(doc, RunRecord(i)) /\ doc' = Recorded(doc, RunRecord(i))
    BY DEF RecordStatus
  <2>3. doc \in Document /\ RunRecord(i) \in Run
    BY <1>1, RecordTypes DEF CycleInv
  <2>4. QED
    BY <2>1, <2>2, <2>3, RecordedIsReadable
<1>8. doc'.run # NoRun => doc'.run.completed <= now'
  <2>1. doc'.run = RunRecord(i)
    BY DEF RecordStatus, Recorded
  <2>2. now \in Nat /\ RunRecord(i).completed = now
    BY <1>1, RecordTypes DEF CycleInv
  <2>3. QED
    BY <1>1, <2>1, <2>2
<1>9. doc'.published <= current'
  BY <1>1, RecordPublishes
<1>10. Readable(doc)'
  BY <1>7 DEF Readable, RunFits, RetryFits
<1>11. QED
  BY <1>1, <1>3, <1>6, <1>7, <1>8, <1>9, <1>10 DEF CycleInv

LEMMA ProcessInv ==
    ASSUME CycleInv, NEW i \in DOMAIN runs, Process(i) \/ CancelQueued(i)
    PROVE  CycleInv'
<1>1. RunInv(i) /\ runs[i] \in RunType /\ NoRelease \in Release \cup {NoRelease}
  BY NameTypes DEF CycleInv
<1> DEFINE in(state) == Moved(runs[i], state, runs[i].resolved, runs[i].result)
<1>2. ASSUME NEW state \in RunState
      PROVE  /\ in(state) \in RunType /\ in(state).state = state
             /\ in(state).resolved = runs[i].resolved
             /\ in(state).result = runs[i].result
  BY <1>1, <1>2 DEF Moved, RunType
<1>3. CASE StartRun(i)
  <2>1. /\ runs' = [runs EXCEPT ![i] = in("running")]
        /\ UNCHANGED <<now, current, doc, found>> /\ runs[i].state = "queued"
        /\ \A j \in DOMAIN runs : j < i => runs[j].state = "done"
    BY <1>3 DEF StartRun, MoveTo, SetRun, checker
  <2>2. runs[i].resolved = NoRelease
    BY <1>1, <2>1 DEF RunInv
  <2> HIDE DEF in
  <2>3. QED
    BY <1>2, <2>1, <2>2, MoveInv DEF RunState
<1>4. CASE ResolveRelease(i)
  <2> DEFINE run == Moved(runs[i], "running", current, NoResult)
  <2>1. /\ runs' = [runs EXCEPT ![i] = run]
        /\ UNCHANGED <<now, current, doc, found>> /\ runs[i].state = "running"
    BY <1>4 DEF ResolveRelease, SetRun, checker
  <2>2. run \in RunType /\ run.state = "running" /\ run.resolved = current
    BY <1>1 DEF CycleInv, Moved, RunType, RunState
  <2>3. doc.published <= current /\ current <= current
    BY NameTypes DEF CycleInv
  <2>4. \A j \in DOMAIN runs : j < i => runs[j].state = "done"
    BY <1>1, <2>1 DEF RunInv, Active
  <2> HIDE DEF run
  <2>5. QED
    BY <2>1, <2>2, <2>3, <2>4, MoveInv
<1>5. ASSUME NEW download \in JobResult, NEW publish \in JobResult,
             FinishProcessing(i, download, publish)
      PROVE  CycleInv'
  <2> DEFINE result == ProcessingResult({download, publish})
             run == Moved(runs[i], "ended", runs[i].resolved, result)
  <2>1. result \in Result
    BY DEF ProcessingResult, Result
  <2>2. result = "success" => download = "success"
    BY DEF ProcessingResult
  <2>3. /\ runs' = [runs EXCEPT ![i] = run] /\ runs[i].state = "running"
        /\ UNCHANGED <<now, current, doc, found>>
        /\ download = "success" => runs[i].resolved # NoRelease
    BY <1>5 DEF FinishProcessing, SetRun, checker
  <2> HIDE DEF result
  <2>4. /\ run \in RunType /\ run.state = "ended" /\ run.result = result
        /\ run.resolved = runs[i].resolved
    BY <1>1, <2>1 DEF Moved, RunType, RunState
  <2>5. /\ \A j \in DOMAIN runs : j < i => runs[j].state = "done"
        /\ runs[i].resolved # NoRelease =>
              doc.published <= runs[i].resolved /\ runs[i].resolved <= current
    BY <1>1, <2>3 DEF RunInv, Active
  <2> HIDE DEF run
  <2>6. QED
    BY <2>1, <2>2, <2>3, <2>4, <2>5, MoveInv
<1>6. CASE LoseStatus(i)
  <2>1. /\ runs' = [runs EXCEPT ![i] = in("lost")]
        /\ UNCHANGED <<now, current, doc, found>> /\ runs[i].state = "ended"
    BY <1>6 DEF LoseStatus, MoveTo, SetRun, checker
  <2>2. /\ \A j \in DOMAIN runs : j < i => runs[j].state = "done"
        /\ runs[i].resolved # NoRelease =>
              doc.published <= runs[i].resolved /\ runs[i].resolved <= current
    BY <1>1, <2>1 DEF RunInv, Active
  <2> HIDE DEF in
  <2>3. QED
    BY <1>2, <2>1, <2>2, MoveInv DEF RunState
<1>7. CASE CompleteRun(i) \/ CancelQueued(i)
  <2>1. /\ runs' = [runs EXCEPT ![i] = Over] /\ UNCHANGED <<now, current, doc, found>>
        /\ runs[i].state \in {"recorded", "lost", "queued"}
    BY <1>7 DEF CompleteRun, CancelQueued, SetRun, checker
  <2>2. Over \in RunType /\ Over.state = "done"
    BY DEF Over, RunType, RunState
  <2>3. QED
    BY <2>1, <2>2, MoveInv DEF Active
<1>8. QED
  BY <1>3, <1>4, <1>5, <1>6, <1>7, RecordStatusInv DEF Process

LEMMA NextCycle == CycleInv /\ [Next]_vars => CycleInv'
<1> SUFFICES ASSUME CycleInv, [Next]_vars PROVE CycleInv'
  OBVIOUS
<1>1. now \in Nat /\ current \in Nat /\ current \in Release /\ found \in Release \cup {NoRelease}
  BY NameTypes DEF CycleInv
<1>2. CASE Tick
  BY <1>1, <1>2, QuietInv DEF Tick, checker
<1>3. ASSUME NEW r \in Release, NewRelease(r) PROVE CycleInv'
  BY <1>1, <1>3, QuietInv DEF NewRelease, checker
<1>4. CASE CheckOut \/ CheckActive \/ CheckFails
  BY <1>1, <1>4, QuietInv DEF CheckOut, CheckActive, CheckFails, EndCheck
<1>5. ASSUME NEW force \in BOOLEAN, Compare(force) PROVE CycleInv'
  BY <1>1, <1>5, QuietInv DEF Compare, EndCheck
<1>6. CASE CheckerDispatch
  <2>1. Dispatch("checker", found) /\ UNCHANGED <<now, current, doc>> /\ found' = NoRelease
    BY <1>6 DEF CheckerDispatch, EndCheck
  <2>2. QED
    BY <1>1, <2>1, DispatchInv
<1>7. CASE ManualDispatch
  <2>1. Dispatch("manual", NoRelease) /\ UNCHANGED <<now, current, doc, found>>
    BY <1>7 DEF ManualDispatch, checker
  <2>2. QED
    BY <1>1, <2>1, DispatchInv
<1>8. CASE UNCHANGED vars
  BY <1>1, <1>8, QuietInv DEF vars, checker
<1>9. QED
  BY <1>2, <1>3, <1>4, <1>5, <1>6, <1>7, <1>8, ProcessInv DEF Next, Check

THEOREM CycleInvariant == Spec => []CycleInv
<1>1. QED
  BY InitCycle, NextCycle, PTL DEF Spec

\* Every document that record leaves behind is one that read, compare and record
\* accept, so no run blocks its target.
THEOREM DocumentsStayReadable == Spec => []DocumentIsReadable
<1>1. CycleInv => DocumentIsReadable
  BY DEF CycleInv, DocumentIsReadable
<1>2. QED
  BY <1>1, CycleInvariant, PTL

\* Only the record-status job of a run changes the document.
LEMMA OnlyRecordingWrites ==
    ASSUME [Next]_vars
    PROVE  UNCHANGED doc \/ \E i \in DOMAIN runs : RecordStatus(i)
<1>1. ASSUME NEW i \in DOMAIN runs, Process(i) \/ CancelQueued(i), ~RecordStatus(i)
      PROVE  UNCHANGED doc
  <2>1. CASE StartRun(i) \/ ResolveRelease(i)
    BY <2>1 DEF StartRun, ResolveRelease
  <2>2. CASE \E download, publish \in JobResult : FinishProcessing(i, download, publish)
    BY <2>2 DEF FinishProcessing
  <2>3. CASE LoseStatus(i) \/ CompleteRun(i) \/ CancelQueued(i)
    BY <2>3 DEF LoseStatus, CompleteRun, CancelQueued
  <2>4. QED
    BY <1>1, <2>1, <2>2, <2>3 DEF Process
<1>2. CASE Tick \/ (\E r \in Release : NewRelease(r)) \/ ManualDispatch \/ UNCHANGED vars
  BY <1>2 DEF Tick, NewRelease, ManualDispatch, vars
<1>3. CASE Check \/ Compare(TRUE) \/ CheckFails
  <2>1. CASE CheckOut \/ CheckActive \/ CheckerDispatch \/ CheckFails
    BY <2>1 DEF CheckOut, CheckActive, CheckerDispatch, CheckFails
  <2>2. CASE Compare(TRUE) \/ Compare(FALSE)
    BY <2>2 DEF Compare
  <2>3. QED
    BY <1>3, <2>1, <2>2 DEF Check
<1>4. QED
  BY <1>1, <1>2, <1>3 DEF Next

\* The published release never goes back, because runs are taken from the queue
\* one at a time and each resolves its release only then.
THEOREM PublishedIsMonotone == Spec => PublishedNeverGoesBack
<1>1. CycleInv /\ [Next]_vars => doc'.published >= doc.published
  <2> SUFFICES ASSUME CycleInv, [Next]_vars PROVE doc'.published >= doc.published
    OBVIOUS
  <2>1. CASE \E i \in DOMAIN runs : RecordStatus(i)
    <3>1. doc.published <= doc'.published /\ doc'.published \in Nat
      BY <2>1, RecordPublishes, NameTypes
    <3>2. QED
      BY <3>1, NameTypes
  <2>2. CASE UNCHANGED doc
    BY <2>2, NameTypes
  <2>3. QED
    BY <2>1, <2>2, OnlyRecordingWrites
<1>2. QED
  BY <1>1, CycleInvariant, PTL DEF Spec, PublishedNeverGoesBack

\* What recording a run does to the retry state of a readable document, for any
\* document and any run that ends after the recorded one: a cycle that goes on
\* keeps its first failure, and its last one does not move back.
LEMMA RetryGoesOn ==
    ASSUME NEW d \in Document, NEW run \in Run,
           Readable(d), d.run # NoRun => d.run.completed <= run.completed,
           d.retry # NoRetry, RetryAfter(d, run) # NoRetry,
           RetryAfter(d, run).release = d.retry.release
    PROVE  /\ RetryAfter(d, run).first = d.retry.first
           /\ RetryAfter(d, run).last >= d.retry.last
<1>1. d.retry \in Retry /\ d.run \in Run \cup {NoRun}
  BY DEF Document
<1>2. d.retry.first \in Nat /\ d.retry.last \in Nat /\ run.completed \in Nat
  BY <1>1 DEF Retry, Run
<1>3. d.run # NoRun /\ d.retry.first <= d.retry.last /\ d.retry.last <= d.run.completed
  BY DEF Readable, RetryFits
<1>4. d.run.completed \in Nat
  BY <1>1, <1>3 DEF Run
<1>5. d.retry.first <= run.completed /\ d.retry.last <= run.completed
  BY <1>2, <1>3, <1>4
<1>6. CASE ~FailedUnpublished(run, d.published)
  <2>1. RetryAfter(d, run) = d.retry
    BY <1>6 DEF RetryAfter
  <2>2. QED
    BY <1>2, <2>1
<1>7. CASE FailedUnpublished(run, d.published)
  <2> DEFINE first == IF d.retry # NoRetry /\ d.retry.release = run.release
                        THEN Earlier(d.retry.first, run.completed)
                        ELSE run.completed
  <2>1. RetryAfter(d, run) = [release |-> run.release, first |-> first,
                              last |-> run.completed]
    BY <1>7 DEF RetryAfter, FailedUnpublished
  <2> HIDE DEF first
  <2>2. /\ RetryAfter(d, run).release = run.release /\ RetryAfter(d, run).first = first
        /\ RetryAfter(d, run).last = run.completed
    BY <2>1
  <2>3. first = d.retry.first
    BY <1>2, <1>5, <2>2 DEF first, Earlier
  <2>4. QED
    BY <1>2, <1>5, <2>2, <2>3
<1>8. QED
  BY <1>6, <1>7

\* A cycle of failures keeps the time of its first failure, which decides how long
\* the checker waits, whatever runs of this or another release are recorded while
\* it lasts.
THEOREM CyclesKeepTheirStart == Spec => CycleKeepsItsStart
<1> DEFINE Goes == doc.retry # NoRetry /\ doc'.retry # NoRetry
                   /\ doc.retry.release = doc'.retry.release
           Keeps == doc'.retry.first = doc.retry.first /\ doc'.retry.last >= doc.retry.last
<1>1. CycleInv /\ [Next]_vars => (Goes => Keeps)
  <2> SUFFICES ASSUME CycleInv, [Next]_vars, Goes PROVE Keeps
    OBVIOUS
  <2>1. ASSUME NEW i \in DOMAIN runs, RecordStatus(i) PROVE Keeps
    <3>1. /\ Recordable(doc, RunRecord(i)) /\ doc' = Recorded(doc, RunRecord(i))
          /\ runs[i].state = "ended" /\ RunInv(i)
      BY <2>1 DEF RecordStatus, CycleInv
    <3>2. doc \in Document /\ RunRecord(i) \in Run /\ Readable(doc)
      BY <3>1, RecordTypes DEF CycleInv
    <3>3. doc.run # NoRun => doc.run.completed <= RunRecord(i).completed
      BY <3>1, RecordTypes DEF CycleInv
    <3>4. doc'.retry = RetryAfter(doc, RunRecord(i))
      BY <3>1 DEF Recorded
    <3>5. QED
      BY <3>2, <3>3, <3>4, RetryGoesOn
  <2>2. CASE UNCHANGED doc
    <3>1. doc.retry \in Retry
      BY DEF CycleInv, Document
    <3>2. doc.retry.last \in Nat
      BY <3>1 DEF Retry
    <3>3. QED
      BY <2>2, <3>2
  <2>3. QED
    BY <2>1, <2>2, OnlyRecordingWrites
<1>2. QED
  BY <1>1, CycleInvariant, PTL DEF Spec, CycleKeepsItsStart

\* What the checker keeps of a check has its type, and so has the rest: at every
\* step the release found is one of the game, and the document is one that the
\* three operations of release_status.py are defined on.
CheckTypes == phase \in {"idle", "checkout", "due", "clear"} /\ seen \in Document

THEOREM CycleTypeCorrect == Spec => []TypeOK
<1>1. Init => CheckTypes
  BY DEF Init, CheckTypes, Bootstrap, Document
<1>2. CycleInv /\ CheckTypes /\ [Next]_vars => CheckTypes'
  <2> SUFFICES ASSUME CycleInv, CheckTypes, [Next]_vars PROVE CheckTypes'
    OBVIOUS
  <2>1. doc \in Document /\ Bootstrap \in Document
    BY DEF CycleInv, Bootstrap, Document
  <2>2. CASE UNCHANGED <<phase, seen>>
    BY <2>2 DEF CheckTypes
  <2>3. CASE CheckOut \/ CheckActive \/ CheckerDispatch \/ CheckFails
    BY <2>1, <2>3 DEF CheckOut, CheckActive, CheckerDispatch, CheckFails, EndCheck, CheckTypes
  <2>4. CASE Compare(TRUE) \/ Compare(FALSE)
    BY <2>1, <2>4 DEF Compare, EndCheck, CheckTypes
  <2>5. ASSUME NEW i \in DOMAIN runs, Process(i) \/ CancelQueued(i)
        PROVE  UNCHANGED <<phase, seen>>
    BY <2>5 DEF Process, CancelQueued, StartRun, ResolveRelease, FinishProcessing,
                RecordStatus, LoseStatus, CompleteRun, MoveTo, SetRun, checker
  <2>6. CASE Tick \/ (\E r \in Release : NewRelease(r)) \/ ManualDispatch \/ UNCHANGED vars
    BY <2>2, <2>6 DEF Tick, NewRelease, ManualDispatch, vars, checker
  <2>7. QED
    BY <2>2, <2>3, <2>4, <2>5, <2>6 DEF Next, Check
<1>3. CycleInv /\ CheckTypes => TypeOK
  <2> SUFFICES ASSUME CycleInv, CheckTypes PROVE TypeOK
    OBVIOUS
  <2>1. \A run \in RunType :
            /\ run.state \in RunState /\ run.resolved \in Release \cup {NoRelease}
            /\ run.hint \in Release \cup {NoRelease}
            /\ run.result \in Result \cup {NoResult} /\ run.began \in Nat
    BY DEF RunType
  <2>2. \A i \in DOMAIN runs : runs[i] \in RunType
    BY DEF CycleInv
  <2>3. QED
    BY <2>1, <2>2 DEF CycleInv, CheckTypes, TypeOK
<1>4. QED
  BY <1>1, <1>2, <1>3, CycleInvariant, PTL DEF Spec

-----------------------------------------------------------------------------
(* One automatic run.                                                      *)

Busy(i) == runs[i].by = "checker" /\ runs[i].state \in Unfinished

\* From its look at the unfinished runs to its dispatch the checker is the only
\* one who could add an automatic run: a manual dispatch adds a manual one.
CheckInv ==
    /\ \A i, j \in DOMAIN runs : Busy(i) /\ Busy(j) => i = j
    /\ phase = "clear" => \A i \in DOMAIN runs : ~Busy(i)

LEMMA CheckStep == CycleInv /\ CheckInv /\ [Next]_vars => CheckInv'
<1> SUFFICES ASSUME CycleInv, CheckInv, [Next]_vars PROVE CheckInv'
  OBVIOUS
<1>1. runs \in Seq(RunType) /\ \A i \in DOMAIN runs : runs[i] \in RunType
  BY NameTypes DEF CycleInv
<1>2. CASE UNCHANGED runs /\ (phase' # "clear" \/ phase = "clear")
  BY <1>2 DEF CheckInv, Busy
<1>3. CASE CheckActive
  <2>1. UNCHANGED runs
    BY <1>3 DEF CheckActive
  <2>2. phase' = "clear" => \A i \in DOMAIN runs : runs[i].state \notin Unfinished
    BY <1>3 DEF CheckActive, EndCheck
  <2>3. QED
    BY <2>1, <2>2 DEF CheckInv, Busy
<1>4. ASSUME NEW by \in {"checker", "manual"}, NEW hint, Dispatch(by, hint),
             by = "checker" => phase = "clear" /\ phase' = "idle",
             by = "manual" => UNCHANGED phase
      PROVE  CheckInv'
  <2> DEFINE new == NewRun(by, hint)
  <2>1. new.by = by
    BY DEF NewRun
  <2> HIDE DEF new
  <2>2. /\ \A i \in DOMAIN runs : i \in DOMAIN runs' /\ runs'[i] = runs[i]
        /\ \A i \in DOMAIN runs' : i \in DOMAIN runs \/ (i = Len(runs) + 1 /\ runs'[i] = new)
    BY <1>1, <1>4 DEF Dispatch, new
  <2>3. CASE by = "checker"
    BY <1>4, <2>1, <2>2, <2>3 DEF CheckInv, Busy
  <2>4. CASE by = "manual"
    BY <1>4, <2>1, <2>2, <2>4 DEF CheckInv, Busy
  <2>5. QED
    BY <2>3, <2>4
<1>5. ASSUME NEW i \in DOMAIN runs, Process(i) \/ CancelQueued(i) PROVE CheckInv'
  <2> DEFINE Step(run) ==
             /\ runs' = [runs EXCEPT ![i] = run] /\ UNCHANGED phase
             /\ run.state # "done" => run.by = runs[i].by /\ runs[i].state # "done"
             /\ run.state = "done" => run.by = "manual"
  <2>1. \E run : Step(run)
    <3>1. ASSUME NEW state \in RunState \ {"done"}, NEW resolved, NEW result,
                 SetRun(i, Moved(runs[i], state, resolved, result)),
                 runs[i].state # "done"
          PROVE  \E run : Step(run)
      <4>1. Step(Moved(runs[i], state, resolved, result))
        BY <3>1 DEF Moved, SetRun, checker
      <4>2. QED
        BY <4>1
    <3>2. CASE StartRun(i)
      BY <3>1, <3>2 DEF StartRun, MoveTo, RunState
    <3>3. CASE ResolveRelease(i)
      BY <3>1, <3>3 DEF ResolveRelease, RunState
    <3>4. CASE \E download, publish \in JobResult : FinishProcessing(i, download, publish)
      BY <3>1, <3>4 DEF FinishProcessing, RunState
    <3>5. CASE RecordStatus(i) \/ LoseStatus(i)
      BY <3>1, <3>5 DEF RecordStatus, LoseStatus, MoveTo, RunState
    <3>6. CASE CompleteRun(i) \/ CancelQueued(i)
      <4>1. Step(Over)
        BY <3>6 DEF CompleteRun, CancelQueued, SetRun, checker, Over
      <4>2. QED
        BY <4>1
    <3>7. QED
      BY <1>5, <3>2, <3>3, <3>4, <3>5, <3>6 DEF Process
  <2>2. PICK run : Step(run)
    BY <2>1
  <2>3. /\ DOMAIN runs' = DOMAIN runs /\ runs'[i] = run
        /\ \A j \in DOMAIN runs : j # i => runs'[j] = runs[j]
    BY <1>1, <2>2
  <2>4. \A j \in DOMAIN runs : Busy(j)' => Busy(j)
    <3>1. runs[i] \in RunType
      BY <1>1
    <3>2. Busy(i)' => Busy(i)
      BY <2>2, <2>3, <3>1 DEF Busy, Unfinished, RunType
    <3>3. QED
      BY <2>3, <3>2 DEF Busy
  <2>5. QED
    BY <2>2, <2>3, <2>4 DEF CheckInv
<1>6. CASE \/ Tick \/ (\E r \in Release : NewRelease(r)) \/ CheckOut
           \/ Compare(FALSE) \/ Compare(TRUE) \/ CheckFails \/ UNCHANGED vars
  BY <1>2, <1>6 DEF Tick, NewRelease, CheckOut, Compare, EndCheck, CheckFails,
                    vars, checker
<1>7. CASE CheckerDispatch
  BY <1>4, <1>7 DEF CheckerDispatch, EndCheck
<1>8. CASE ManualDispatch
  BY <1>4, <1>8 DEF ManualDispatch, checker
<1>9. QED
  BY <1>3, <1>5, <1>6, <1>7, <1>8 DEF Next, Check

\* However dispatches by hand and failing checks interleave with it, the checker
\* never has two unfinished runs of a target.
THEOREM AutomaticRunsAreSingle == Spec => []OneAutomaticRun
<1>1. Init => CheckInv
  BY DEF Init, CheckInv
<1>2. CheckInv => OneAutomaticRun
  BY DEF CheckInv, OneAutomaticRun, Busy
<1>3. QED
  BY <1>1, <1>2, CheckStep, CycleInvariant, PTL DEF Spec

=============================================================================
