-------------------------- MODULE PipelineRun_proof --------------------------
(***************************************************************************)
(* Proofs about PipelineRun, and about StatusReader, which extends it, for *)
(* any number of stages, processes, readers, builds and damageable stages. *)
(* IInv, defined in PipelineRunInv, is inductive: one lemma per action     *)
(* shows that the action keeps it.                                         *)
(***************************************************************************)
EXTENDS PipelineRunInv, StatusReader, TLAPS

USE StagesAssumption, BuildAssumption, BoundAssumption, ProcAssumption

\* The idle values have the types of their variables.
LEMMA IdleTypes == NoCommand \in Command /\ NoJob \in Job /\ Resolve \in Stage
<1>1. (CHOOSE b \in Build : TRUE) \in Build
  OBVIOUS
<1>2. QED
  BY <1>1 DEF NoCommand, Command, Mode, NoJob, Job, Stage, Resolve, NoResult

LEMMA InitInv == Init => IInv
<1> SUFFICES ASSUME Init PROVE IInv
  OBVIOUS
<1> USE DEF Init
<1>1. TypeOK
  BY IdleTypes DEF TypeOK, Status, StageState, NoResult, Input, PC
<1>2. \A p \in Proc : /\ pc[p] = "idle" /\ cmd[p].mode = "full"
                      /\ at[p] = Resolve /\ up[p] = NoResult
  BY DEF NoCommand
<1>3. \A s \in Stage : status[s].state = "pending" /\ status[s].attempt = 0
  OBVIOUS
<1>4. QED
  BY <1>1, <1>2, <1>3
  DEF IInv, LockIsHeld, Position, AtMostOneRunning, RunningIsMine, OwnsItsStage,
      WritesInOrder, CommittedIntegrity, PrefixIsCommitted, PrefixIsFinished,
      ResolveComesFirst, InFlight, Guarded, AtStage

\* While p is in the middle of a command every other process is idle.
LEMMA OthersAreIdle ==
    ASSUME IInv, NEW p \in Proc, pc[p] # "idle"
    PROVE  lock = p /\ \A q \in Proc \ {p} : pc[q] = "idle"
BY DEF IInv, LockIsHeld

-----------------------------------------------------------------------------
(* Steps that leave the files and the ledger alone.                        *)

LEMMA ReleaseInv ==
    ASSUME IInv, NEW p \in Proc, Release(p), UNCHANGED <<disk, made>>,
           pc[p] # "idle"
    PROVE  IInv'
<1> USE OthersAreIdle DEF Release, disk
<1>1. TypeOK'
  BY IdleTypes DEF IInv, TypeOK, PC, NoResult
<1>2. \A q \in Proc : pc'[q] = "idle"
  BY DEF IInv, TypeOK
<1>3. \A q \in Proc : /\ cmd'[q].mode = "direct" => cmd'[q].until # Resolve
                      /\ at'[q] = Resolve /\ up'[q] = NoResult
  BY DEF NoCommand, IInv, TypeOK, Position
<1>4. QED
  BY <1>1, <1>2, <1>3
  DEF IInv, LockIsHeld, Position, AtMostOneRunning, RunningIsMine, OwnsItsStage,
      WritesInOrder, CommittedIntegrity, PrefixIsCommitted, PrefixIsFinished,
      ResolveComesFirst, InFlight, Guarded, AtStage

LEMMA BeginInv ==
    ASSUME IInv, NEW p \in Proc, NEW until \in Stage, NEW mode \in Mode,
           NEW b \in Build, Begin(p, until, mode, b)
    PROVE  IInv'
<1> USE DEF Begin, disk
<1>1. TypeOK'
  BY DEF IInv, TypeOK, PC, Command
<1>2. \A q \in Proc \ {p} : pc'[q] = "idle" /\ cmd'[q] = cmd[q]
  BY DEF IInv, TypeOK, LockIsHeld
<1>3. pc'[p] = "reconcile" /\ cmd'[p] = [until |-> until, mode |-> mode, build |-> b]
  BY DEF IInv, TypeOK
<1>4. LockIsHeld'
  BY <1>2 DEF LockIsHeld
<1>5. Position'
  BY <1>2, <1>3 DEF IInv, TypeOK, Position, AtStage, Guarded, Stage, Resolve
<1>6. \A q \in Proc : pc'[q] \in {"idle", "reconcile"}
  BY <1>2, <1>3
<1>7. QED
  BY <1>1, <1>4, <1>5, <1>6
  DEF IInv, AtMostOneRunning, RunningIsMine, OwnsItsStage,
      WritesInOrder, CommittedIntegrity, PrefixIsCommitted, PrefixIsFinished,
      ResolveComesFirst, InFlight, Guarded, AtStage

LEMMA ReconciledInv ==
    ASSUME IInv, NEW p \in Proc, Reconciled(p)
    PROVE  IInv'
<1> USE OthersAreIdle DEF Reconciled, disk
<1>1. TypeOK'
  BY DEF IInv, TypeOK, PC
<1>2. \A q \in Proc \ {p} : pc'[q] = "idle"
  BY DEF IInv, TypeOK
<1>3. pc'[p] \in {"predecessor", "stage"} /\ (pc'[p] = "predecessor" <=> cmd[p].mode = "direct")
  BY DEF IInv, TypeOK
<1>4. at[p] = Resolve /\ up[p] = NoResult
  BY DEF IInv, Position
<1>5. LockIsHeld'
  BY <1>2 DEF LockIsHeld
<1>6. Position'
  BY <1>2, <1>3, <1>4 DEF IInv, Position, AtStage, Guarded
<1>7. \A q \in Proc : pc'[q] \in {"idle", "predecessor", "stage"}
  BY <1>2, <1>3
<1>8. PrefixIsCommitted'
  BY <1>2, <1>3, <1>4 DEF PrefixIsCommitted, AtStage, Guarded, Stage, Resolve
<1>9. QED
  BY <1>1, <1>5, <1>6, <1>7, <1>8
  DEF IInv, AtMostOneRunning, RunningIsMine, OwnsItsStage,
      WritesInOrder, CommittedIntegrity, PrefixIsFinished,
      ResolveComesFirst, InFlight, Guarded

LEMMA LoadPredecessorInv ==
    ASSUME IInv, NEW p \in Proc, LoadPredecessor(p)
    PROVE  IInv'
<1> USE OthersAreIdle DEF LoadPredecessor, disk
<1>1. cmd[p].mode = "direct" /\ cmd[p].until \in Stage /\ cmd[p].until # Resolve
  BY DEF IInv, Position, TypeOK, Command
<1>2. cmd[p].until - 1 \in Stage
  BY <1>1 DEF Stage, Resolve
<1>3. TypeOK'
  BY <1>1, <1>2 DEF IInv, TypeOK, PC, Status
<1>4. \A q \in Proc \ {p} : pc'[q] = "idle"
  BY DEF IInv, TypeOK
<1>5. /\ pc'[p] = "stage" /\ at'[p] = cmd[p].until
      /\ up'[p] = status[cmd[p].until - 1].result
  BY DEF IInv, TypeOK
<1>6. LockIsHeld'
  BY <1>4 DEF LockIsHeld
<1>7. Position'
  BY <1>1, <1>4, <1>5 DEF IInv, Position, AtStage, Guarded, Stage
<1>8. \A q \in Proc : pc'[q] \in {"idle", "stage"}
  BY <1>4, <1>5
<1>9. PrefixIsCommitted'
  BY <1>1, <1>4, <1>5 DEF PrefixIsCommitted, AtStage, Guarded, TrustedPrefix, Stage, Resolve
<1>10. RunningIsMine'
  BY <1>4, <1>5, <1>8 DEF IInv, RunningIsMine, InFlight
<1>11. QED
  BY <1>3, <1>6, <1>7, <1>8, <1>9, <1>10
  DEF IInv, AtMostOneRunning, OwnsItsStage,
      WritesInOrder, CommittedIntegrity, PrefixIsFinished,
      ResolveComesFirst, InFlight, Guarded

LEMMA StartStageInv ==
    ASSUME IInv, NEW p \in Proc, StartStage(p)
    PROVE  IInv'
<1> USE OthersAreIdle DEF StartStage, disk
<1>1. Prepared(p) \in Input
  BY DEF IInv, TypeOK, Command, Prepared, Input
<1>2. TypeOK'
  <2>1. status[at[p]].attempt + 1 \in Nat
    BY DEF IInv, TypeOK, Status
  <2>2. [input |-> Prepared(p), attempt |-> status[at[p]].attempt + 1,
         result |-> NoResult] \in Job
    BY <1>1, <2>1 DEF Job, NoResult
  <2>3. job' \in [Proc -> Job]
    BY <2>2 DEF IInv, TypeOK
  <2>4. pc' \in [Proc -> PC]
    BY DEF IInv, TypeOK, PC
  <2>5. QED
    BY <2>3, <2>4 DEF IInv, TypeOK
<1>3. \A q \in Proc \ {p} : pc'[q] = "idle"
  BY DEF IInv, TypeOK
<1>4. /\ pc'[p] = "start"
      /\ job'[p] = [input |-> Prepared(p), attempt |-> status[at[p]].attempt + 1,
                    result |-> NoResult]
  BY DEF IInv, TypeOK
<1>5. Prepared(p)' = Prepared(p)
  BY DEF Prepared
<1>6. LockIsHeld' /\ Position'
  BY <1>3, <1>4 DEF IInv, LockIsHeld, Position, AtStage, Guarded
<1>7. RunningIsMine'
  BY <1>3, <1>4 DEF IInv, RunningIsMine, InFlight
<1>8. OwnsItsStage'
  BY <1>3, <1>4 DEF OwnsItsStage, InFlight
<1>9. WritesInOrder'
  <2>1. status[at[p]].attempt \in Nat
    BY DEF IInv, TypeOK, Status
  <2>2. job'[p].attempt > 0 /\ job'[p].input = Prepared(p)
    BY <1>4, <2>1
  <2>3. QED
    BY <1>3, <1>4, <1>5, <2>2 DEF WritesInOrder, Guarded
<1>10. PrefixIsCommitted' /\ PrefixIsFinished'
  BY <1>3, <1>4 DEF IInv, PrefixIsCommitted, PrefixIsFinished, AtStage, Guarded, Linked
<1>11. ResolveComesFirst'
  <2>1. at[p] = Resolve => status[Resolve].state # "succeeded"
    BY DEF Pinned
  <2>2. at[p] = Resolve => \A s \in Stage \ {Resolve} : ~(status[s].attempt > 0)
    BY <2>1 DEF IInv, ResolveComesFirst
  <2>3. \A s \in Stage : status[s].attempt \in Nat
    BY DEF IInv, TypeOK, Status
  <2>4. QED
    BY <1>3, <1>4, <2>1, <2>2, <2>3 DEF IInv, ResolveComesFirst, Guarded
<1>12. QED
  BY <1>2, <1>6, <1>7, <1>8, <1>9, <1>10, <1>11 DEF IInv, AtMostOneRunning, CommittedIntegrity

\* The stage at hand is committed with result r and fits its predecessor.
LEMMA AdvanceInv ==
    ASSUME IInv, NEW p \in Proc, NEW r \in Nat, Advance(p, r),
           UNCHANGED <<disk, made, lock>>,
           pc[p] \in {"stage", "committing"},
           status[at[p]].state = "succeeded",
           status[at[p]].result = r,
           status[at[p]].input = Prepared(p) \/ at[p] = Resolve
    PROVE  IInv'
<1> USE OthersAreIdle DEF Advance, disk
<1>1. at[p] \in Stage /\ cmd[p].until \in Stage /\ at[p] <= cmd[p].until
  BY DEF IInv, TypeOK, Command, Position
<1>2. at[p] # cmd[p].until => at[p] + 1 \in Stage /\ at[p] + 1 <= cmd[p].until
  BY <1>1 DEF Stage
<1>3. TypeOK'
  <2>1. at' \in [Proc -> Stage] /\ pc' \in [Proc -> PC]
    <3>1. CASE at[p] = cmd[p].until
      BY <3>1 DEF IInv, TypeOK, PC
    <3>2. CASE at[p] # cmd[p].until
      <4>1. at[p] + 1 \in Stage
        BY <1>2, <3>2
      <4>2. PICK n \in Stage : n = at[p] + 1
        BY <4>1
      <4>3. at' = [at EXCEPT ![p] = n] /\ pc' = [pc EXCEPT ![p] = "stage"]
        BY <3>2, <4>2
      <4>4. QED
        BY <4>3 DEF IInv, TypeOK, PC
    <3>3. QED
      BY <3>1, <3>2
  <2>2. up' \in [Proc -> Nat] /\ job' \in [Proc -> Job]
    BY IdleTypes DEF IInv, TypeOK
  <2>3. QED
    BY <2>1, <2>2 DEF IInv, TypeOK
<1>4. \A q \in Proc \ {p} : pc'[q] = "idle" /\ at'[q] = at[q] /\ up'[q] = up[q]
  BY DEF IInv, TypeOK
<1>5. /\ up'[p] = r
      /\ \/ pc'[p] = "finish" /\ at[p] = cmd[p].until /\ at'[p] = at[p]
         \/ pc'[p] = "stage" /\ at[p] # cmd[p].until /\ at'[p] = at[p] + 1
  BY DEF IInv, TypeOK
<1>6. \A q \in Proc : pc'[q] \in {"idle", "finish", "stage"}
  BY <1>4, <1>5
<1>7. LockIsHeld'
  BY <1>4 DEF LockIsHeld
<1>8. Position'
  <2>1. cmd[p].mode = "direct" => at[p] = cmd[p].until
    BY DEF IInv, Position, AtStage, Guarded
  <2>2. QED
    BY <1>1, <1>2, <1>4, <1>5, <2>1 DEF IInv, Position, AtStage, Guarded
<1>9. \A s \in Stage : status[s].state # "running"
  BY DEF IInv, RunningIsMine, InFlight
<1>10. \A t \in Stage : t <= at[p] => status[t].state = "succeeded"
  BY <1>1 DEF IInv, PrefixIsCommitted, AtStage, Guarded, Stage
<1>11. at[p] # Resolve => Linked(at[p], cmd[p].build)
  BY DEF IInv, PrefixIsCommitted, AtStage, Guarded, Linked, Prepared
<1>12. \A t \in Stage \ {Resolve} :
          t <= at[p] /\ (cmd[p].mode = "full" \/ t = at[p]) => Linked(t, cmd[p].build)
  BY <1>1, <1>11 DEF IInv, PrefixIsCommitted, AtStage, Guarded, Stage
<1>13. PrefixIsFinished'
  BY <1>1, <1>4, <1>5, <1>10, <1>12 DEF PrefixIsFinished, Linked
<1>14. PrefixIsCommitted'
  <2> SUFFICES ASSUME pc'[p] = "stage" PROVE PrefixIsCommitted'
    BY <1>4, <1>6 DEF PrefixIsCommitted, AtStage, Guarded
  <2>1. at'[p] = at[p] + 1 /\ at'[p] # Resolve /\ at'[p] - 1 = at[p]
    BY <1>1, <1>5 DEF Stage, Resolve
  <2>2. \A t \in Stage : t < at'[p] => t <= at[p]
    BY <1>1, <2>1 DEF Stage
  <2>3. up'[p] = status'[at'[p] - 1].result
    BY <1>5, <2>1
  <2>4. QED
    BY <1>4, <1>10, <1>12, <2>1, <2>2, <2>3 DEF PrefixIsCommitted, AtStage, Guarded, Linked
<1>15. QED
  BY <1>3, <1>6, <1>7, <1>8, <1>9, <1>13, <1>14
  DEF IInv, AtMostOneRunning, RunningIsMine, OwnsItsStage, WritesInOrder,
      CommittedIntegrity, ResolveComesFirst, InFlight, Guarded

-----------------------------------------------------------------------------
(* Steps that write a file.                                                *)

LEMMA ReconcileStageInv ==
    ASSUME IInv, NEW p \in Proc, NEW s \in Stage, ReconcileStage(p, s)
    PROVE  IInv'
<1> USE OthersAreIdle DEF ReconcileStage, local
<1>2. TypeOK'
  BY DEF IInv, TypeOK, Status, StageState, NoResult
<1>3. \A t \in Stage \ {s} : status'[t] = status[t]
  BY DEF IInv, TypeOK
<1>4. status'[s].state = "interrupted" /\ status'[s].attempt = status[s].attempt
  BY DEF IInv, TypeOK
<1>5. \A q \in Proc : pc[q] \in {"idle", "reconcile"}
  OBVIOUS
<1>6. AtMostOneRunning' /\ CommittedIntegrity'
  BY <1>3, <1>4 DEF IInv, AtMostOneRunning, CommittedIntegrity
<1>7. ResolveComesFirst'
  BY <1>3, <1>4, <1>5 DEF IInv, ResolveComesFirst, Guarded
<1>8. QED
  BY <1>2, <1>5, <1>6, <1>7
  DEF IInv, LockIsHeld, Position, RunningIsMine, OwnsItsStage, WritesInOrder,
      PrefixIsCommitted, PrefixIsFinished, InFlight, Guarded, AtStage

\* The record a process in flight finds in status.json.
LEMMA OwnsRunning ==
    ASSUME IInv, NEW p \in Proc, pc[p] \in InFlight
    PROVE  /\ status[at[p]].state = "running"
           /\ status[at[p]].input = job[p].input
           /\ status[at[p]].attempt = job[p].attempt
<1>1. status[at[p]] = [state |-> "running", attempt |-> job[p].attempt,
                       input |-> job[p].input, result |-> NoResult]
  BY DEF IInv, OwnsItsStage
<1>2. QED
  BY <1>1

LEMMA WriteRunningInv ==
    ASSUME IInv, NEW p \in Proc, WriteRunning(p)
    PROVE  IInv'
<1> USE OthersAreIdle DEF WriteRunning
<1> DEFINE new == [state |-> "running", attempt |-> job[p].attempt,
                   input |-> job[p].input, result |-> NoResult]
<1>1. /\ new \in Status /\ new.state = "running" /\ new.attempt = job[p].attempt
      /\ job[p].attempt > 0 /\ at[p] \in Stage
  BY DEF IInv, TypeOK, Job, Status, StageState, NoResult, WritesInOrder, Guarded
<1>2. status' = [status EXCEPT ![at[p]] = new]
  OBVIOUS
<1>3. OwnsItsStage'
  BY DEF IInv, TypeOK, OwnsItsStage, InFlight
<1> HIDE DEF new
<1>4. TypeOK'
  BY <1>1, <1>2 DEF IInv, TypeOK, PC
<1>5. status'[at[p]] = new /\ \A t \in Stage \ {at[p]} : status'[t] = status[t]
  BY <1>1, <1>2 DEF IInv, TypeOK
<1>6. pc'[p] = "running" /\ \A q \in Proc \ {p} : pc'[q] = "idle"
  BY DEF IInv, TypeOK
<1>7. \A s \in Stage : status[s].state # "running"
  BY DEF IInv, RunningIsMine, InFlight
<1>8. LockIsHeld' /\ Position'
  BY <1>6 DEF IInv, LockIsHeld, Position, AtStage, Guarded
<1>9. AtMostOneRunning' /\ RunningIsMine'
  BY <1>5, <1>6, <1>7 DEF AtMostOneRunning, RunningIsMine, InFlight
<1>10. CommittedIntegrity'
  BY <1>1, <1>5 DEF IInv, CommittedIntegrity
<1>11. WritesInOrder'
  BY <1>6 DEF IInv, WritesInOrder, Guarded, Prepared
<1>12. PrefixIsCommitted' /\ PrefixIsFinished'
  <2>1. \A t \in Stage : t < at[p] => t # at[p] /\ status'[t] = status[t]
    BY <1>1, <1>5 DEF Stage
  <2>2. \A t \in Stage \ {Resolve} : t <= at[p] => status'[t - 1] = status[t - 1]
    BY <1>1, <2>1 DEF Stage, Resolve
  <2>3. \A t \in Stage \ {Resolve} :
           t < at[p] => (Linked(t, cmd[p].build) <=> Linked(t, cmd[p].build)')
    BY <1>1, <2>1, <2>2 DEF Linked, Stage
  <2>4. at[p] # Resolve => status'[at[p] - 1] = status[at[p] - 1]
    BY <1>1, <2>2 DEF Stage
  <2>5. QED
    BY <1>1, <1>6, <2>1, <2>3, <2>4
    DEF IInv, PrefixIsCommitted, PrefixIsFinished, AtStage, Guarded
<1>13. ResolveComesFirst'
  <2>1. at[p] # Resolve => status[Resolve].state = "succeeded"
    BY <1>1 DEF IInv, PrefixIsCommitted, AtStage, Guarded, Stage, Resolve
  <2>2. at[p] = Resolve => \A s \in Stage \ {Resolve} : status[s].attempt = 0
    BY DEF IInv, ResolveComesFirst, Guarded
  <2>3. QED
    BY <1>1, <1>5, <1>6, <2>1, <2>2, IdleTypes DEF IInv, ResolveComesFirst, Guarded
<1>14. QED
  BY <1>3, <1>4, <1>8, <1>9, <1>10, <1>11, <1>12, <1>13 DEF IInv

LEMMA WriteInputInv ==
    ASSUME IInv, NEW p \in Proc, WriteInput(p)
    PROVE  IInv'
<1> USE OthersAreIdle DEF WriteInput
<1>1. TypeOK'
  BY DEF IInv, TypeOK, PC, Job
<1>2. pc'[p] = "execute" /\ \A q \in Proc \ {p} : pc'[q] = "idle"
  BY DEF IInv, TypeOK
<1>3. /\ inputFile'[at[p]] = job[p].input
      /\ \A t \in Stage \ {at[p]} : inputFile'[t] = inputFile[t]
  BY DEF IInv, TypeOK
<1>4. status[at[p]].state = "running"
  BY OwnsRunning DEF InFlight
<1>5. LockIsHeld' /\ Position' /\ RunningIsMine' /\ OwnsItsStage'
  BY <1>2 DEF IInv, LockIsHeld, Position, RunningIsMine, OwnsItsStage,
              AtStage, Guarded, InFlight
<1>6. WritesInOrder'
  BY <1>2, <1>3 DEF IInv, WritesInOrder, Guarded, Prepared
<1>7. CommittedIntegrity'
  BY <1>3, <1>4 DEF IInv, CommittedIntegrity
<1>8. PrefixIsCommitted' /\ PrefixIsFinished' /\ ResolveComesFirst'
  BY <1>2 DEF IInv, PrefixIsCommitted, PrefixIsFinished, ResolveComesFirst,
              AtStage, Guarded, Linked
<1>9. QED
  BY <1>1, <1>5, <1>6, <1>7, <1>8 DEF IInv, AtMostOneRunning

\* The ledger only grows, and the result that is stored was computed from the
\* input of the attempt.
LEMMA Ledger ==
    ASSUME IInv, NEW p \in Proc, ExecuteStage(p)
    PROVE  /\ made' \in Seq(Input)
           /\ \A r \in DOMAIN made : r \in DOMAIN made' /\ made'[r] = made[r]
           /\ \E r \in DOMAIN made' : made'[r] = job[p].input /\ StoreResult(p, r)
<1>1. made \in Seq(Input) /\ job[p].input = Prepared(p) /\ job[p] \in Job
  BY DEF IInv, TypeOK, WritesInOrder, Guarded, ExecuteStage
<1>2. job[p].input \in Input
  BY <1>1 DEF IInv, TypeOK, Command, Prepared, Input
<1>3. CASE made' = Append(made, job[p].input) /\ StoreResult(p, Len(made) + 1)
  BY <1>1, <1>2, <1>3
<1>4. CASE \E r \in DOMAIN made : /\ made[r] = job[p].input
                                  /\ UNCHANGED made /\ StoreResult(p, r)
  BY <1>1, <1>4
<1>5. QED
  BY <1>3, <1>4 DEF ExecuteStage

LEMMA ExecuteStageInv ==
    ASSUME IInv, NEW p \in Proc, ExecuteStage(p)
    PROVE  IInv'
<1>1. PICK r \in DOMAIN made' : made'[r] = job[p].input /\ StoreResult(p, r)
  BY Ledger
<1>2. pc[p] = "execute" /\ pc[p] # "idle"
  BY DEF ExecuteStage
<1> USE <1>2, OthersAreIdle
<1>3. r \in Nat
  BY <1>1, Ledger
<1>4. /\ pc'[p] = "written"
      /\ job'[p] = [input |-> job[p].input, attempt |-> job[p].attempt, result |-> r]
      /\ resultFile'[at[p]] = r
      /\ \A t \in Stage \ {at[p]} : resultFile'[t] = resultFile[t]
      /\ UNCHANGED <<status, inputFile, lock, cmd, at, up>>
  BY <1>1 DEF IInv, TypeOK, StoreResult
<1>5. job'[p].input = job[p].input /\ job'[p].attempt = job[p].attempt /\ job'[p].result = r
  BY <1>4
<1>6. \A q \in Proc \ {p} : pc'[q] = "idle"
  BY <1>1 DEF IInv, TypeOK, StoreResult
<1>7. TypeOK'
  <2>1. [input |-> job[p].input, attempt |-> job[p].attempt, result |-> r] \in Job
    BY <1>3 DEF IInv, TypeOK, Job
  <2>2. pc' \in [Proc -> PC] /\ job' \in [Proc -> Job]
    BY <1>1, <2>1 DEF IInv, TypeOK, StoreResult, PC
  <2>3. resultFile' \in [Stage -> Nat] /\ damaged' \subseteq Stage \X File
    BY <1>1, <1>3 DEF IInv, TypeOK, StoreResult
  <2>4. QED
    BY <1>4, <2>2, <2>3, Ledger DEF IInv, TypeOK
<1>8. status[at[p]].state = "running"
  BY OwnsRunning DEF InFlight
<1>9. LockIsHeld' /\ Position' /\ RunningIsMine' /\ OwnsItsStage'
  BY <1>4, <1>5, <1>6 DEF IInv, LockIsHeld, Position, RunningIsMine, OwnsItsStage,
                          AtStage, Guarded, InFlight
<1>10. WritesInOrder'
  <2>1. Prepared(p)' = Prepared(p)
    BY <1>4 DEF Prepared
  <2>2. inputFile'[at[p]] = job[p].input /\ job[p].input = Prepared(p) /\ job[p].attempt > 0
    BY <1>4 DEF IInv, WritesInOrder, Guarded
  <2>3. QED
    BY <1>1, <1>4, <1>5, <1>6, <2>1, <2>2 DEF WritesInOrder, Guarded
<1>11. CommittedIntegrity'
  BY <1>4, <1>8, Ledger DEF IInv, CommittedIntegrity
<1>12. PrefixIsCommitted' /\ PrefixIsFinished' /\ ResolveComesFirst'
  BY <1>4, <1>6 DEF IInv, PrefixIsCommitted, PrefixIsFinished, ResolveComesFirst,
                    AtStage, Guarded, Linked
<1>13. QED
  BY <1>4, <1>7, <1>9, <1>10, <1>11, <1>12 DEF IInv, AtMostOneRunning

LEMMA WriteSucceededInv ==
    ASSUME IInv, NEW p \in Proc, WriteSucceeded(p)
    PROVE  IInv'
<1> USE OthersAreIdle DEF WriteSucceeded
<1> DEFINE new == [state |-> "succeeded", attempt |-> job[p].attempt,
                   input |-> job[p].input, result |-> job[p].result]
<1>1. /\ new \in Status /\ new.state = "succeeded" /\ new.attempt = job[p].attempt
      /\ new.input = job[p].input /\ new.result = job[p].result
      /\ job[p].attempt > 0 /\ at[p] \in Stage
  BY DEF IInv, TypeOK, Job, Status, StageState, WritesInOrder, Guarded
<1>2. status' = [status EXCEPT ![at[p]] = new]
  OBVIOUS
<1>3. pc'[p] = "committing" /\ \A q \in Proc \ {p} : pc'[q] = "idle"
  BY DEF IInv, TypeOK
<1>4. status'[at[p]] = new /\ \A t \in Stage \ {at[p]} : status'[t] = status[t]
  BY <1>1, <1>2 DEF IInv, TypeOK
<1>5. WritesInOrder'
  BY <1>3, <1>4 DEF IInv, WritesInOrder, Guarded, Prepared
<1> HIDE DEF new
<1>6. TypeOK'
  BY <1>1, <1>2 DEF IInv, TypeOK, PC
<1>7. \A s \in Stage : status'[s].state # "running"
  BY <1>1, <1>4 DEF IInv, RunningIsMine
<1>8. LockIsHeld' /\ Position' /\ AtMostOneRunning' /\ RunningIsMine' /\ OwnsItsStage'
  BY <1>3, <1>7 DEF IInv, LockIsHeld, Position, AtMostOneRunning, RunningIsMine,
                    OwnsItsStage, AtStage, Guarded, InFlight
<1>9. CommittedIntegrity'
  <2>1. /\ inputFile[at[p]] = job[p].input /\ resultFile[at[p]] = job[p].result
        /\ job[p].result \in DOMAIN made /\ made[job[p].result] = job[p].input
    BY DEF IInv, WritesInOrder
  <2>2. \A t \in Stage \ {at[p]} : status'[t].state = "succeeded" =>
           /\ inputFile[t] = status'[t].input /\ resultFile[t] = status'[t].result
           /\ status'[t].result \in DOMAIN made /\ made[status'[t].result] = status'[t].input
    BY <1>4 DEF IInv, CommittedIntegrity
  <2>3. QED
    BY <1>1, <1>4, <2>1, <2>2 DEF CommittedIntegrity
<1>10. PrefixIsCommitted' /\ PrefixIsFinished'
  <2>1. \A t \in Stage : t < at[p] => t # at[p] /\ status'[t] = status[t]
    BY <1>1, <1>4 DEF Stage
  <2>2. \A t \in Stage \ {Resolve} : t <= at[p] => status'[t - 1] = status[t - 1]
    BY <1>1, <2>1 DEF Stage, Resolve
  <2>3. \A t \in Stage \ {Resolve} :
           t < at[p] => (Linked(t, cmd[p].build) <=> Linked(t, cmd[p].build)')
    BY <1>1, <2>1, <2>2 DEF Linked, Stage
  <2>4. at[p] # Resolve => status'[at[p] - 1] = status[at[p] - 1]
    BY <1>1, <2>2 DEF Stage
  <2>5. QED
    BY <1>1, <1>3, <2>1, <2>3, <2>4
    DEF IInv, PrefixIsCommitted, PrefixIsFinished, AtStage, Guarded
<1>11. ResolveComesFirst'
  <2>1. at[p] # Resolve => status[Resolve].state = "succeeded"
    BY <1>1 DEF IInv, PrefixIsCommitted, AtStage, Guarded, Stage, Resolve
  <2>2. at[p] = Resolve => \A s \in Stage \ {Resolve} : status[s].attempt = 0
    BY DEF IInv, ResolveComesFirst, Guarded
  <2>3. QED
    BY <1>1, <1>3, <1>4, <2>1, <2>2, IdleTypes DEF IInv, ResolveComesFirst, Guarded
<1>12. QED
  BY <1>5, <1>6, <1>8, <1>9, <1>10, <1>11 DEF IInv

LEMMA AbortInv ==
    ASSUME IInv, NEW p \in Proc, NEW state \in {"failed", "interrupted"},
           Abort(p, state)
    PROVE  IInv'
<1>1. pc[p] \in Guarded /\ pc[p] # "idle"
  BY DEF Abort, Guarded
<1> USE <1>1, OthersAreIdle DEF Abort, Release
<1> DEFINE new == [state |-> state, attempt |-> job[p].attempt,
                   input |-> job[p].input, result |-> NoResult]
<1>2. /\ new \in Status /\ new.state \notin {"running", "succeeded"}
      /\ new.attempt = job[p].attempt
      /\ job[p].attempt > 0 /\ at[p] \in Stage
  BY DEF IInv, TypeOK, Job, Status, StageState, NoResult, WritesInOrder
<1>3. status' = [status EXCEPT ![at[p]] = new]
  OBVIOUS
<1> HIDE DEF new
<1>4. status'[at[p]] = new /\ \A t \in Stage \ {at[p]} : status'[t] = status[t]
  BY <1>2, <1>3 DEF IInv, TypeOK
<1>5. TypeOK'
  BY <1>2, <1>3, IdleTypes DEF IInv, TypeOK, PC, NoResult
<1>6. \A q \in Proc : pc'[q] = "idle"
  BY DEF IInv, TypeOK
<1>7. \A q \in Proc : /\ cmd'[q].mode = "direct" => cmd'[q].until # Resolve
                      /\ at'[q] = Resolve /\ up'[q] = NoResult
  BY DEF NoCommand, IInv, TypeOK, Position
<1>8. AtMostOneRunning'
  BY <1>2, <1>4 DEF IInv, AtMostOneRunning
<1>9. CommittedIntegrity'
  BY <1>2, <1>4 DEF IInv, CommittedIntegrity
<1>10. ResolveComesFirst'
  <2>1. at[p] # Resolve => status[Resolve].state = "succeeded"
    BY <1>2 DEF IInv, PrefixIsCommitted, AtStage, Stage, Resolve
  <2>2. at[p] = Resolve => \A s \in Stage \ {Resolve} : status[s].attempt = 0
    BY DEF IInv, ResolveComesFirst
  <2>3. QED
    BY <1>2, <1>4, <1>6, <2>1, <2>2, IdleTypes DEF IInv, ResolveComesFirst, Guarded
<1>11. QED
  BY <1>5, <1>6, <1>7, <1>8, <1>9, <1>10
  DEF IInv, LockIsHeld, Position, RunningIsMine, OwnsItsStage,
      WritesInOrder, PrefixIsCommitted, PrefixIsFinished, InFlight, Guarded, AtStage

LEMMA DamageInv ==
    ASSUME IInv, NEW s \in Stage, NEW f \in File, Damage(s, f)
    PROVE  IInv'
<1> USE DEF Damage, local
<1>1. TypeOK'
  BY DEF IInv, TypeOK
<1>2. QED
  BY <1>1
  DEF IInv, LockIsHeld, Position, AtMostOneRunning, RunningIsMine, OwnsItsStage,
      WritesInOrder, CommittedIntegrity, PrefixIsCommitted, PrefixIsFinished,
      ResolveComesFirst, InFlight, Guarded, AtStage, Linked, Prepared

-----------------------------------------------------------------------------
(* The invariant is inductive.                                             *)

LEMMA StutterInv == ASSUME IInv, UNCHANGED vars PROVE IInv'
BY DEF vars, disk, local, IInv, TypeOK, LockIsHeld, Position, AtMostOneRunning,
       RunningIsMine, OwnsItsStage, WritesInOrder, CommittedIntegrity,
       PrefixIsCommitted, PrefixIsFinished, ResolveComesFirst, InFlight,
       Guarded, AtStage, Linked, Prepared

\* The stages a command passes without executing them are committed.
LEMMA PassInv ==
    ASSUME IInv, NEW p \in Proc,
           UsePinnedResolve(p) \/ ReuseStage(p) \/ Commit(p)
    PROVE  IInv'
<1>0. at[p] \in Stage /\ status[at[p]].result \in Nat
  BY DEF IInv, TypeOK, Status
<1>1. CASE UsePinnedResolve(p)
  BY <1>0, <1>1, AdvanceInv DEF UsePinnedResolve, Pinned
<1>2. CASE ReuseStage(p)
  BY <1>0, <1>2, AdvanceInv DEF ReuseStage, Reusable, Intact
<1>3. CASE Commit(p)
  <2> USE <1>3 DEF Commit
  <2>1. /\ status[at[p]].state = "succeeded" /\ status[at[p]].input = Prepared(p)
        /\ status[at[p]].result = job[p].result
    <3>1. status[at[p]] = [state |-> "succeeded", attempt |-> job[p].attempt,
                           input |-> job[p].input, result |-> job[p].result]
      BY DEF IInv, WritesInOrder
    <3>2. job[p].input = Prepared(p)
      BY DEF IInv, WritesInOrder, Guarded
    <3>3. QED
      BY <3>1, <3>2
  <2>2. QED
    BY <1>0, <2>1, AdvanceInv
<1>4. QED
  BY <1>1, <1>2, <1>3

\* Every way to give up the lock without touching the files.
LEMMA LeaveInv ==
    ASSUME IInv, NEW p \in Proc,
           \/ RejectPredecessor(p) \/ RejectPinnedResolve(p)
           \/ Finish(p) \/ Crash(p)
    PROVE  IInv'
<1>1. Release(p) /\ UNCHANGED <<disk, made>> /\ pc[p] # "idle"
  BY DEF RejectPredecessor, RejectPinnedResolve, Finish, Crash
<1>2. QED
  BY <1>1, ReleaseInv

LEMMA NextInv == IInv /\ [Next]_vars => IInv'
<1> SUFFICES ASSUME IInv, [Next]_vars PROVE IInv'
  OBVIOUS
<1>1. ASSUME NEW p \in Proc, Request(p) PROVE IInv'
  BY <1>1, BeginInv DEF Request
<1>2. ASSUME NEW p \in Proc, Step(p) PROVE IInv'
  <2>1. CASE \E s \in Stage : ReconcileStage(p, s)
    BY <2>1, ReconcileStageInv
  <2>2. CASE Reconciled(p) \/ LoadPredecessor(p) \/ StartStage(p)
    BY <2>2, ReconciledInv, LoadPredecessorInv, StartStageInv
  <2>3. CASE UsePinnedResolve(p) \/ ReuseStage(p) \/ Commit(p)
    BY <2>3, PassInv
  <2>4. CASE WriteRunning(p) \/ WriteInput(p) \/ ExecuteStage(p) \/ WriteSucceeded(p)
    BY <2>4, WriteRunningInv, WriteInputInv, ExecuteStageInv, WriteSucceededInv
  <2>5. CASE RejectPredecessor(p) \/ RejectPinnedResolve(p) \/ Finish(p)
    BY <2>5, LeaveInv
  <2>6. QED
    BY <1>2, <2>1, <2>2, <2>3, <2>4, <2>5 DEF Step
<1>3. ASSUME NEW p \in Proc, Fault(p) PROVE IInv'
  BY <1>3, LeaveInv, AbortInv DEF Fault
<1>4. ASSUME NEW s \in Damageable, NEW f \in File, Damage(s, f) PROVE IInv'
  BY <1>4, DamageInv, DamageableAssumption
<1>5. CASE UNCHANGED vars
  BY <1>5, StutterInv
<1>6. QED
  BY <1>1, <1>2, <1>3, <1>4, <1>5 DEF Next

-----------------------------------------------------------------------------
(* The theorems.                                                           *)

\* Every reachable state satisfies the inductive invariant.
THEOREM Invariant == Spec => []IInv
<1>1. QED
  BY InitInv, NextInv, PTL DEF Spec

\* The variables keep their types: in particular an attempt is a number, a
\* stage index stays within STAGE_ORDER, and a file holds what some stage wrote.
THEOREM TypeCorrect == Spec => []TypeOK
<1>1. IInv => TypeOK
  BY DEF IInv
<1>2. QED
  BY <1>1, Invariant, PTL

\* However many processes run or resume, die or are killed, a reader of the
\* run sees at most one RUNNING stage.
THEOREM OneRunning == Spec => []AtMostOneRunning
<1>1. IInv => AtMostOneRunning
  BY DEF IInv
<1>2. QED
  BY <1>1, Invariant, PTL

\* The advisory lock alone keeps an attempt's record from being replaced by
\* another process while the attempt is in flight.
THEOREM StageOwnership == Spec => []OwnsItsStage
<1>1. IInv => OwnsItsStage
  BY DEF IInv
<1>2. QED
  BY <1>1, Invariant, PTL

\* The order in which _execute_stage replaces its three files makes SUCCEEDED
\* the commit point: it never stands beside files of another attempt.
THEOREM CommitPoint == Spec => []CommittedIntegrity
<1>1. IInv => CommittedIntegrity
  BY DEF IInv
<1>2. QED
  BY <1>1, Invariant, PTL

LEMMA FinishedIsChained == IInv => FinishedPrefixIsChained
<1> SUFFICES ASSUME IInv, NEW p \in Proc, pc[p] = "finish"
             PROVE  /\ \A s \in 1..cmd[p].until : status[s].state = "succeeded"
                    /\ \A s \in 2..cmd[p].until :
                          cmd[p].mode = "full" \/ s = cmd[p].until
                             => Linked(s, cmd[p].build)
  BY DEF FinishedPrefixIsChained
<1>1. cmd[p].until \in Stage
  BY DEF IInv, TypeOK, Command
<1>2. \A s \in 1..cmd[p].until : s \in Stage /\ s <= cmd[p].until
  BY <1>1 DEF Stage
<1>3. \A s \in 2..cmd[p].until : s \in Stage \ {Resolve} /\ s <= cmd[p].until
  BY <1>1 DEF Stage, Resolve
<1>4. QED
  BY <1>2, <1>3 DEF IInv, PrefixIsFinished

\* A command that ends well leaves a chain of stages that fit each other.
THEOREM ChainedWhenFinished == Spec => []FinishedPrefixIsChained
<1>1. QED
  BY FinishedIsChained, Invariant, PTL

\* Some stage has been computed from the resolve.
IsUsed == \E s \in Stage \ {Resolve} : status[s].attempt > 0

LEMMA ResolveIsKept ==
    IInv /\ [Next]_vars => (IsUsed => status'[Resolve] = status[Resolve])
<1> SUFFICES ASSUME IInv, [Next]_vars, IsUsed
             PROVE  status'[Resolve] = status[Resolve]
  OBVIOUS
<1>1. status[Resolve].state = "succeeded" /\ status \in [Stage -> Status]
  BY DEF IsUsed, IInv, ResolveComesFirst, TypeOK
<1>2. \A p \in Proc : pc[p] \in Guarded => at[p] # Resolve
  BY DEF IsUsed, IInv, ResolveComesFirst
<1>3. ASSUME NEW p \in Proc, NEW s \in Stage, ReconcileStage(p, s)
      PROVE  status'[Resolve] = status[Resolve]
  BY <1>1, <1>3 DEF ReconcileStage
<1>4. ASSUME NEW p \in Proc, WriteRunning(p) \/ WriteSucceeded(p)
      PROVE  status'[Resolve] = status[Resolve]
  <2>1. at[p] # Resolve
    BY <1>2, <1>4 DEF WriteRunning, WriteSucceeded, Guarded
  <2>2. CASE WriteRunning(p)
    BY <1>1, <2>1, <2>2 DEF WriteRunning
  <2>3. CASE WriteSucceeded(p)
    BY <1>1, <2>1, <2>3 DEF WriteSucceeded
  <2>4. QED
    BY <1>4, <2>2, <2>3
<1>5. ASSUME NEW p \in Proc, NEW state \in {"failed", "interrupted"}, Abort(p, state)
      PROVE  status'[Resolve] = status[Resolve]
  BY <1>1, <1>2, <1>5 DEF Abort
<1>6. ASSUME NEW p \in Proc,
             \/ Request(p) \/ Reconciled(p) \/ LoadPredecessor(p)
             \/ RejectPredecessor(p) \/ UsePinnedResolve(p)
             \/ RejectPinnedResolve(p) \/ ReuseStage(p) \/ StartStage(p)
             \/ WriteInput(p) \/ Commit(p) \/ Finish(p) \/ Crash(p)
      PROVE  UNCHANGED status
  BY <1>6 DEF Request, Begin, Reconciled, LoadPredecessor, RejectPredecessor,
              UsePinnedResolve, RejectPinnedResolve, ReuseStage, StartStage,
              WriteInput, Commit, Finish, Crash, disk
<1>7. ASSUME NEW p \in Proc, ExecuteStage(p) PROVE UNCHANGED status
  BY <1>7 DEF ExecuteStage, StoreResult
<1>8. CASE \/ UNCHANGED vars
           \/ \E s \in Damageable, f \in File : Damage(s, f)
  BY <1>8 DEF vars, disk, Damage
<1>9. QED
  BY <1>3, <1>4, <1>5, <1>6, <1>7, <1>8 DEF Next, Step, Fault

\* No command, build, crash or damage replaces the resolve a later stage has
\* been computed from: an attempt at the resolve begins, and ends, before any
\* other stage has been attempted.
THEOREM ResolveStaysPinned == Spec => PinnedResolve
<1>1. QED
  BY ResolveIsKept, Invariant, PTL DEF Spec, PinnedResolve, IsUsed

\* An attempt begins only where there is no usable checkpoint for its input, and
\* until its RUNNING record is written nothing can make one.
StartsWhatIsStale ==
    \A p \in Proc : pc[p] = "start" =>
        ~(Intact(at[p]) /\ status[at[p]].input = job[p].input)

LEMMA StaleInv == IInv /\ StartsWhatIsStale /\ [Next]_vars => StartsWhatIsStale'
<1> SUFFICES ASSUME IInv, StartsWhatIsStale, [Next]_vars,
                    NEW p \in Proc, pc'[p] = "start"
             PROVE  ~(Intact(at[p]) /\ status[at[p]].input = job[p].input)'
  BY DEF StartsWhatIsStale
<1>1. pc \in [Proc -> PC] /\ job \in [Proc -> Job]
  BY DEF IInv, TypeOK
<1>2. CASE StartStage(p)
  <2>1. job'[p].input = Prepared(p) /\ at' = at
    BY <1>1, <1>2 DEF StartStage
  <2>2. QED
    BY <1>2, <2>1 DEF StartStage, Reusable, Intact, disk
<1>3. CASE \/ UNCHANGED vars
           \/ \E s \in Damageable, f \in File : Damage(s, f)
  <2>1. /\ UNCHANGED <<status, inputFile, resultFile, pc, at, job>>
        /\ damaged \subseteq damaged'
    BY <1>3 DEF vars, disk, local, Damage
  <2>2. QED
    BY <2>1 DEF StartsWhatIsStale, Intact
<1>4. ASSUME NEW q \in Proc, Request(q) \/ Step(q) \/ Fault(q), ~StartStage(p)
      PROVE  FALSE
  <2>1. q # p => pc'[p] = pc[p]
    BY <1>1, <1>4
    DEF Request, Begin, Step, Fault, ReconcileStage, Reconciled, LoadPredecessor,
        RejectPredecessor, UsePinnedResolve, RejectPinnedResolve, ReuseStage,
        StartStage, WriteRunning, WriteInput, ExecuteStage, StoreResult,
        WriteSucceeded, Commit, Finish, Crash, Abort, Advance, Release, local
  <2>2. q = p => pc'[p] # "start"
    BY <1>1, <1>4
    DEF Request, Begin, Step, Fault, ReconcileStage, Reconciled, LoadPredecessor,
        RejectPredecessor, UsePinnedResolve, RejectPinnedResolve, ReuseStage,
        WriteRunning, WriteInput, ExecuteStage, StoreResult,
        WriteSucceeded, Commit, Finish, Crash, Abort, Advance, Release, local
  <2>3. pc[p] = "start" /\ q # p
    BY <2>1, <2>2
  <2>4. lock = p /\ pc[q] = "idle" /\ p # NoProc
    BY <2>3, OthersAreIdle
  <2>5. QED
    BY <2>4, <1>4
    DEF Request, Begin, Step, Fault, ReconcileStage, Reconciled, LoadPredecessor,
        RejectPredecessor, UsePinnedResolve, RejectPinnedResolve, ReuseStage,
        StartStage, WriteRunning, WriteInput, ExecuteStage,
        WriteSucceeded, Commit, Finish, Crash, Abort, Guarded
<1>5. QED
  BY <1>2, <1>3, <1>4 DEF Next

\* A stage is not executed over a checkpoint for the same input.
IsNeedful(s) ==
    status[s].state = "succeeded" /\ status'[s].state = "running"
        => ~(Intact(s) /\ status[s].input = status'[s].input)

LEMMA ExecutionIsNeedful ==
    IInv /\ StartsWhatIsStale /\ [Next]_vars => \A s \in Stage : IsNeedful(s)
<1> SUFFICES ASSUME IInv, StartsWhatIsStale, [Next]_vars, NEW s \in Stage,
                    status[s].state = "succeeded", status'[s].state = "running"
             PROVE  ~(Intact(s) /\ status[s].input = status'[s].input)
  BY DEF IsNeedful
<1>1. status \in [Stage -> Status]
  BY DEF IInv, TypeOK
<1>2. ASSUME NEW p \in Proc, WriteRunning(p)
      PROVE  ~(Intact(s) /\ status[s].input = status'[s].input)
  <2>1. s = at[p] /\ status'[s].input = job[p].input
    BY <1>1, <1>2 DEF WriteRunning
  <2>2. QED
    BY <1>2, <2>1 DEF WriteRunning, StartsWhatIsStale
<1>3. ASSUME NEW p \in Proc, NEW t \in Stage, ReconcileStage(p, t) PROVE FALSE
  BY <1>1, <1>3 DEF ReconcileStage
<1>4. ASSUME NEW p \in Proc, WriteSucceeded(p) PROVE FALSE
  BY <1>1, <1>4 DEF WriteSucceeded
<1>5. ASSUME NEW p \in Proc, NEW state \in {"failed", "interrupted"}, Abort(p, state)
      PROVE  FALSE
  BY <1>1, <1>5 DEF Abort
<1>6. ASSUME NEW p \in Proc,
             \/ Request(p) \/ Reconciled(p) \/ LoadPredecessor(p)
             \/ RejectPredecessor(p) \/ UsePinnedResolve(p)
             \/ RejectPinnedResolve(p) \/ ReuseStage(p) \/ StartStage(p)
             \/ WriteInput(p) \/ Commit(p) \/ Finish(p) \/ Crash(p)
      PROVE  UNCHANGED status
  BY <1>6 DEF Request, Begin, Reconciled, LoadPredecessor, RejectPredecessor,
              UsePinnedResolve, RejectPinnedResolve, ReuseStage, StartStage,
              WriteInput, Commit, Finish, Crash, disk
<1>7. ASSUME NEW p \in Proc, ExecuteStage(p) PROVE UNCHANGED status
  BY <1>7 DEF ExecuteStage, StoreResult
<1>8. CASE \/ UNCHANGED vars
           \/ \E t \in Damageable, f \in File : Damage(t, f)
  BY <1>8 DEF vars, disk, Damage
<1>9. QED
  BY <1>2, <1>3, <1>4, <1>5, <1>6, <1>7, <1>8 DEF Next, Step, Fault

LEMMA NothingStarts == Init => StartsWhatIsStale
BY DEF Init, StartsWhatIsStale

\* A checkpoint that passes the reuse checks is never executed over: between
\* the check and the RUNNING record nothing makes the checkpoint usable again.
THEOREM ReusesCheckpoints == Spec => NoNeedlessExecution
<1>1. Spec => []StartsWhatIsStale
  BY NothingStarts, StaleInv, Invariant, PTL DEF Spec
<1>2. QED
  BY <1>1, ExecutionIsNeedful, Invariant, PTL DEF Spec, NoNeedlessExecution, IsNeedful

-----------------------------------------------------------------------------
(* The run implements the pinned chain.  `Committed' changes only when      *)
(* SUCCEEDED is written (a commit) or replaced (a withdrawal).              *)

LEMMA CommittedIs ==
    \A s \in Stage : Committed[s] = IF status[s].state = "succeeded"
                                       THEN status[s].result ELSE NoResult
BY DEF Committed

\* A commit is present exactly where a stage is succeeded.
LEMMA CommittedWhereSucceeded ==
    ASSUME IInv, NEW s \in Stage
    PROVE  /\ Committed[s] # 0 <=> status[s].state = "succeeded"
           /\ status[s].state = "succeeded" => Committed[s] = status[s].result
<1>1. made \in Seq(Input)
  BY DEF IInv, TypeOK
<1>2. status[s].state = "succeeded" => status[s].result # 0
  BY <1>1 DEF IInv, CommittedIntegrity
<1>3. QED
  BY <1>2, CommittedIs DEF NoResult

\* Writing at stage k anything but SUCCEEDED withdraws its commit, if any.
LEMMA WithdrawStep ==
    ASSUME IInv, NEW k \in Stage, UNCHANGED made,
           \A s \in Stage \ {k} : status'[s] = status[s],
           status'[k].state # "succeeded",
           k = Resolve => \A s \in Stage \ {Resolve} : status[s].attempt = 0
    PROVE  [Chain!Next]_(Chain!vars)
<1>1. CASE status[k].state # "succeeded"
  <2>1. \A s \in Stage : (IF status'[s].state = "succeeded" THEN status'[s].result
                                                            ELSE NoResult)
                       = (IF status[s].state = "succeeded" THEN status[s].result
                                                           ELSE NoResult)
    BY <1>1
  <2>2. Committed' = Committed
    BY <2>1 DEF Committed
  <2>3. QED
    BY <2>2 DEF Chain!vars
<1>2. CASE status[k].state = "succeeded"
  <2>1. Committed[k] # 0
    BY <1>2, CommittedWhereSucceeded
  <2>2. k = 1 => \A t \in Stage \ {1} : Committed[t] = 0
    <3>1. \A s \in Stage : status[s].state = "succeeded" => status[s].attempt > 0
      BY DEF IInv, ResolveComesFirst
    <3>2. QED
      BY <3>1, CommittedIs DEF Resolve, NoResult
  <2>3. Committed' = [Committed EXCEPT ![k] = 0]
    BY DEF Committed, NoResult
  <2>4. Chain!Withdraw(k)
    BY <2>1, <2>2, <2>3 DEF Chain!Withdraw, Chain!Stage, Stage
  <2>5. QED
    BY <2>4 DEF Chain!Next, Chain!Stage, Stage
<1>3. QED
  BY <1>1, <1>2

\* SUCCEEDED commits a result that fits what the predecessor has committed.
LEMMA CommitStep ==
    ASSUME IInv, NEW p \in Proc, WriteSucceeded(p)
    PROVE  Chain!Next
<1> DEFINE k == at[p]
           r == job[p].result
<1>1. k \in Stage /\ made \in Seq(Input) /\ status \in [Stage -> Status]
  BY DEF IInv, TypeOK
<1>2. status[k].state = "running"
  BY OwnsRunning DEF WriteSucceeded, InFlight
<1>3. /\ r \in DOMAIN made /\ made[r] = job[p].input /\ job[p].input = Prepared(p)
      /\ up[p] = IF k = Resolve THEN NoResult ELSE status[k - 1].result
      /\ k # Resolve => status[k - 1].state = "succeeded" /\ k - 1 \in Stage
  <2>1. /\ r \in DOMAIN made /\ made[r] = job[p].input /\ job[p].input = Prepared(p)
    BY DEF IInv, WriteSucceeded, WritesInOrder, Guarded
  <2>2. /\ up[p] = IF k = Resolve THEN NoResult ELSE status[k - 1].result
        /\ \A t \in Stage : t < k => status[t].state = "succeeded"
    BY DEF IInv, WriteSucceeded, PrefixIsCommitted, AtStage, Guarded
  <2>3. k # Resolve => k - 1 \in Stage /\ k - 1 < k
    BY <1>1 DEF Stage, Resolve
  <2>4. QED
    BY <2>1, <2>2, <2>3
<1>4. made[r].stage = k /\ made[r].upstream = up[p]
  BY <1>3 DEF Prepared
<1>5. k # Resolve => Committed[k - 1] # 0 /\ Committed[k - 1] = up[p]
  BY <1>3, CommittedWhereSucceeded
<1>6. Chain!Fits(r, k)
  BY <1>1, <1>3, <1>4, <1>5 DEF Chain!Fits, Resolve, NoResult, Stage
<1>7. Committed' = [Committed EXCEPT ![k] = r]
  <2>1. status'[k].state = "succeeded" /\ status'[k].result = r
    BY <1>1 DEF WriteSucceeded
  <2>2. \A s \in Stage \ {k} : status'[s] = status[s]
    BY <1>1 DEF WriteSucceeded
  <2>3. QED
    BY <1>1, <2>1, <2>2 DEF Committed
<1>8. Committed[k] = 0 /\ UNCHANGED made
  BY <1>1, <1>2, CommittedWhereSucceeded DEF WriteSucceeded
<1>9. Chain!CommitStage(k, r)
  BY <1>6, <1>7, <1>8 DEF Chain!CommitStage
<1>10. QED
  BY <1>1, <1>3, <1>9 DEF Chain!Next, Chain!Stage, Stage

\* An execution adds a result to the ledger or repeats one.
LEMMA ProduceStep ==
    ASSUME IInv, NEW p \in Proc, ExecuteStage(p)
    PROVE  [Chain!Next]_(Chain!vars)
<1>1. made \in Seq(Input) /\ at[p] \in Stage /\ cmd[p].build \in [Stage -> Version]
  BY DEF IInv, TypeOK, Command
<1>2. UNCHANGED status
  BY DEF ExecuteStage, StoreResult
<1>3. Committed' = Committed
  BY <1>2 DEF Committed
<1>4. job[p].input = Prepared(p)
  BY DEF IInv, WritesInOrder, ExecuteStage, Guarded
<1>5. up[p] \in 0..Len(made)
  <2>1. CASE at[p] = Resolve
    <3>1. up[p] = 0
      BY <2>1 DEF IInv, PrefixIsCommitted, AtStage, Guarded, ExecuteStage, NoResult
    <3>2. QED
      BY <1>1, <3>1
  <2>2. CASE at[p] # Resolve
    <3>1. /\ at[p] - 1 \in Stage /\ status[at[p] - 1].state = "succeeded"
          /\ up[p] = status[at[p] - 1].result
      BY <1>1, <2>2 DEF IInv, PrefixIsCommitted, AtStage, Guarded, ExecuteStage,
                        Stage, Resolve
    <3>2. up[p] \in DOMAIN made
      BY <3>1 DEF IInv, CommittedIntegrity
    <3>3. QED
      BY <1>1, <3>2
  <2>3. QED
    BY <2>1, <2>2
<1>6. job[p].input \in Chain!Input
  BY <1>1, <1>4, <1>5 DEF Prepared, Chain!Input, Chain!Stage, Stage
<1>7. CASE made' = Append(made, job[p].input)
  <2>1. Chain!Produce(job[p].input)
    BY <1>3, <1>7 DEF Chain!Produce
  <2>2. QED
    BY <1>6, <2>1 DEF Chain!Next
<1>8. CASE UNCHANGED made
  BY <1>3, <1>8 DEF Chain!vars
<1>9. QED
  BY <1>7, <1>8 DEF ExecuteStage

LEMMA ChainStep == IInv /\ [Next]_vars => [Chain!Next]_(Chain!vars)
<1> SUFFICES ASSUME IInv, [Next]_vars PROVE [Chain!Next]_(Chain!vars)
  OBVIOUS
<1>1. status \in [Stage -> Status] /\ \A p \in Proc : at[p] \in Stage
  BY DEF IInv, TypeOK
<1>2. ASSUME NEW p \in Proc, NEW s \in Stage, ReconcileStage(p, s)
      PROVE  [Chain!Next]_(Chain!vars)
  <2>1. /\ status'[s].state = "interrupted" /\ UNCHANGED made
        /\ \A t \in Stage \ {s} : status'[t] = status[t]
    BY <1>1, <1>2 DEF ReconcileStage
  <2>2. status[s].state = "running"
    BY <1>2 DEF ReconcileStage
  <2>3. s = Resolve => \A t \in Stage \ {Resolve} : status[t].attempt = 0
    <3>1. \A t \in Stage : status[t].attempt \in Nat
      BY <1>1 DEF Status
    <3>2. s = Resolve => \A t \in Stage \ {Resolve} : ~(status[t].attempt > 0)
      BY <2>2 DEF IInv, ResolveComesFirst
    <3>3. QED
      BY <3>1, <3>2
  <2>4. QED
    BY <2>1, <2>3, WithdrawStep
<1>3. ASSUME NEW p \in Proc, WriteRunning(p) PROVE [Chain!Next]_(Chain!vars)
  <2>1. /\ status'[at[p]].state = "running" /\ UNCHANGED made
        /\ \A t \in Stage \ {at[p]} : status'[t] = status[t]
    BY <1>1, <1>3 DEF WriteRunning
  <2>2. at[p] = Resolve => \A t \in Stage \ {Resolve} : status[t].attempt = 0
    BY <1>3 DEF IInv, ResolveComesFirst, WriteRunning, Guarded
  <2>3. QED
    BY <1>1, <2>1, <2>2, WithdrawStep
<1>4. ASSUME NEW p \in Proc, NEW state \in {"failed", "interrupted"}, Abort(p, state)
      PROVE  [Chain!Next]_(Chain!vars)
  <2>1. /\ status'[at[p]].state = state /\ UNCHANGED made
        /\ \A t \in Stage \ {at[p]} : status'[t] = status[t]
    BY <1>1, <1>4 DEF Abort
  <2>2. at[p] = Resolve => \A t \in Stage \ {Resolve} : status[t].attempt = 0
    BY <1>4 DEF IInv, ResolveComesFirst, Abort
  <2>3. QED
    BY <1>1, <2>1, <2>2, WithdrawStep
<1>5. ASSUME NEW p \in Proc,
             \/ Request(p) \/ Reconciled(p) \/ LoadPredecessor(p)
             \/ RejectPredecessor(p) \/ UsePinnedResolve(p)
             \/ RejectPinnedResolve(p) \/ ReuseStage(p) \/ StartStage(p)
             \/ WriteInput(p) \/ Commit(p) \/ Finish(p) \/ Crash(p)
      PROVE  [Chain!Next]_(Chain!vars)
  <2>1. UNCHANGED <<status, made>>
    BY <1>5 DEF Request, Begin, Reconciled, LoadPredecessor, RejectPredecessor,
                UsePinnedResolve, RejectPinnedResolve, ReuseStage, StartStage,
                WriteInput, Commit, Finish, Crash, disk
  <2>2. QED
    BY <2>1 DEF Committed, Chain!vars
<1>6. CASE \/ UNCHANGED vars
           \/ \E t \in Damageable, f \in File : Damage(t, f)
  <2>1. UNCHANGED <<status, made>>
    BY <1>6 DEF vars, disk, Damage
  <2>2. QED
    BY <2>1 DEF Committed, Chain!vars
<1>7. QED
  BY <1>2, <1>3, <1>4, <1>5, <1>6, CommitStep, ProduceStep DEF Next, Step, Fault

\* The files, the processes and the lock implement the chain of commits that a
\* run promises to its readers, and the ledger it keeps.
THEOREM Refinement == Spec => ImplementsPinnedChain
<1>1. Init => Chain!Init
  BY DEF Init, Chain!Init, Committed, NoResult, Chain!Stage, Stage
<1>2. QED
  BY <1>1, ChainStep, Invariant, PTL DEF Spec, ImplementsPinnedChain, Chain!Spec

-----------------------------------------------------------------------------
(* What `status' may say beside the commands, for any number of readers.   *)


\* What the commands' files and steps are about; the rest of the disk and the
\* ledger do not matter to a reader.
Commands == CommandsHaveShape /\ CommandsKeepOrder

\* A process other than the holder of the lock is idle.
LEMMA OthersIdle == ASSUME Commands, NEW p \in Proc, pc[p] # "idle"
                    PROVE lock = p /\ \A q \in Proc \ {p} : pc[q] = "idle"
BY DEF Commands, CommandsKeepOrder

\* A command goes on, or ends, without a change of status.json or result.json.
LEMMA Onward ==
    ASSUME Commands, NEW p \in Proc, pc[p] # "idle",
           UNCHANGED <<status, resultFile>>,
           pc' = [q \in Proc |-> pc'[q]], job' = [q \in Proc |-> job'[q]],
           at' \in [Proc -> Nat], cmd' \in [Proc -> Command],
           \A q \in Proc \ {p} : pc'[q] = pc[q],
           pc'[p] = "idle" \/ lock' = lock,
           pc'[p] \in InFlight => pc[p] \in InFlight /\ at'[p] = at[p],
           pc'[p] # "written"
    PROVE  Commands'
<1>1. lock = p /\ \A q \in Proc \ {p} : pc'[q] = "idle"
  BY OthersIdle
<1>2. CommandsHaveShape'
  BY DEF Commands, CommandsHaveShape
<1>3. CommandsKeepOrder'
  BY <1>1 DEF Commands, CommandsKeepOrder, InFlight
<1> QED BY <1>2, <1>3 DEF Commands

LEMMA NoCommandType == NoCommand \in Command
BY BuildAssumption, StagesAssumption DEF NoCommand, Command, Mode, Stage, Resolve

LEMMA StageIsNat == Stage \subseteq Nat /\ Resolve \in Stage /\ Resolve \in Nat
BY StagesAssumption DEF Stage, Resolve

\* A release lets go of the lock, whatever the command was at.
LEMMA ReleaseOrder == ASSUME Commands, NEW p \in Proc, pc[p] # "idle", Release(p),
                             UNCHANGED <<status, resultFile>>
                      PROVE Commands'
<1>1. /\ pc' = [q \in Proc |-> pc'[q]] /\ job' = [q \in Proc |-> job'[q]]
      /\ pc'[p] = "idle" /\ \A q \in Proc \ {p} : pc'[q] = pc[q]
  BY DEF Commands, CommandsHaveShape, Release
<1>2. at' \in [Proc -> Nat] /\ cmd' \in [Proc -> Command]
  BY NoCommandType, StageIsNat DEF Commands, CommandsHaveShape, Release
<1> QED BY <1>1, <1>2, Onward DEF InFlight

LEMMA AdvanceOrder == ASSUME Commands, NEW p \in Proc, pc[p] # "idle", NEW r, Advance(p, r),
                             UNCHANGED <<status, resultFile, lock>>
                      PROVE Commands'
<1>1. /\ pc' = [q \in Proc |-> pc'[q]] /\ job' = [q \in Proc |-> job'[q]]
      /\ pc'[p] \in {"finish", "stage"} /\ \A q \in Proc \ {p} : pc'[q] = pc[q]
  BY DEF Commands, CommandsHaveShape, Advance
<1>2. at' \in [Proc -> Nat] /\ cmd' \in [Proc -> Command]
  BY DEF Commands, CommandsHaveShape, Advance
<1> QED BY <1>1, <1>2, Onward DEF InFlight

LEMMA BeginOrder == ASSUME Commands, NEW p \in Proc, Request(p) PROVE Commands'
<1>1. PICK until \in Stage, mode \in Mode, b \in Build : Begin(p, until, mode, b)
  BY DEF Request
<1>2. \A q \in Proc : pc[q] = "idle"
  BY <1>1, ProcAssumption DEF Begin, Commands, CommandsKeepOrder
<1>3. [until |-> until, mode |-> mode, build |-> b] \in Command
  BY DEF Command
<1>4. CommandsHaveShape'
  BY <1>1, <1>3 DEF Begin, Commands, CommandsHaveShape, disk
<1>5. \A q \in Proc : pc'[q] = IF q = p THEN "reconcile" ELSE "idle"
  BY <1>1, <1>2 DEF Begin, Commands, CommandsHaveShape
<1>6. CommandsKeepOrder'
  BY <1>1, <1>5 DEF Begin, Commands, CommandsKeepOrder, InFlight, disk
<1> QED BY <1>4, <1>6 DEF Commands

\* The steps that write status.json or result.json.
LEMMA WriteOrder ==
    ASSUME Commands, NEW p \in Proc,
           \/ \E s \in Stage : ReconcileStage(p, s)
           \/ WriteRunning(p) \/ ExecuteStage(p) \/ WriteSucceeded(p)
           \/ \E state \in {"failed", "interrupted"} : Abort(p, state)
    PROVE  Commands'
<1> USE DEF Commands
<1>1. pc[p] # "idle"
  BY DEF ReconcileStage, WriteRunning, ExecuteStage, WriteSucceeded, Abort, Guarded
<1>2. lock = p /\ \A q \in Proc \ {p} : pc[q] = "idle"
  BY <1>1, OthersIdle
<1>3. ASSUME NEW s \in Stage, ReconcileStage(p, s) PROVE Commands'
  <2>1. /\ status' = [t \in Stage |-> status'[t]]
        /\ \A t \in Stage : t # s => status'[t] = status[t]
        /\ status'[s].state = "interrupted" /\ pc[p] = "reconcile"
        /\ UNCHANGED <<resultFile, lock, pc, cmd, at, job>>
    BY <1>3 DEF ReconcileStage, CommandsHaveShape, local
  <2>2. CommandsHaveShape'
    BY <2>1 DEF CommandsHaveShape
  <2>3. CommandsKeepOrder'
    BY <1>2, <2>1 DEF CommandsKeepOrder, InFlight
  <2> QED BY <2>2, <2>3
<1>4. CASE WriteRunning(p)
  <2>1. /\ status' = [t \in Stage |-> status'[t]]
        /\ \A t \in Stage : t # at[p] => status'[t] = status[t]
        /\ at[p] \in Stage => status'[at[p]].state = "running"
        /\ pc' = [q \in Proc |-> pc'[q]] /\ pc'[p] = "running"
        /\ \A q \in Proc \ {p} : pc'[q] = "idle"
        /\ UNCHANGED <<resultFile, lock, cmd, at, job>>
    BY <1>2, <1>4 DEF WriteRunning, CommandsHaveShape
  <2>2. CommandsHaveShape'
    BY <2>1 DEF CommandsHaveShape
  <2>3. CommandsKeepOrder'
    BY <1>2, <2>1 DEF CommandsKeepOrder, InFlight
  <2> QED BY <2>2, <2>3
<1>5. CASE ExecuteStage(p)
  <2>1. PICK r : StoreResult(p, r) /\ pc[p] = "execute"
    BY <1>5 DEF ExecuteStage
  <2>2. /\ resultFile' = [t \in Stage |-> resultFile'[t]]
        /\ \A t \in Stage : t # at[p] => resultFile'[t] = resultFile[t]
        /\ at[p] \in Stage => resultFile'[at[p]] = r
        /\ pc' = [q \in Proc |-> pc'[q]] /\ pc'[p] = "written"
        /\ job' = [q \in Proc |-> job'[q]] /\ job'[p].result = r
        /\ \A q \in Proc \ {p} : pc'[q] = "idle"
        /\ UNCHANGED <<status, lock, cmd, at>>
    BY <1>2, <2>1 DEF StoreResult, CommandsHaveShape
  <2>3. at[p] \in Stage => status[at[p]].state = "running"
    BY <2>1 DEF CommandsKeepOrder, InFlight
  <2>4. CommandsHaveShape'
    BY <2>2 DEF CommandsHaveShape
  <2>5. CommandsKeepOrder'
    BY <1>2, <2>2, <2>3 DEF CommandsKeepOrder, InFlight
  <2> QED BY <2>4, <2>5
<1>6. CASE WriteSucceeded(p)
  <2>1. /\ status' = [t \in Stage |-> status'[t]]
        /\ \A t \in Stage : t # at[p] => status'[t] = status[t]
        /\ at[p] \in Stage => status'[at[p]].result = job[p].result
        /\ pc' = [q \in Proc |-> pc'[q]] /\ pc'[p] = "committing" /\ pc[p] = "written"
        /\ \A q \in Proc \ {p} : pc'[q] = "idle"
        /\ UNCHANGED <<resultFile, lock, cmd, at, job>>
    BY <1>2, <1>6 DEF WriteSucceeded, CommandsHaveShape
  <2>2. CommandsHaveShape'
    BY <2>1 DEF CommandsHaveShape
  <2>3. CommandsKeepOrder'
    BY <1>2, <2>1 DEF CommandsKeepOrder, InFlight
  <2> QED BY <2>2, <2>3
<1>7. ASSUME NEW state \in {"failed", "interrupted"}, Abort(p, state) PROVE Commands'
  <2>1. /\ status' = [t \in Stage |-> status'[t]]
        /\ \A t \in Stage : t # at[p] => status'[t] = status[t]
        /\ at[p] \in Stage => status'[at[p]].state # "succeeded"
        /\ UNCHANGED resultFile
    BY <1>7 DEF Abort, CommandsHaveShape
  <2>2. /\ pc' = [q \in Proc |-> pc'[q]] /\ job' = [q \in Proc |-> job'[q]]
        /\ \A q \in Proc : pc'[q] = "idle"
    BY <1>2, <1>7 DEF Abort, Release, CommandsHaveShape
  <2>3. at' \in [Proc -> Nat] /\ cmd' \in [Proc -> Command]
    BY <1>7, NoCommandType, StageIsNat DEF Abort, Release, CommandsHaveShape
  <2>4. CommandsHaveShape'
    BY <2>1, <2>2, <2>3 DEF CommandsHaveShape
  <2>5. CommandsKeepOrder'
    BY <2>1, <2>2 DEF CommandsKeepOrder, InFlight
  <2> QED BY <2>4, <2>5
<1> QED BY <1>3, <1>4, <1>5, <1>6, <1>7

\* Those that do not.
LEMMA ReadOrder ==
    ASSUME Commands, NEW p \in Proc,
           \/ Reconciled(p) \/ LoadPredecessor(p) \/ RejectPredecessor(p)
           \/ UsePinnedResolve(p) \/ RejectPinnedResolve(p) \/ ReuseStage(p)
           \/ StartStage(p) \/ WriteInput(p) \/ Commit(p) \/ Finish(p) \/ Crash(p)
    PROVE  Commands'
<1>1. pc[p] # "idle"
  BY DEF Reconciled, LoadPredecessor, RejectPredecessor, UsePinnedResolve, RejectPinnedResolve,
         ReuseStage, StartStage, WriteInput, Commit, Finish, Crash
<1>2. UNCHANGED <<status, resultFile>>
  BY DEF Reconciled, LoadPredecessor, RejectPredecessor, UsePinnedResolve, RejectPinnedResolve,
         ReuseStage, StartStage, WriteInput, Commit, Finish, Crash, disk
<1>3. CASE Release(p)
  BY <1>1, <1>2, <1>3, ReleaseOrder
<1>4. CASE UsePinnedResolve(p) \/ ReuseStage(p) \/ Commit(p)
  <2>1. UNCHANGED lock /\ \E r : Advance(p, r)
    BY <1>4 DEF UsePinnedResolve, ReuseStage, Commit
  <2> QED BY <1>1, <1>2, <2>1, AdvanceOrder
<1>5. CASE Reconciled(p) \/ StartStage(p) \/ WriteInput(p)
  <2>1. /\ pc' = [q \in Proc |-> pc'[q]] /\ \A q \in Proc \ {p} : pc'[q] = pc[q]
        /\ UNCHANGED <<lock, at, cmd>> /\ job' = [q \in Proc |-> job'[q]]
    BY <1>5 DEF Reconciled, StartStage, WriteInput, Commands, CommandsHaveShape
  <2>2. \/ pc'[p] \in {"predecessor", "stage", "start"}
        \/ pc[p] = "running" /\ pc'[p] = "execute"
    BY <1>5 DEF Reconciled, StartStage, WriteInput, Commands, CommandsHaveShape
  <2> QED BY <1>1, <1>2, <2>1, <2>2, Onward DEF InFlight, Commands, CommandsHaveShape
<1>6. CASE LoadPredecessor(p)
  <2>1. /\ pc' = [q \in Proc |-> pc'[q]] /\ \A q \in Proc \ {p} : pc'[q] = pc[q]
        /\ UNCHANGED <<lock, cmd, job>> /\ pc'[p] = "stage"
    BY <1>6 DEF LoadPredecessor, Commands, CommandsHaveShape
  <2>2. at' \in [Proc -> Nat]
    <3>1. cmd[p].until \in Nat
      BY StageIsNat DEF Commands, CommandsHaveShape, Command
    <3> QED BY <1>6, <3>1 DEF LoadPredecessor, Commands, CommandsHaveShape
  <2> QED BY <1>1, <1>2, <2>1, <2>2, Onward DEF InFlight, Commands, CommandsHaveShape
<1> QED BY <1>3, <1>4, <1>5, <1>6
        DEF RejectPredecessor, RejectPinnedResolve, Finish, Crash

\* Neither commands nor the disk's faults disturb the order.
LEMMA CommandStep == ASSUME Commands, Next PROVE Commands'
<1>1. ASSUME NEW p \in Proc, Request(p) \/ Step(p) \/ Fault(p) PROVE Commands'
  BY <1>1, BeginOrder, WriteOrder, ReadOrder DEF Step, Fault
<1>2. ASSUME NEW s \in Damageable, NEW f \in File, Damage(s, f) PROVE Commands'
  BY <1>2 DEF Damage, local, Commands, CommandsHaveShape, CommandsKeepOrder
<1> QED BY <1>1, <1>2 DEF Next

\* Nor do readers.
LEMMA ProbeStep == ASSUME Commands, NEW r \in Reader, ReaderStep(r)
                   PROVE Commands' /\ UNCHANGED <<status, resultFile, damaged>>
<1>1. UNCHANGED <<disk, made, local>> /\ (lock' = lock \/ lock \in {r, NoProc})
  BY DEF ReaderStep, BeginStatus, ProbeTaken, ProbeFree, DropProbe, ReadStatus, Judge, EndStatus,
         vars
<1>2. r \notin Proc /\ NoProc \notin Proc
  BY ReaderAssumption, ProcAssumption
<1> QED BY <1>1, <1>2 DEF Commands, CommandsHaveShape, CommandsKeepOrder, disk, local

-----------------------------------------------------------------------------

\* A reader changes nothing of another one's, nor does a command.
LEMMA OwnStep ==
    ASSUME ReadersHaveShape, NEW r \in Reader,
           (Next /\ UNCHANGED reader) \/ \E q \in Reader \ {r} : ReaderStep(q)
    PROVE  /\ rpc'[r] = rpc[r] /\ next'[r] = next[r] /\ locked'[r] = locked[r]
           /\ seen'[r] = seen[r] /\ report'[r] = report[r]
BY DEF ReadersHaveShape, reader, ReaderStep, BeginStatus, ProbeTaken, ProbeFree, DropProbe,
       ReadStatus, Judge, EndStatus

\* What a reader keeps for itself stays what it is made of.
Notes ==
    /\ rpc \in [Reader -> {"idle", "probe", "read", "again", "judge", "done"}]
    /\ next \in [Reader -> Stage]
    /\ locked \in [Reader -> BOOLEAN] /\ verify \in [Reader -> BOOLEAN]
    /\ seen = [r \in Reader |-> [s \in Stage |-> seen[r][s]]]
    /\ report = [r \in Reader |-> [s \in Stage |-> report[r][s]]]
    /\ \A r \in Reader : rpc[r] \in {"idle", "probe", "again"} => next[r] = Resolve
    /\ \A r \in Reader : rpc[r] = "idle" => ~locked[r]

LEMMA NotesKept == ASSUME Notes, NEW r \in Reader, ReaderStep(r) PROVE Notes'
<1> USE StageIsNat DEF Notes
<1>1. ASSUME NEW v \in BOOLEAN, BeginStatus(r, v) PROVE Notes'
  BY <1>1 DEF BeginStatus
<1>2. CASE ProbeTaken(r)
  BY <1>2 DEF ProbeTaken, AfterProbe
<1>3. CASE ProbeFree(r)
  BY <1>3 DEF ProbeFree, reader
<1>4. CASE DropProbe(r)
  BY <1>4 DEF DropProbe, AfterProbe
<1>5. CASE ReadStatus(r)
  <2>1. seen' = [q \in Reader |-> [s \in Stage |-> seen'[q][s]]]
    BY <1>5 DEF ReadStatus
  <2>2. next[r] \in Stage /\ (next[r] < NumStages => next[r] + 1 \in Stage)
    BY StagesAssumption DEF Stage
  <2>3. CASE next[r] < NumStages
    <3>1. /\ next' = [next EXCEPT ![r] = next[r] + 1] /\ rpc[r] = "read"
          /\ UNCHANGED <<rpc, locked, verify, report>>
      BY <1>5, <2>3 DEF ReadStatus
    <3> QED BY <2>1, <2>2, <2>3, <3>1
  <2>4. CASE ~(next[r] < NumStages)
    <3>1. /\ next' = [next EXCEPT ![r] = Resolve]
          /\ rpc' = [rpc EXCEPT ![r] = IF locked[r] THEN "judge" ELSE "again"]
          /\ UNCHANGED <<locked, verify, report>>
      BY <1>5, <2>4 DEF ReadStatus
    <3> QED BY <2>1, <3>1
  <2> QED BY <2>3, <2>4
<1>6. CASE Judge(r)
  <2>1. report' = [q \in Reader |-> [s \in Stage |-> report'[q][s]]]
    BY <1>6 DEF Judge
  <2>2. next[r] \in Stage /\ (next[r] < NumStages => next[r] + 1 \in Stage)
    BY StagesAssumption DEF Stage
  <2>3. /\ rpc[r] = "judge" /\ UNCHANGED <<locked, verify, seen>>
        /\ \/ /\ next[r] < NumStages /\ UNCHANGED rpc
              /\ next' = [next EXCEPT ![r] = next[r] + 1]
           \/ UNCHANGED next /\ rpc' = [rpc EXCEPT ![r] = "done"]
    BY <1>6 DEF Judge
  <2>4. CASE next' = [next EXCEPT ![r] = next[r] + 1] /\ next[r] < NumStages /\ UNCHANGED rpc
    BY <2>1, <2>2, <2>3, <2>4
  <2>5. CASE UNCHANGED next /\ rpc' = [rpc EXCEPT ![r] = "done"]
    BY <2>1, <2>3, <2>5
  <2> QED BY <2>3, <2>4, <2>5
<1>7. CASE EndStatus(r)
  <2>1. /\ rpc' \in [Reader -> {"idle", "probe", "read", "again", "judge", "done"}]
        /\ next' \in [Reader -> Stage]
        /\ locked' \in [Reader -> BOOLEAN] /\ verify' \in [Reader -> BOOLEAN]
    BY <1>7 DEF EndStatus
  <2>2. seen' = [q \in Reader |-> [s \in Stage |-> seen'[q][s]]]
    BY <1>7 DEF EndStatus
  <2>3. report' = [q \in Reader |-> [s \in Stage |-> report'[q][s]]]
    BY <1>7 DEF EndStatus, NoReport
  <2>4. /\ \A q \in Reader : rpc'[q] \in {"idle", "probe", "again"} => next'[q] = Resolve
        /\ \A q \in Reader : rpc'[q] = "idle" => ~locked'[q]
    BY <1>7 DEF EndStatus
  <2> QED BY <2>1, <2>2, <2>3, <2>4
<1> QED BY <1>1, <1>2, <1>3, <1>4, <1>5, <1>6, <1>7 DEF ReaderStep

\* Whoever holds the lock before or after a step has been watched.
LEMMA ShapeKept == ASSUME ReadersHaveShape, NextWithReaders PROVE ReadersHaveShape'
<1>1. Notes /\ watched = [r \in Reader |-> watched[r]]
  BY DEF ReadersHaveShape, Notes
<1>2. Notes'
  <2>1. CASE UNCHANGED reader
    BY <1>1, <2>1 DEF reader, Notes
  <2> QED BY <1>1, <2>1, NotesKept DEF NextWithReaders
<1>3. /\ watched' = [r \in Reader |-> watched'[r]]
      /\ \A r \in Reader : rpc'[r] # "idle" => lock' \in watched'[r]
  BY DEF NextWithReaders, Observe
<1> QED BY <1>2, <1>3 DEF ReadersHaveShape, Notes

\* A step that goes on with a reader at work: who has held the lock is not forgotten.
LEMMA Watching ==
    ASSUME NextWithReaders, NEW r \in Reader, rpc'[r] # "idle"
    PROVE  watched[r] \subseteq watched'[r] /\ lock \in watched'[r] /\ lock' \in watched'[r]
BY DEF NextWithReaders, Observe

\* The disk does not move under a reader that sees nobody, except that it decays.
LEMMA QuietDisk ==
    ASSUME Commands, NextWithReaders, NEW r \in Reader, rpc'[r] # "idle",
           watched'[r] \subseteq {r, NoProc}
    PROVE  UNCHANGED <<status, resultFile>> /\ damaged \subseteq damaged'
<1>1. lock \notin Proc /\ lock' \notin Proc
  BY Watching, ReaderAssumption, ProcAssumption
<1>2. ASSUME NEW p \in Proc, Request(p) PROVE FALSE
  BY <1>1, <1>2 DEF Request, Begin
<1>3. ASSUME NEW p \in Proc, Step(p) \/ Fault(p) PROVE FALSE
  <2>1. pc[p] # "idle"
    BY <1>3 DEF Step, Fault, ReconcileStage, Reconciled, LoadPredecessor, RejectPredecessor,
       UsePinnedResolve, RejectPinnedResolve, ReuseStage, StartStage, WriteRunning, WriteInput,
       ExecuteStage, WriteSucceeded, Commit, Abort, Guarded, Finish, Crash
  <2> QED BY <1>1, <2>1 DEF Commands, CommandsKeepOrder
<1>4. ASSUME NEW s \in Damageable, NEW f \in File, Damage(s, f)
      PROVE UNCHANGED <<status, resultFile>> /\ damaged \subseteq damaged'
  BY <1>4 DEF Damage
<1>5. ASSUME NEW q \in Reader, ReaderStep(q)
      PROVE UNCHANGED <<status, resultFile>> /\ damaged \subseteq damaged'
  BY <1>5, ProbeStep
<1> QED BY <1>2, <1>3, <1>4, <1>5 DEF NextWithReaders, Next

\* The stages up to a given one, and up to the last.
LEMMA UpTo ==
    ASSUME NEW n \in Stage, NEW s \in Stage
    PROVE  /\ s < n + 1 => s < n \/ s = n
           /\ ~(n < NumStages) => s <= n /\ (s < n \/ s = n)
BY StagesAssumption DEF Stage

\* What is right of a stage stays right as files decay.
LEMMA RightStays == ASSUME NEW r \in Reader, NEW s \in Stage, IsRight(r, s),
                           report'[r][s] = report[r][s],
                           status' = status, damaged \subseteq damaged'
                    PROVE IsRight(r, s)'
BY DEF IsRight

\* The report of a stage in each case.
LEMMA ReportedAs ==
    ASSUME NEW r, NEW s
    PROVE  /\ seen[r][s].state = "running" /\ ~locked[r] => Reported(r, s) = "interrupted"
           /\ seen[r][s].state # "running" =>
                \/ Reported(r, s) = seen[r][s].state
                \/ /\ seen[r][s].state = "succeeded" /\ Reported(r, s) = "failed"
                   /\ resultFile[s] # seen[r][s].result \/ <<s, "result">> \in damaged
BY DEF Reported

\* What a reader does that sees nobody at work.
LEMMA QuietStep ==
    ASSUME Commands, Notes, NEW r \in Reader, ReaderStep(r), QuietReader(r),
           watched[r] \subseteq {r, NoProc}, lock \in {r, NoProc}, rpc'[r] # "idle",
           UNCHANGED <<status, resultFile, damaged>>
    PROVE  /\ ~locked'[r]
           /\ \A s \in Read(r)' : seen'[r][s] = status'[s]
           /\ \A s \in Judged(r)' : IsRight(r, s)'
<1> DEFINE Goal == /\ ~locked'[r]
                   /\ \A s \in Read(r)' : seen'[r][s] = status'[s]
                   /\ \A s \in Judged(r)' : IsRight(r, s)'
<1> USE StageIsNat
<1>1. ASSUME NEW v \in BOOLEAN, BeginStatus(r, v) PROVE Goal
  BY <1>1 DEF BeginStatus, Notes, Read, Judged
<1>2. CASE ProbeTaken(r)
  BY <1>2 DEF ProbeTaken
<1>q. ASSUME rpc[r] # "idle"
      PROVE /\ ~locked[r]
            /\ \A s \in Read(r) : seen[r][s] = status[s]
            /\ \A s \in Judged(r) : IsRight(r, s)
  BY <1>q DEF QuietReader
<1>r. ASSUME NEW s \in Stage, s \in Judged(r), rpc[r] # "idle", report'[r][s] = report[r][s]
      PROVE IsRight(r, s)'
  BY <1>q, <1>r, RightStays
<1>n. /\ next[r] \in Stage /\ next[r] \in Nat /\ NumStages \in Nat
      /\ \A s \in Stage : s \in Nat /\ s >= 1 /\ s <= NumStages
  BY StagesAssumption DEF Notes, Stage
<1>3. CASE ProbeFree(r)
  <2>1. UNCHANGED reader /\ rpc[r] \in {"probe", "again"}
    BY <1>3 DEF ProbeFree
  <2> QED BY <2>1, <1>q DEF reader, Read, Judged
<1>4. CASE DropProbe(r)
  <2>1. CASE rpc[r] = "probe"
    <3>1. rpc'[r] = "read" /\ next'[r] = Resolve /\ UNCHANGED <<locked, seen, report>>
      BY <1>4, <2>1 DEF DropProbe, AfterProbe, Notes
    <3>2. Read(r)' = {} /\ Judged(r)' = {}
      BY <3>1, <1>n DEF Read, Judged, Resolve
    <3> QED BY <2>1, <3>1, <3>2, <1>q
  <2>2. CASE rpc[r] = "again"
    <3>1. rpc'[r] = "judge" /\ next'[r] = Resolve /\ UNCHANGED <<locked, seen, report>>
      BY <1>4, <2>2 DEF DropProbe, AfterProbe, Notes
    <3>2. Read(r) = Stage /\ Read(r)' = Stage /\ Judged(r)' = {}
      BY <2>2, <3>1, <1>n DEF Read, Judged, Resolve
    <3> QED BY <2>2, <3>1, <3>2, <1>q
  <2> QED BY <1>4, <2>1, <2>2 DEF DropProbe
<1>5. CASE ReadStatus(r)
  <2>1. /\ rpc[r] = "read" /\ UNCHANGED locked
        /\ \A s \in Stage : seen'[r][s] = IF s = next[r] THEN status[s] ELSE seen[r][s]
    BY <1>5 DEF ReadStatus, Notes
  <2>2. \A s \in Stage : s <= next[r] => seen'[r][s] = status[s]
    BY <1>q, <1>n, <2>1 DEF Read
  <2>3. CASE next[r] < NumStages
    <3>1. rpc'[r] = "read" /\ next'[r] = next[r] + 1
      BY <1>5, <2>3 DEF ReadStatus, Notes
    <3>2. /\ \A s \in Read(r)' : s \in Stage /\ s <= next[r]
          /\ Judged(r)' = {}
      BY <1>n, <3>1 DEF Read, Judged
    <3>3. \A s \in Read(r)' : seen'[r][s] = status'[s]
      BY <1>n, <2>2, <3>2
    <3> QED BY <1>q, <2>1, <3>2, <3>3
  <2>4. CASE ~(next[r] < NumStages)
    <3>1. rpc'[r] = "again"
      BY <1>5, <2>4, <2>1, <1>q DEF ReadStatus, Notes
    <3>2. Read(r)' = Stage /\ Judged(r)' = {}
      BY <3>1 DEF Read, Judged
    <3>3. \A s \in Read(r)' : seen'[r][s] = status'[s]
      BY <1>n, <2>2, <2>4, <3>2, UpTo
    <3> QED BY <1>q, <2>1, <3>2, <3>3
  <2> QED BY <2>3, <2>4
<1>6. CASE Judge(r)
  <2>1. /\ rpc[r] = "judge" /\ UNCHANGED <<locked, seen>> /\ rpc'[r] \in {"judge", "done"}
        /\ \A s \in Stage : s # next[r] => report'[r][s] = report[r][s]
        /\ report'[r][next[r]] = Reported(r, next[r])
    BY <1>6, <1>n DEF Judge, Notes
  <2>2. Read(r) = Stage /\ Read(r)' = Stage
    BY <2>1 DEF Read
  <2>3. \A s \in Stage : s < next[r] => IsRight(r, s)'
    <3> TAKE s \in Stage
    <3> HAVE s < next[r]
    <3>1. s \in Judged(r) /\ report'[r][s] = report[r][s]
      BY <1>n, <2>1 DEF Judged
    <3> QED BY <3>1, <2>1, <1>r
  <2>0. PICK n \in Stage : n = next[r]
    BY <1>n
  <2>4. IsRight(r, n)'
    <3>1. /\ seen[r][n] = status[n] /\ ~locked[r] /\ report'[r][n] = Reported(r, n)
          /\ status[n].state = "succeeded" => resultFile[n] = status[n].result
      BY <1>q, <2>0, <2>1, <2>2 DEF Commands, CommandsKeepOrder
    <3>2. CASE status[n].state = "running"
      BY <3>1, <3>2, ReportedAs DEF IsRight
    <3>3. CASE status[n].state # "running"
      BY <3>1, <3>3, ReportedAs DEF IsRight
    <3> QED BY <3>2, <3>3
  <2>5. \A s \in Judged(r)' : s \in Stage /\ (s < next[r] \/ s = next[r])
    <3>1. CASE next[r] < NumStages
      <4>1. rpc'[r] = "judge" /\ next'[r] = next[r] + 1
        BY <1>6, <3>1 DEF Judge, Notes
      <4>2. Judged(r)' = {s \in Stage : s < next[r] + 1}
        BY <4>1 DEF Judged
      <4>3. ASSUME NEW s \in Stage, s < next[r] + 1 PROVE s < next[r] \/ s = next[r]
        BY <1>n, <4>3, UpTo
      <4> QED BY <4>2, <4>3
    <3>2. CASE ~(next[r] < NumStages)
      <4>1. rpc'[r] = "done"
        BY <1>6, <3>2 DEF Judge, Notes
      <4>2. Judged(r)' = Stage
        BY <4>1 DEF Judged
      <4>3. ASSUME NEW s \in Stage PROVE s < next[r] \/ s = next[r]
        BY <1>n, <3>2, UpTo
      <4> QED BY <4>2, <4>3
    <3> QED BY <3>1, <3>2
  <2>6. \A s \in Judged(r)' : IsRight(r, s)'
    <3> TAKE s \in Judged(r)'
    <3>1. s \in Stage /\ (s < next[r] \/ s = next[r])
      BY <2>5
    <3>2. CASE s < next[r]
      BY <2>3, <3>1, <3>2
    <3>3. CASE s = next[r]
      <4>1. s = n
        BY <2>0, <3>3
      <4> QED BY <2>4, <4>1
    <3> QED BY <3>1, <3>2, <3>3
  <2> QED BY <1>q, <2>1, <2>2, <2>6
<1>7. CASE EndStatus(r)
  BY <1>7 DEF EndStatus, Notes
<1> QED BY <1>1, <1>2, <1>3, <1>4, <1>5, <1>6, <1>7 DEF ReaderStep

\* What a reader does that has seen one command, and that one all along.
LEMMA LiveStep ==
    ASSUME Notes, NEW r \in Reader, ReaderStep(r), LiveReader(r), NEW p \in Proc,
           rpc[r] # "idle" => watched[r] = {p}, lock = p, lock' = p, rpc'[r] # "idle"
    PROVE  /\ rpc'[r] # "probe" => locked'[r]
           /\ \A s \in Judged(r)' : seen'[r][s].state = "running"
                                      => report'[r][s] = "running"
<1> DEFINE Goal == /\ rpc'[r] # "probe" => locked'[r]
                   /\ \A s \in Judged(r)' : seen'[r][s].state = "running"
                                              => report'[r][s] = "running"
<1> USE StageIsNat
<1>p. p # r /\ p # NoProc
  BY ReaderAssumption, ProcAssumption
<1>q. rpc[r] # "idle" =>
        /\ rpc[r] # "probe" => locked[r]
        /\ \A s \in Judged(r) : seen[r][s].state = "running" => report[r][s] = "running"
  BY DEF LiveReader
<1>n. /\ next[r] \in Stage /\ next[r] \in Nat /\ NumStages \in Nat
      /\ \A s \in Stage : s \in Nat /\ s >= 1 /\ s <= NumStages
  BY StagesAssumption DEF Notes, Stage
<1>1. ASSUME NEW v \in BOOLEAN, BeginStatus(r, v) PROVE Goal
  BY <1>1 DEF BeginStatus, Notes, Judged
<1>2. CASE ProbeTaken(r)
  <2>1. /\ locked'[r] = TRUE /\ next'[r] = Resolve /\ rpc'[r] \in {"read", "judge"}
    BY <1>2 DEF ProbeTaken, AfterProbe, Notes
  <2>2. Judged(r)' = {}
    BY <2>1, <1>n DEF Judged, Resolve
  <2> QED BY <2>1, <2>2
<1>3. CASE ProbeFree(r) \/ DropProbe(r)
  BY <1>3, <1>p DEF ProbeFree, DropProbe
<1>5. CASE ReadStatus(r)
  <2>1. rpc[r] = "read" /\ locked[r] /\ UNCHANGED locked
    BY <1>5, <1>q DEF ReadStatus
  <2>2. Judged(r)' = {}
    <3>1. CASE next[r] < NumStages
      <4>1. rpc'[r] = "read"
        BY <1>5, <3>1, <2>1 DEF ReadStatus, Notes
      <4> QED BY <4>1 DEF Judged
    <3>2. CASE ~(next[r] < NumStages)
      <4>1. rpc'[r] = "judge" /\ next'[r] = Resolve
        BY <1>5, <3>2, <2>1 DEF ReadStatus, Notes
      <4> QED BY <4>1, <1>n DEF Judged, Resolve
    <3> QED BY <3>1, <3>2
  <2> QED BY <2>1, <2>2
<1>6. CASE Judge(r)
  <2>1. /\ rpc[r] = "judge" /\ locked[r] /\ UNCHANGED <<locked, seen>>
        /\ \A s \in Stage : s # next[r] => report'[r][s] = report[r][s]
        /\ report'[r][next[r]] = Reported(r, next[r])
    BY <1>6, <1>n, <1>q DEF Judge, Notes
  <2>2. seen[r][next[r]].state = "running" => report'[r][next[r]] = "running"
    BY <2>1 DEF Reported
  <2>3. \A s \in Stage : s < next[r] /\ seen[r][s].state = "running"
                           => report'[r][s] = "running"
    BY <2>1, <1>n, <1>q DEF Judged
  <2>4. \A s \in Judged(r)' : s \in Stage /\ (s < next[r] \/ s = next[r])
    <3>1. CASE next[r] < NumStages
      <4>1. rpc'[r] = "judge" /\ next'[r] = next[r] + 1
        BY <1>6, <3>1 DEF Judge, Notes
      <4>2. Judged(r)' = {s \in Stage : s < next[r] + 1}
        BY <4>1 DEF Judged
      <4>3. ASSUME NEW s \in Stage, s < next[r] + 1 PROVE s < next[r] \/ s = next[r]
        BY <1>n, <4>3, UpTo
      <4> QED BY <4>2, <4>3
    <3>2. CASE ~(next[r] < NumStages)
      <4>1. rpc'[r] = "done"
        BY <1>6, <3>2 DEF Judge, Notes
      <4>2. Judged(r)' = Stage
        BY <4>1 DEF Judged
      <4>3. ASSUME NEW s \in Stage PROVE s < next[r] \/ s = next[r]
        BY <1>n, <3>2, UpTo
      <4> QED BY <4>2, <4>3
    <3> QED BY <3>1, <3>2
  <2> QED BY <2>1, <2>2, <2>3, <2>4
<1>7. CASE EndStatus(r)
  BY <1>7 DEF EndStatus, Notes
<1> QED BY <1>1, <1>2, <1>3, <1>5, <1>6, <1>7 DEF ReaderStep

\* Every step keeps what readers rely on.
LEMMA ReaderInvStep == ASSUME ReaderInv, NextWithReaders PROVE ReaderInv'
<1>1. Commands /\ ReadersHaveShape /\ Notes
  BY DEF ReaderInv, Commands, ReadersHaveShape, Notes
<1>2. Commands'
  <2>1. CASE Next
    BY <1>1, <2>1, CommandStep
  <2>2. ASSUME NEW r \in Reader, ReaderStep(r) PROVE Commands'
    BY <1>1, <2>2, ProbeStep
  <2> QED BY <2>1, <2>2 DEF NextWithReaders
<1>3. ReadersHaveShape'
  BY <1>1, ShapeKept
<1>4. ASSUME NEW r \in Reader PROVE QuietReader(r)'
  <2> SUFFICES ASSUME rpc'[r] # "idle", watched'[r] \subseteq {r, NoProc}
               PROVE  /\ ~locked'[r]
                      /\ \A s \in Read(r)' : seen'[r][s] = status'[s]
                      /\ \A s \in Judged(r)' : IsRight(r, s)'
    BY DEF QuietReader
  <2>1. watched[r] \subseteq {r, NoProc} /\ lock \in {r, NoProc}
    BY Watching
  <2>2. UNCHANGED <<status, resultFile>> /\ damaged \subseteq damaged'
    BY <1>1, QuietDisk
  <2>3. CASE ReaderStep(r)
    <3>1. UNCHANGED damaged
      BY <1>1, <2>3, ProbeStep
    <3> QED BY <1>1, <2>1, <2>2, <2>3, <3>1, QuietStep DEF ReaderInv
  <2>4. CASE ~ReaderStep(r)
    <3>1. /\ rpc'[r] = rpc[r] /\ next'[r] = next[r] /\ locked'[r] = locked[r]
          /\ seen'[r] = seen[r] /\ report'[r] = report[r]
      BY <1>1, <2>4, OwnStep DEF NextWithReaders
    <3>2. /\ ~locked[r]
          /\ \A s \in Read(r) : seen[r][s] = status[s]
          /\ \A s \in Judged(r) : IsRight(r, s)
      BY <2>1, <3>1 DEF ReaderInv, QuietReader
    <3>3. Read(r)' = Read(r) /\ Judged(r)' = Judged(r) /\ Judged(r) \subseteq Stage
      BY <3>1 DEF Read, Judged
    <3>4. \A s \in Judged(r) : IsRight(r, s)'
      BY <2>2, <3>1, <3>2, <3>3, RightStays
    <3> QED BY <2>2, <3>1, <3>2, <3>3, <3>4
  <2> QED BY <2>3, <2>4
<1>5. ASSUME NEW r \in Reader PROVE LiveReader(r)'
  <2> SUFFICES ASSUME NEW p \in Proc, rpc'[r] # "idle", watched'[r] = {p}
               PROVE  /\ rpc'[r] # "probe" => locked'[r]
                      /\ \A s \in Judged(r)' : seen'[r][s].state = "running"
                                                 => report'[r][s] = "running"
    BY DEF LiveReader
  <2>1. lock = p /\ lock' = p /\ (rpc[r] # "idle" => watched[r] = {p})
    BY <1>1, Watching DEF ReadersHaveShape
  <2>2. CASE ReaderStep(r)
    BY <1>1, <2>1, <2>2, LiveStep DEF ReaderInv
  <2>3. CASE ~ReaderStep(r)
    <3>1. /\ rpc'[r] = rpc[r] /\ next'[r] = next[r] /\ locked'[r] = locked[r]
          /\ seen'[r] = seen[r] /\ report'[r] = report[r]
      BY <1>1, <2>3, OwnStep DEF NextWithReaders
    <3>2. /\ rpc[r] # "probe" => locked[r]
          /\ \A s \in Judged(r) : seen[r][s].state = "running" => report[r][s] = "running"
      BY <2>1, <3>1 DEF ReaderInv, LiveReader
    <3>3. Judged(r)' = Judged(r)
      BY <3>1 DEF Judged
    <3> QED BY <3>1, <3>2, <3>3
  <2> QED BY <2>2, <2>3
<1> QED BY <1>2, <1>3, <1>4, <1>5 DEF ReaderInv, Commands

\* No command has run, and nobody reads.
LEMMA ReaderInvInit == InitWithReaders => ReaderInv
<1> SUFFICES ASSUME InitWithReaders PROVE ReaderInv
  OBVIOUS
<1>1. CommandsHaveShape
  BY NoCommandType, StageIsNat DEF InitWithReaders, Init, CommandsHaveShape
<1>2. CommandsKeepOrder
  BY DEF InitWithReaders, Init, CommandsKeepOrder, InFlight
<1>3. ReadersHaveShape
  BY StageIsNat DEF InitWithReaders, InitReaders, ReadersHaveShape, NoReport
<1>4. \A r \in Reader : QuietReader(r) /\ LiveReader(r)
  BY DEF InitWithReaders, InitReaders, QuietReader, LiveReader
<1> QED BY <1>1, <1>2, <1>3, <1>4 DEF ReaderInv

\* Files, commands and readers are always in step with each other: what the two
\* theorems below rest on.
THEOREM ReadersInvariant == SpecWithReaders => []ReaderInv
<1>1. ReaderInv /\ [NextWithReaders]_allVars => ReaderInv'
  <2> SUFFICES ASSUME ReaderInv, UNCHANGED allVars PROVE ReaderInv'
    BY ReaderInvStep
  <2>1. /\ UNCHANGED <<status, resultFile, damaged, lock, pc, cmd, at, job>>
        /\ UNCHANGED <<rpc, next, locked, verify, seen, report, watched>>
    BY DEF allVars, vars, disk, local, reader
  <2>2. (CommandsHaveShape /\ CommandsKeepOrder)' /\ ReadersHaveShape'
    BY <2>1 DEF ReaderInv, CommandsHaveShape, CommandsKeepOrder, ReadersHaveShape
  <2>3. \A r \in Reader : (QuietReader(r) /\ LiveReader(r))'
    BY <2>1 DEF ReaderInv, QuietReader, LiveReader, Read, Judged, IsRight
  <2> QED BY <2>2, <2>3 DEF ReaderInv
<1> QED BY <1>1, ReaderInvInit, PTL DEF SpecWithReaders

\* `status' with nobody else at the run reports what is on disk, a stage left
\* RUNNING as INTERRUPTED and a damaged result as FAILED, for any number of stages,
\* commands and readers (pipeline.py, Pipeline.status).
THEOREM QuietReportsAreRight == SpecWithReaders => []QuietReportIsRight
<1>1. ReaderInv => QuietReportIsRight
  <2> SUFFICES ASSUME ReaderInv, NEW r \in Reader, rpc[r] = "done",
                      watched[r] \subseteq {r, NoProc}, NEW s \in Stage
               PROVE  IsRight(r, s)
    BY DEF QuietReportIsRight, IsRight
  <2>1. s \in Judged(r)
    BY DEF Judged
  <2> QED BY <2>1 DEF ReaderInv, QuietReader
<1> QED BY <1>1, ReadersInvariant, PTL

\* While one command holds the run from the reader's first step to its last,
\* `status' calls none of its stages interrupted.
THEOREM LiveCommandsAreSeen == SpecWithReaders => []LiveCommandIsNotInterrupted
<1>1. ReaderInv => LiveCommandIsNotInterrupted
  <2> SUFFICES ASSUME ReaderInv, NEW r \in Reader, NEW p \in Proc, rpc[r] = "done",
                      watched[r] = {p}, NEW s \in Stage, seen[r][s].state = "running"
               PROVE  report[r][s] = "running"
    BY DEF LiveCommandIsNotInterrupted
  <2>1. s \in Judged(r)
    BY DEF Judged
  <2> QED BY <2>1 DEF ReaderInv, LiveReader
<1> QED BY <1>1, ReadersInvariant, PTL

-----------------------------------------------------------------------------
(* Commands beside readers do what they do alone.                          *)

\* What a reader does to the lock is nothing to the commands: nobody of theirs takes it
\* or lets it go.
LEMMA ProbesAreHidden == ASSUME NEW r \in Reader, ReaderStep(r)
                         PROVE  UNCHANGED <<disk, made, local, HeldByCommand>>
<1>1. r \notin Proc /\ NoProc \notin Proc
  BY ReaderAssumption, ProcAssumption
<1>2. UNCHANGED <<disk, made, local>>
  BY DEF ReaderStep, BeginStatus, ProbeTaken, ProbeFree, DropProbe, ReadStatus, Judge,
         EndStatus, vars
<1>3. lock' = lock \/ {lock, lock'} \subseteq {r, NoProc}
  BY DEF ReaderStep, BeginStatus, ProbeTaken, ProbeFree, DropProbe, ReadStatus, Judge,
         EndStatus, vars
<1> QED BY <1>1, <1>2, <1>3 DEF HeldByCommand

\* What a command does to the lock it does to the commands' view of it.
LEMMA LockAsSeen ==
    /\ lock = NoProc => HeldByCommand = NoProc
    /\ lock' = NoProc => HeldByCommand' = NoProc
    /\ \A p \in Proc : lock' = p => HeldByCommand' = p
    /\ UNCHANGED lock => UNCHANGED HeldByCommand
BY ProcAssumption DEF HeldByCommand

\* A stage, its file and a command are read alike.
LEMMA ReadAlike ==
    /\ Alone!Stage = Stage /\ Alone!Resolve = Resolve /\ Alone!File = File
    /\ Alone!Guarded = Guarded /\ Alone!Mode = Mode
    /\ Alone!NoCommand = NoCommand /\ Alone!NoJob = NoJob /\ Alone!NoResult = NoResult
    /\ \A s : Alone!Intact(s) <=> Intact(s)
    /\ \A p : /\ Alone!Prepared(p) = Prepared(p)
              /\ Alone!Pinned(p) <=> Pinned(p)
              /\ Alone!Reusable(p) <=> Reusable(p)
              /\ Alone!TrustedPrefix(p) <=> TrustedPrefix(p)
BY DEF Alone!Stage, Stage, Alone!Resolve, Resolve, Alone!File, File, Alone!Guarded, Guarded,
       Alone!Mode, Mode, Alone!NoCommand, NoCommand, Alone!NoJob, NoJob, Alone!NoResult,
       NoResult, Alone!Intact, Intact, Alone!Prepared, Prepared, Alone!Pinned, Pinned,
       Alone!Reusable, Reusable, Alone!TrustedPrefix, TrustedPrefix

LEMMA ReleaseAlike == ASSUME NEW p \in Proc, Release(p) PROVE Alone!Release(p)
BY LockAsSeen, ReadAlike DEF Release, Alone!Release

LEMMA AdvanceAlike == ASSUME NEW p \in Proc, NEW r, Advance(p, r) PROVE Alone!Advance(p, r)
BY ReadAlike DEF Advance, Alone!Advance

LEMMA RequestAlike == ASSUME NEW p \in Proc, Request(p) PROVE Alone!Request(p)
BY LockAsSeen, ReadAlike
   DEF Request, Alone!Request, Begin, Alone!Begin, disk, Alone!disk

LEMMA PassAlike ==
    ASSUME NEW p \in Proc,
           \/ \E s \in Stage : ReconcileStage(p, s)
           \/ Reconciled(p) \/ LoadPredecessor(p) \/ RejectPredecessor(p)
           \/ UsePinnedResolve(p) \/ RejectPinnedResolve(p)
           \/ ReuseStage(p) \/ StartStage(p)
           \/ Commit(p) \/ Finish(p)
    PROVE  Alone!Step(p)
<1> USE LockAsSeen, ReadAlike DEF Alone!Step, disk, Alone!disk, local, Alone!local
<1>1. ASSUME NEW s \in Stage, ReconcileStage(p, s) PROVE Alone!Step(p)
  BY <1>1 DEF ReconcileStage, Alone!ReconcileStage
<1>2. CASE Reconciled(p)
  BY <1>2 DEF Reconciled, Alone!Reconciled
<1>3. CASE LoadPredecessor(p)
  BY <1>3 DEF LoadPredecessor, Alone!LoadPredecessor
<1>4. CASE RejectPredecessor(p)
  BY <1>4, ReleaseAlike DEF RejectPredecessor, Alone!RejectPredecessor
<1>5. CASE UsePinnedResolve(p)
  BY <1>5, AdvanceAlike DEF UsePinnedResolve, Alone!UsePinnedResolve
<1>6. CASE RejectPinnedResolve(p)
  BY <1>6, ReleaseAlike DEF RejectPinnedResolve, Alone!RejectPinnedResolve
<1>7. CASE ReuseStage(p)
  BY <1>7, AdvanceAlike DEF ReuseStage, Alone!ReuseStage
<1>8. CASE StartStage(p)
  BY <1>8 DEF StartStage, Alone!StartStage
<1>9. CASE Commit(p)
  BY <1>9, AdvanceAlike DEF Commit, Alone!Commit
<1>10. CASE Finish(p)
  BY <1>10, ReleaseAlike DEF Finish, Alone!Finish
<1> QED BY <1>1, <1>2, <1>3, <1>4, <1>5, <1>6, <1>7, <1>8, <1>9, <1>10

LEMMA WriteAlike ==
    ASSUME NEW p \in Proc,
           WriteRunning(p) \/ WriteInput(p) \/ ExecuteStage(p) \/ WriteSucceeded(p)
    PROVE  Alone!Step(p)
<1> USE LockAsSeen, ReadAlike DEF Alone!Step
<1>1. CASE WriteRunning(p)
  BY <1>1 DEF WriteRunning, Alone!WriteRunning
<1>2. CASE WriteInput(p)
  BY <1>2 DEF WriteInput, Alone!WriteInput
<1>3. CASE ExecuteStage(p)
  BY <1>3 DEF ExecuteStage, Alone!ExecuteStage, StoreResult, Alone!StoreResult
<1>4. CASE WriteSucceeded(p)
  BY <1>4 DEF WriteSucceeded, Alone!WriteSucceeded
<1> QED BY <1>1, <1>2, <1>3, <1>4

LEMMA FaultAlike == ASSUME NEW p \in Proc, Fault(p) PROVE Alone!Fault(p)
BY ReleaseAlike, ReadAlike
   DEF Fault, Alone!Fault, Crash, Alone!Crash, Abort, Alone!Abort, disk, Alone!disk

LEMMA NextAlike == Next => Alone!Next
<1>1. ASSUME NEW p \in Proc, Request(p) \/ Step(p) \/ Fault(p) PROVE Alone!Next
  BY <1>1, RequestAlike, PassAlike, WriteAlike, FaultAlike DEF Step, Alone!Next
<1>2. ASSUME NEW s \in Damageable, NEW f \in File, Damage(s, f) PROVE Alone!Next
  BY <1>2, LockAsSeen, ReadAlike DEF Damage, Alone!Damage, local, Alone!local, Alone!Next
<1> QED BY <1>1, <1>2 DEF Next

LEMMA UnseenByCommands ==
    ASSUME UNCHANGED <<disk, made, local, HeldByCommand>> PROVE UNCHANGED Alone!vars
BY DEF Alone!vars, Alone!disk, disk, Alone!local, local

\* `status' is no part of what commands do: whatever readers probe, hold up and report,
\* the run is written as by the commands alone (pipeline.py, Pipeline.status and
\* workspace.py, AdvisoryFileLock.is_held).
THEOREM ReadersAreTransparent == SpecWithReaders => ImplementsPipelineRun
<1>1. InitWithReaders => Alone!Init
  BY ReadAlike, ProcAssumption DEF InitWithReaders, Init, Alone!Init, HeldByCommand
<1>2. [NextWithReaders]_allVars => [Alone!Next]_(Alone!vars)
  <2>1. ASSUME NEW r \in Reader, ReaderStep(r) PROVE UNCHANGED Alone!vars
    BY <2>1, ProbesAreHidden, UnseenByCommands
  <2>2. CASE UNCHANGED allVars
    <3>1. UNCHANGED <<disk, made, local, lock>>
      BY <2>2 DEF allVars, vars
    <3> QED BY <3>1, LockAsSeen, UnseenByCommands
  <2> QED BY <2>1, <2>2, NextAlike DEF NextWithReaders
<1> QED BY <1>1, <1>2, PTL DEF SpecWithReaders, ImplementsPipelineRun, Alone!Spec

-----------------------------------------------------------------------------
(* Beside readers the commands keep what they promise.                     *)

\* What the commands' invariant says of everything but the lock's value.
ButForTheLock ==
    /\ /\ status \in [Stage -> Status]
       /\ inputFile \in [Stage -> Input \cup {NoInput}]
       /\ resultFile \in [Stage -> Nat]
       /\ damaged \subseteq Stage \X File
       /\ made \in Seq(Input)
       /\ pc \in [Proc -> PC]
       /\ cmd \in [Proc -> Command]
       /\ at \in [Proc -> Stage]
       /\ up \in [Proc -> Nat]
       /\ job \in [Proc -> Job]
    /\ Position /\ AtMostOneRunning /\ RunningIsMine /\ WritesInOrder
    /\ CommittedIntegrity /\ PrefixIsCommitted /\ PrefixIsFinished /\ ResolveComesFirst

\* Beside readers the lock may be one of theirs; whoever is in the middle of a command
\* has it nevertheless.
InvBesideReaders ==
    /\ lock \in Proc \cup Reader \cup {NoProc}
    /\ ButForTheLock /\ LockIsHeld /\ OwnsItsStage

\* Without a reader at the lock it is the commands' invariant.
LEMMA InvAlone == IInv <=> lock \in Proc \cup {NoProc} /\ InvBesideReaders
BY DEF IInv, TypeOK, InvBesideReaders, ButForTheLock

\* While a reader has the lock no command is at work, and none begins.
LEMMA ReaderAtTheLock ==
    ASSUME InvBesideReaders, lock \notin Proc \cup {NoProc}
    PROVE  /\ \A p \in Proc : pc[p] = "idle"
           /\ Next => \E s \in Damageable, f \in File : Damage(s, f)
<1>1. \A p \in Proc : pc[p] = "idle"
  BY DEF InvBesideReaders, LockIsHeld
<1>2. ASSUME NEW p \in Proc, Request(p) \/ Step(p) \/ Fault(p) PROVE FALSE
  BY <1>1, <1>2
  DEF Request, Begin, Step, Fault, ReconcileStage, Reconciled, LoadPredecessor,
      RejectPredecessor, UsePinnedResolve, RejectPinnedResolve, ReuseStage,
      StartStage, WriteRunning, WriteInput, ExecuteStage,
      WriteSucceeded, Commit, Finish, Crash, Abort, Guarded
<1> QED BY <1>1, <1>2 DEF Next

\* A step that leaves the files and the commands alone, and the lock as far as commands
\* have it.
LEMMA FilesStay ==
    ASSUME InvBesideReaders, lock' \in Proc \cup Reader \cup {NoProc},
           UNCHANGED <<status, inputFile, resultFile, made, local>>,
           damaged' \subseteq Stage \X File,
           lock' = lock \/ \A p \in Proc : pc[p] = "idle"
    PROVE  InvBesideReaders'
<1>1. ButForTheLock'
  BY DEF InvBesideReaders, ButForTheLock, local, Position, AtMostOneRunning, RunningIsMine,
         WritesInOrder, CommittedIntegrity, PrefixIsCommitted, PrefixIsFinished,
         ResolveComesFirst, InFlight, Guarded, AtStage, Linked, Prepared
<1>2. LockIsHeld' /\ OwnsItsStage'
  BY DEF InvBesideReaders, LockIsHeld, OwnsItsStage, local, InFlight
<1> QED BY <1>1, <1>2 DEF InvBesideReaders

LEMMA BesideReadersStep ==
    InvBesideReaders /\ [NextWithReaders]_allVars => InvBesideReaders'
<1> SUFFICES ASSUME InvBesideReaders, [NextWithReaders]_allVars PROVE InvBesideReaders'
  OBVIOUS
<1>1. damaged \subseteq Stage \X File /\ lock \in Proc \cup Reader \cup {NoProc}
  BY DEF InvBesideReaders, ButForTheLock
<1>2. ASSUME NEW r \in Reader, ReaderStep(r) PROVE InvBesideReaders'
  <2>1. UNCHANGED <<disk, made, local>>
    BY <1>2, ProbesAreHidden
  <2>2. lock' = lock \/ (lock \in {r, NoProc} /\ lock' \in {r, NoProc})
    BY <1>2 DEF ReaderStep, BeginStatus, ProbeTaken, ProbeFree, DropProbe, ReadStatus,
                Judge, EndStatus, vars
  <2>3. lock' = lock \/ \A p \in Proc : pc[p] = "idle"
    BY <2>2, ReaderAssumption, ProcAssumption DEF InvBesideReaders, LockIsHeld
  <2> QED BY <1>1, <2>1, <2>2, <2>3, FilesStay DEF disk
<1>3. CASE UNCHANGED allVars
  <2>1. UNCHANGED <<disk, made, local, lock>>
    BY <1>3 DEF allVars, vars
  <2> QED BY <1>1, <2>1, FilesStay DEF disk
<1>4. CASE Next /\ lock \in Proc \cup {NoProc}
  <2>1. IInv'
    BY <1>4, InvAlone, NextInv
  <2> QED BY <2>1 DEF IInv, TypeOK, InvBesideReaders, ButForTheLock
<1>5. CASE Next /\ lock \notin Proc \cup {NoProc}
  <2>1. PICK s \in Damageable, f \in File : Damage(s, f)
    BY <1>5, ReaderAtTheLock
  <2>2. UNCHANGED <<status, inputFile, resultFile, made, lock, local>>
        /\ damaged' \subseteq Stage \X File
    BY <1>1, <2>1, DamageableAssumption DEF Damage
  <2> QED BY <1>1, <2>2, FilesStay
<1> QED BY <1>2, <1>3, <1>4, <1>5 DEF NextWithReaders

LEMMA BesideReadersInit == InitWithReaders => InvBesideReaders
BY InitInv, InvAlone DEF InitWithReaders

\* What holds between the steps of a command holds between them and those of any
\* readers (workspace.py, AdvisoryFileLock).
THEOREM BesideReaders == SpecWithReaders => []InvBesideReaders
BY BesideReadersInit, BesideReadersStep, PTL DEF SpecWithReaders

\* Whatever readers probe and hold up, a SUCCEEDED record stands beside the files it
\* names, one stage at most is RUNNING, an attempt owns its record, and a command that
\* ends well leaves a chain (pipeline.py, _execute_stage beside Pipeline.status).
THEOREM PromisesKeptBesideReaders ==
    SpecWithReaders => [](/\ CommittedIntegrity /\ AtMostOneRunning
                          /\ OwnsItsStage /\ FinishedPrefixIsChained)
<1>1. InvBesideReaders => FinishedPrefixIsChained
  <2>1. CASE lock \in Proc \cup {NoProc}
    BY <2>1, InvAlone, FinishedIsChained
  <2>2. ASSUME InvBesideReaders, lock \notin Proc \cup {NoProc}
        PROVE  FinishedPrefixIsChained
    BY <2>2, ReaderAtTheLock DEF FinishedPrefixIsChained
  <2> QED BY <2>1, <2>2
<1>2. InvBesideReaders => CommittedIntegrity /\ AtMostOneRunning /\ OwnsItsStage
  BY DEF InvBesideReaders, ButForTheLock
<1> QED BY <1>1, <1>2, BesideReaders, PTL

\* A step that is seen in status.json is one of a command at work.
LEMMA WhoWrites ==
    ASSUME InvBesideReaders, [NextWithReaders]_allVars, status' # status
    PROVE  IInv /\ Next
<1>1. ASSUME NEW r \in Reader, ReaderStep(r) PROVE FALSE
  BY <1>1, ProbesAreHidden DEF disk
<1>2. Next
  BY <1>1 DEF NextWithReaders, allVars, vars, disk
<1>3. lock \in Proc \cup {NoProc}
  BY <1>2, ReaderAtTheLock DEF Damage
<1> QED BY <1>2, <1>3, InvAlone

\* A reader makes no checkpoint usable.
LEMMA StaleBesideReaders ==
    InvBesideReaders /\ StartsWhatIsStale /\ [NextWithReaders]_allVars => StartsWhatIsStale'
<1> SUFFICES ASSUME InvBesideReaders, StartsWhatIsStale, [NextWithReaders]_allVars
             PROVE  StartsWhatIsStale'
  OBVIOUS
<1>1. CASE UNCHANGED <<disk, made, local>>
  BY <1>1 DEF StartsWhatIsStale, Intact, disk, local
<1>2. CASE Next /\ lock \in Proc \cup {NoProc}
  BY <1>2, InvAlone, StaleInv
<1>3. CASE Next /\ lock \notin Proc \cup {NoProc}
  BY <1>3, ReaderAtTheLock DEF Damage, local, StartsWhatIsStale
<1> QED BY <1>1, <1>2, <1>3, ProbesAreHidden DEF NextWithReaders, allVars, vars

\* Nor does a probe, or the want of the lock while one is made, cost the run its pinned
\* version or a checkpoint that is still good (pipeline.py, _run_locked and
\* _execute_stage beside Pipeline.status).
THEOREM CheckpointsKeptBesideReaders ==
    SpecWithReaders => PinnedResolve /\ NoNeedlessExecution
<1>1. InvBesideReaders /\ [NextWithReaders]_allVars
         => [(\E s \in Stage \ {Resolve} : status[s].attempt > 0)
                => status'[Resolve] = status[Resolve]]_vars
  BY WhoWrites, ResolveIsKept DEF IsUsed
<1>2. SpecWithReaders => []StartsWhatIsStale
  <2>1. InitWithReaders => StartsWhatIsStale
    BY NothingStarts DEF InitWithReaders
  <2> QED BY <2>1, StaleBesideReaders, BesideReaders, PTL DEF SpecWithReaders
<1>3. InvBesideReaders /\ StartsWhatIsStale /\ [NextWithReaders]_allVars
         => [\A s \in Stage :
               status[s].state = "succeeded" /\ status'[s].state = "running"
                  => ~(Intact(s) /\ status[s].input = status'[s].input)]_vars
  <2> SUFFICES ASSUME InvBesideReaders, StartsWhatIsStale, [NextWithReaders]_allVars,
                      NEW s \in Stage,
                      status[s].state = "succeeded", status'[s].state = "running"
               PROVE  ~(Intact(s) /\ status[s].input = status'[s].input)
    OBVIOUS
  <2>1. status' # status
    OBVIOUS
  <2> QED BY <2>1, WhoWrites, ExecutionIsNeedful DEF IsNeedful
<1> QED
  BY <1>1, <1>2, <1>3, BesideReaders, PTL
  DEF SpecWithReaders, PinnedResolve, NoNeedlessExecution

=============================================================================
