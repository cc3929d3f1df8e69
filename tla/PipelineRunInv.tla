--------------------------- MODULE PipelineRunInv ---------------------------
(***************************************************************************)
(* The inductive invariant of PipelineRun: what holds at every step of a   *)
(* command, and why the properties hold however the command ends.          *)
(***************************************************************************)
EXTENDS PipelineRun

\* Where a command knows the stage it works on and that stage's predecessor.
AtStage == {"stage"} \cup Guarded

\* Only the holder of the lock is in the middle of a command.
LockIsHeld == \A p \in Proc : pc[p] # "idle" => lock = p

\* The position of a command makes sense: it has not passed its `until', and a
\* direct resume has a predecessor to read.
Position ==
    \A p \in Proc :
        /\ cmd[p].mode = "direct" => cmd[p].until # Resolve
        /\ pc[p] = "predecessor" => cmd[p].mode = "direct"
        /\ pc[p] \in {"idle", "reconcile"} => at[p] = Resolve /\ up[p] = NoResult
        /\ pc[p] # "idle" => at[p] <= cmd[p].until
        /\ pc[p] = "finish" => at[p] = cmd[p].until
        /\ pc[p] \in AtStage /\ cmd[p].mode = "direct" => at[p] = cmd[p].until

\* Past reconciliation a RUNNING record is the one of the command under way.
RunningIsMine ==
    \A p \in Proc : pc[p] \notin {"idle", "reconcile"} =>
        \A s \in Stage : status[s].state = "running"
                            => pc[p] \in InFlight /\ at[p] = s

\* What the command in flight has written so far.
WritesInOrder ==
    \A p \in Proc :
        /\ pc[p] \in Guarded =>
              job[p].input = Prepared(p) /\ job[p].attempt > 0
        /\ pc[p] \in {"execute", "written"} =>
              inputFile[at[p]] = job[p].input
        /\ pc[p] = "written" =>
              /\ resultFile[at[p]] = job[p].result
              /\ job[p].result \in DOMAIN made
              /\ made[job[p].result] = job[p].input
        /\ pc[p] = "committing" =>
              status[at[p]] = [state |-> "succeeded",
                                       attempt |-> job[p].attempt,
                                       input |-> job[p].input,
                                       result |-> job[p].result]

\* The stages behind the command are committed; its upstream is the result of
\* the last of them, and, with checks, each of them fits the one before.
PrefixIsCommitted ==
    \A p \in Proc : pc[p] \in AtStage =>
        /\ \A t \in Stage : t < at[p] => status[t].state = "succeeded"
        /\ \A t \in Stage \ {Resolve} :
              t < at[p] /\ cmd[p].mode = "full" => Linked(t, cmd[p].build)
        /\ up[p] = IF at[p] = Resolve THEN NoResult
                        ELSE status[at[p] - 1].result

PrefixIsFinished ==
    \A p \in Proc : pc[p] = "finish" =>
        /\ \A t \in Stage : t <= cmd[p].until => status[t].state = "succeeded"
        /\ \A t \in Stage \ {Resolve} :
              /\ t <= cmd[p].until
              /\ cmd[p].mode = "full" \/ t = cmd[p].until
              => Linked(t, cmd[p].build)

\* No later stage is attempted before the resolve is committed, and a command
\* works on the resolve only as long as none has been.
ResolveComesFirst ==
    /\ \A s \in Stage : status[s].state # "pending" => status[s].attempt > 0
    /\ \A s \in Stage \ {Resolve} :
          status[s].attempt > 0 => status[Resolve].state = "succeeded"
    /\ \A p \in Proc : pc[p] \in Guarded /\ at[p] = Resolve =>
          \A s \in Stage \ {Resolve} : status[s].attempt = 0
    /\ \A p \in Proc : pc[p] = "start" /\ at[p] = Resolve =>
          status[Resolve].state # "succeeded"

IInv ==
    /\ TypeOK
    /\ LockIsHeld
    /\ Position
    /\ AtMostOneRunning
    /\ RunningIsMine
    /\ OwnsItsStage
    /\ WritesInOrder
    /\ CommittedIntegrity
    /\ PrefixIsCommitted
    /\ PrefixIsFinished
    /\ ResolveComesFirst

=============================================================================
