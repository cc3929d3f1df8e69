----------------------------- MODULE PinnedChain -----------------------------
(***************************************************************************)
(* What a run promises, without files, processes or locks: a line of       *)
(* committed results.  A stage commits a result only if it was computed    *)
(* from the result its predecessor has committed at that moment.  A commit *)
(* may be withdrawn, to be replaced, but the first one, the resolved game  *)
(* version, never while a later stage is committed.                        *)
(***************************************************************************)
EXTENDS Naturals, Sequences

CONSTANTS NumStages, Version

VARIABLES
    commit,   \* the committed result of each stage, 0 for none
    made      \* made[r] is the input that result r was computed from

Stage == 1..NumStages
Input == [stage : Stage, version : Version, upstream : 0..Len(made)]
vars == <<commit, made>>

Init ==
    /\ commit = [s \in Stage |-> 0]
    /\ made = << >>

\* Somebody computes a result.
Produce(i) ==
    /\ made' = Append(made, i)
    /\ UNCHANGED commit

\* A result may stand at stage s, given what its predecessor has committed.
Fits(r, s) ==
    /\ r \in DOMAIN made
    /\ made[r].stage = s
    /\ made[r].upstream = IF s = 1 THEN 0 ELSE commit[s - 1]
    /\ s > 1 => commit[s - 1] # 0

CommitStage(s, r) ==
    /\ commit[s] = 0
    /\ Fits(r, s)
    /\ commit' = [commit EXCEPT ![s] = r]
    /\ UNCHANGED made

Withdraw(s) ==
    /\ commit[s] # 0
    /\ s = 1 => \A t \in Stage \ {1} : commit[t] = 0
    /\ commit' = [commit EXCEPT ![s] = 0]
    /\ UNCHANGED made

Next ==
    \/ \E i \in Input : Produce(i)
    \/ \E s \in Stage : Withdraw(s) \/ \E r \in DOMAIN made : CommitStage(s, r)

Spec == Init /\ [][Next]_vars

=============================================================================
