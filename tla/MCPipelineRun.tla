---------------------------- MODULE MCPipelineRun ----------------------------
(* Instances of PipelineRun for TLC.                                       *)
EXTENDS PipelineRunInv, TLC

CONSTANTS v1, v2

\* Two programs that differ in the version of every stage from the second on.
OneBuild == {[s \in 1..NumStages |-> v1]}
TwoBuilds == {[s \in 1..NumStages |-> v1],
              [s \in 1..NumStages |-> IF s = 1 THEN v1 ELSE v2]}

AllStages == 1..NumStages
ProcSymmetry == Permutations(Proc)

=============================================================================
