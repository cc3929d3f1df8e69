---------------------------- MODULE MCStatusReader ----------------------------
(* Instances of StatusReader for TLC.                                      *)
EXTENDS StatusReader

CONSTANTS v1

OneBuild == {[s \in 1..NumStages |-> v1]}

=============================================================================
