---------------------------- MODULE MCReleaseCycle ----------------------------
(* Instances of ReleaseCycle for TLC.                                      *)
EXTENDS ReleaseCycle
=============================================================================
