---------------------------- MODULE MCVmLifecycle ----------------------------
(* Instances of VmLifecycle for TLC.                                       *)
EXTENDS VmLifecycle
=============================================================================
