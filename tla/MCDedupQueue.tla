---------------------------- MODULE MCDedupQueue ----------------------------
(* Instances of DedupQueue for TLC.                                         *)
EXTENDS DedupQueue
=============================================================================
