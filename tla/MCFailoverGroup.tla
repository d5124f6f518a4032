-------------------------- MODULE MCFailoverGroup --------------------------
(* Instances of FailoverGroup for TLC: no store keeps working, or only the  *)
(* last one in the rotation does.                                           *)
EXTENDS FailoverGroup

MCReliable == {{}, {N - 1}}
=============================================================================
