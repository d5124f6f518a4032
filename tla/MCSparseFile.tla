---------------------------- MODULE MCSparseFile ----------------------------
(* Instances of SparseFile for TLC: two chunks with a null chunk between    *)
(* them, of different sizes.                                                *)
EXTENDS SparseFile, TLC

CONSTANTS a, b, nul

MCIndex   == {<<a, nul, b>>}
MCSizes   == <<2, 1, 1>>
=============================================================================
