---------------------------- MODULE MCChunkPool ----------------------------
(* Instances of ChunkPool for TLC: repeated chunks, and a bad input at any   *)
(* place or nowhere.                                                        *)
EXTENDS ChunkPool

CONSTANTS a, b, c

MCIDs    == {a, b, c}
MCInputs == {<<a, b, a>>, <<a, a, b>>, <<a, b, c, a>>, <<b, a>>, <<>>}
MCBads   == {{}, {1}, {2}, {4}}
=============================================================================
