-------------------------- MODULE MCParallelChunk --------------------------
(* Instances of ParallelChunk for TLC: files of seven bytes with all ways   *)
(* to cut after the first chunk of three bytes, files with a long run of    *)
(* zeros, and files that cannot be read.                                    *)
EXTENDS ParallelChunk, TLC

z == "zero"
d == "data"
c == "cut"

\* Thirteen bytes, so that the goroutines start four bytes apart and their
\* null chunks of three bytes do not line up.
Zeros(k) == [i \in 1..k |-> z]
MCZeroFiles  == {<<d, c>> \o Zeros(9) \o <<c, d>>}

\* Zeros and a tail that is one chunk for the second goroutine and two for the
\* others.
MCShortTail  == {<<d, c>> \o Zeros(8) \o <<d, d>>}
MCSmallFiles == {<<d, d, d>> \o f \o <<d>> : f \in [1..3 -> {d, c}]}

MCInterruptible == {<<>>, <<d>>, <<d, d, d, c, c, d, d>>}
MCFaulty        == {<<>>, <<d>>, <<d, d, d, c, c, d, d>>, Zeros(13)}
MCFiles         == MCSmallFiles \cup MCZeroFiles \cup MCShortTail \cup MCFaulty
=============================================================================
