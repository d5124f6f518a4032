----------------------------- MODULE MCAssemble -----------------------------
(* Instances of Assemble for TLC: indexes with repeated chunks and null     *)
(* chunks, and seeds that hold parts of them, are stale, or too short.      *)
EXTENDS Assemble, TLC

CONSTANTS a, b, nul

MCChunkIDs == {a, b, nul}

Invocations(indexes, modes, actions, seeds) ==
    {[idx |-> i, mode |-> m, action |-> x, caibx |-> <<s[1]>>, blob |-> <<s[2]>>] :
        i \in indexes, m \in modes, x \in actions, s \in seeds}

\* A seed without chunks: a repeated chunk, a null chunk and an empty index,
\* over whatever is there.
MCUnseeded == Invocations({<<a, b, a>>, <<nul, a, nul, a>>, <<>>},
                          {"inplace", "device", "tmp"}, {"BailOut"}, {<<<<>>, <<>>>>})

\* A seed with the middle of the index, whose index is right or stale.
MCSeeded == Invocations({<<a, b, a, a>>, <<b, nul, a>>}, {"tmp"}, Actions,
                        {<<<<b, a>>, <<b, a>>>>, <<<<a, b>>, <<Junk, b>>>>})
            \cup Invocations({<<a, b, a>>}, {"inplace"}, {"Skip"}, {<<<<b, a>>, <<b, a>>>>})
MCOptions == MCUnseeded \cup MCSeeded
MCBlobs   == {<<Junk, a>>, <<b>>}

\* Two seeds, one of them stale: plans of several attempts.
MCTwoSeeds ==
    {[idx |-> <<a, b, a, b>>, mode |-> "inplace", action |-> x,
      caibx |-> <<<<a, b, a>>, <<b, a>>>>, blob |-> <<s, <<b, a>>>>] :
        x \in Actions, s \in {<<a, Junk, a>>, <<a, b, a>>}}

\* The least that an interrupt can leave undone.
MCInterrupted == Invocations({<<a, b>>}, {"tmp"}, {"BailOut"}, {<<<<>>, <<>>>>})

MCSymmetry     == Permutations(Workers)
MCInitContents == {a, nul, Junk, NoData}
MCOldContents  == {a, Junk}
=============================================================================
