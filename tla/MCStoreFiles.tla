---------------------------- MODULE MCStoreFiles ----------------------------
EXTENDS StoreFiles

JobOf(k, o, keep, r, other) ==
    [kind |-> k, op |-> o, keep |-> keep, repair |-> r, other |-> other,
     uncompressed |-> FALSE, skipVerify |-> FALSE]

\* The same under a config that says so.
Uncompressed(j) == [j EXCEPT !.uncompressed = TRUE]
SkipVerify(j)   == [j EXCEPT !.skipVerify = TRUE]

MCJobs ==
    {JobOf("local", "prune", {1}, FALSE, {2}), JobOf("sftp", "prune", {}, FALSE, {1}),
     JobOf("s3", "prune", {1}, FALSE, {}), JobOf("gcs", "prune", {2}, FALSE, {}),
     JobOf("local", "verify", {}, TRUE, {}), JobOf("local", "verify", {}, FALSE, {1}),
     Uncompressed(JobOf("sftp", "prune", {}, FALSE, {1})),
     SkipVerify(JobOf("local", "verify", {}, TRUE, {}))}

\* Everything is there; a chunk that is missing and a bad one.
MCContents == {<<"good", "good">>, <<"none", "bad">>}
\* Both store the same chunk, or each another one.
MCToStore == {<<1, 1>>, <<1, 2>>}
=============================================================================
