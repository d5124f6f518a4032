------------------------------ MODULE ChunkSet ------------------------------
(***************************************************************************)
(* What a chunk store is to the processes that share it, whatever files,   *)
(* temporary files and connections it is made of: a set of chunks in which *)
(* each of them is stored at once or not at all.  A StoreChunk that        *)
(* returns nil has stored the chunk when it returns.  One that fails may   *)
(* have stored it, but only if something went wrong; otherwise it fails    *)
(* only because a Prune swept the store.  A chunk goes only when it is     *)
(* doomed: Prune does not keep it, or Verify found it invalid, and without *)
(* trouble Verify finds only bad ones.  Each writer stores one chunk.      *)
(***************************************************************************)
CONSTANTS Ids, Writers

VARIABLES
    chunk,      \* id -> "none", "good" or "bad"
    put,        \* writer -> [id, result]: what it stores, "open", "ok" or "failed"
    doomed,     \* chunks that may be removed
    sweeping,   \* a Prune that also removes temporary files has begun
    trouble     \* something failed, was killed or damaged

vars == <<chunk, put, doomed, sweeping, trouble>>

Init ==
    /\ chunk \in [Ids -> {"none", "good", "bad"}]
    /\ put \in [Writers -> [id : Ids, result : {"open"}]]
    /\ doomed = {} /\ sweeping = FALSE /\ trouble = FALSE

Return(w, r) == put[w].result = "open" /\ put' = [put EXCEPT ![w].result = r]

Store(w) ==
    /\ \/ Return(w, "ok") /\ UNCHANGED trouble
       \/ Return(w, "failed") /\ trouble' = TRUE
    /\ chunk' = [chunk EXCEPT ![put[w].id] = "good"]
    /\ UNCHANGED <<doomed, sweeping>>

Fail(w) ==
    /\ Return(w, "failed")
    /\ trouble' = TRUE \/ (sweeping /\ UNCHANGED trouble)
    /\ UNCHANGED <<chunk, doomed, sweeping>>

\* A Prune begins.
Prune ==
    /\ doomed = {} /\ ~sweeping
    /\ doomed' \in SUBSET Ids /\ sweeping' \in BOOLEAN
    /\ UNCHANGED <<chunk, put, trouble>>

\* Verify reports a chunk.
Report(id) ==
    /\ \/ chunk[id] = "bad" /\ UNCHANGED trouble
       \/ chunk[id] = "good" /\ trouble' = TRUE
    /\ doomed' = doomed \cup {id}
    /\ UNCHANGED <<chunk, put, sweeping>>

Remove(id) ==
    /\ id \in doomed
    /\ chunk' = [chunk EXCEPT ![id] = "none"]
    /\ UNCHANGED <<put, doomed, sweeping, trouble>>

Damage(id) ==
    /\ chunk[id] = "good" /\ chunk' = [chunk EXCEPT ![id] = "bad"]
    /\ trouble' = TRUE
    /\ UNCHANGED <<put, doomed, sweeping>>

GoWrong == trouble' = TRUE /\ UNCHANGED <<chunk, put, doomed, sweeping>>

Next ==
    \/ \E w \in Writers : Store(w) \/ Fail(w)
    \/ \E id \in Ids : Report(id) \/ Remove(id) \/ Damage(id)
    \/ Prune \/ GoWrong

Spec == Init /\ [][Next]_vars
=============================================================================
