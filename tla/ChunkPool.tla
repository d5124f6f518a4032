----------------------------- MODULE ChunkPool -----------------------------
(***************************************************************************)
(* The commands that hand the chunks of an index to a pool of goroutines:  *)
(* cache (Copy, copy.go), chop and make (ChopFile, chop.go), tar -i        *)
(* (ChunkStream, index.go) and verify-index (VerifyIndex, verifyindex.go). *)
(* The ones that store what they have read do so through a ChunkStorage    *)
(* (chunkstorage.go), which remembers the chunks it has dealt with.        *)
(*                                                                         *)
(* A chunk is its ID.  Job number i is chunk ids[i]; its input (the bytes  *)
(* of the file, the chunk in the source store) is right for i \in good.    *)
(***************************************************************************)
EXTENDS Integers, Sequences, FiniteSets

CONSTANTS
    Workers,        \* the n goroutines
    IDs,            \* chunks
    Commands,       \* the commands explored
    Inputs,         \* the sequences of chunks explored
    Bads,           \* the sets of jobs with a bad input explored
    BatchFactor,    \* batches a worker of VerifyIndex gets, 10 in the code
    MayFail,        \* requests to the stores and the tar goroutine may fail
    MayCancel       \* SIGINT may cancel the context

AllCommands == {"cache", "chop", "make", "tar", "verify-index"}

ASSUME WorkersAssumption == Workers # {} /\ IsFiniteSet(Workers)
ASSUME InputAssumption ==
    /\ Commands \subseteq AllCommands /\ Inputs \subseteq Seq(IDs)
    /\ BatchFactor \in Nat \ {0}
ASSUME FlagAssumption == MayFail \in BOOLEAN /\ MayCancel \in BOOLEAN

VARIABLES
    cmd, ids, good,
    has,        \* the chunks in the target store
    main,       \* where the command is: feed, wait, index, done
    fed,        \* the next job to hand out
    wpc,        \* where each worker is
    job,        \* the first and the last job it was given
    processed,  \* ChunkStorage.processed
    recorded,   \* the chunk numbers in the results of ChunkStream
    tarErr,     \* Tar failed, which ends the stream
    gErr,       \* a worker returned an error, which cancels the group
    cancelled,  \* the context of the command is cancelled
    published,  \* the index is stored
    result      \* what the command returned: none, nil, err

input   == <<cmd, ids, good>>
outcome == <<published, result>>
vars    == <<input, has, main, fed, wpc, job, processed, recorded, tarErr, gErr, cancelled,
             outcome>>

Jobs      == 1..Len(ids)
NoJob     == [first |-> 0, last |-> 0]
ctxDone   == cancelled \/ gErr
Chunk(w)  == ids[job[w].first]
Goto(w, l) == wpc' = [wpc EXCEPT ![w] = l]

-----------------------------------------------------------------------------
(* The main goroutine.                                                     *)

\* VerifyIndex hands out batches, the others single chunks.
Batch == IF cmd = "verify-index" THEN Len(ids) \div (Cardinality(Workers) * BatchFactor) ELSE 0

\* The last job of the batch that starts with i.  Mutant: not cut off at the
\* end of the index.
LastUncut(i) == i + Batch
LastOf(i) == IF i + Batch > Len(ids) THEN Len(ids) ELSE i + Batch

\* A worker receives the next job.
Feed(w) ==
    /\ main = "feed" /\ fed <= Len(ids)
    /\ wpc[w] = "idle"
    /\ job' = [job EXCEPT ![w] = [first |-> fed, last |-> LastOf(fed)]]
    /\ fed' = LastOf(fed) + 1
    /\ Goto(w, IF cmd = "cache" THEN "has" ELSE "read")
    /\ UNCHANGED <<input, has, main, processed, recorded, tarErr, gErr, cancelled, outcome>>

\* The feeder gives up.  Mutant: only when it is interrupted.
StopIfCancelled == cancelled
StopFeeding     == ctxDone

\* Everything is handed out, or the context is done: close the channel.
FeedEnd ==
    /\ main = "feed"
    /\ fed > Len(ids) \/ StopFeeding
    /\ main' = "wait"
    /\ UNCHANGED <<input, has, fed, wpc, job, processed, recorded, tarErr, gErr, cancelled,
                   outcome>>

\* Tar fails and closes the pipe, so the chunker sees the end of the stream.
\* After an interrupt it may do so while the workers are waited for.
TarFails ==
    /\ MayFail /\ cmd = "tar" /\ ~tarErr
    /\ main = "feed" \/ (main = "wait" /\ cancelled)
    /\ tarErr' = TRUE
    /\ main' = "wait"
    /\ UNCHANGED <<input, has, fed, wpc, job, processed, recorded, gErr, cancelled, outcome>>

\* The chunker of ChunkStream fails, which returns at once; or the size of
\* the file is not that of the index (VerifyIndex), or it cannot be opened.
ReturnEarly ==
    /\ MayFail /\ main = "feed"
    /\ cmd = "tar" \/ (cmd \in {"chop", "make", "verify-index"} /\ fed = 1)
    /\ main' = "done" /\ result' = "err"
    /\ UNCHANGED <<input, has, fed, wpc, job, processed, recorded, tarErr, gErr, cancelled,
                   published>>

\* g.Wait returns the error of the group; tar looks at the error of Tar next.
\* make and tar go on to store the index.
WaitWorkers ==
    /\ main = "wait"
    /\ \A w \in Workers : wpc[w] \in {"exit", "fail"}
    /\ \/ /\ gErr \/ tarErr
          /\ main' = "done" /\ result' = "err"
       \/ /\ ~gErr /\ ~tarErr /\ cmd \in {"make", "tar"}
          /\ main' = "index" /\ UNCHANGED result
       \/ /\ ~gErr /\ ~tarErr /\ cmd \notin {"make", "tar"}
          /\ main' = "done" /\ result' = "nil"
    /\ UNCHANGED <<input, has, fed, wpc, job, processed, recorded, tarErr, gErr, cancelled,
                   published>>

StoreIndex ==
    /\ main = "index"
    /\ main' = "done"
    /\ \/ published' = TRUE /\ result' = "nil"
       \/ MayFail /\ result' = "err" /\ UNCHANGED published
    /\ UNCHANGED <<input, has, fed, wpc, job, processed, recorded, tarErr, gErr, cancelled>>

-----------------------------------------------------------------------------
(* The workers.                                                            *)

\* A worker returns an error.
Fails(w) == Goto(w, "fail") /\ gErr' = TRUE /\ job' = [job EXCEPT ![w] = NoJob]
\* A worker is ready for the next job.
Finishes(w) == Goto(w, "idle") /\ job' = [job EXCEPT ![w] = NoJob] /\ UNCHANGED gErr

\* readChunkFromFile and fileSeedSegment.Validate compare the bytes with the
\* index; ChunkStream computes the ID and records it as a row of the index.
Read(w) ==
    /\ wpc[w] = "read"
    /\ LET inputs == job[w].first..job[w].last
       IN  \/ /\ cmd # "tar" /\ ~(inputs \subseteq good)
              /\ Fails(w) /\ UNCHANGED recorded
           \/ /\ cmd = "verify-index" /\ inputs \subseteq good
              /\ Finishes(w) /\ UNCHANGED recorded
           \/ /\ cmd \in {"chop", "make"} /\ inputs \subseteq good
              /\ Goto(w, "mark") /\ UNCHANGED <<recorded, job, gErr>>
           \/ /\ cmd = "tar"
              /\ recorded' = recorded \cup inputs
              /\ Goto(w, "mark") /\ UNCHANGED <<job, gErr>>
    /\ UNCHANGED <<input, has, main, fed, processed, tarErr, cancelled, outcome>>

\* What markProcessed leaves behind.  Mutant: nothing.
MarkNothing(id) == processed
WithMark(id)    == processed \cup {id}

\* ChunkStorage.markProcessed, under the lock: somebody else has the chunk,
\* or it is this worker's.
MarkProcessed(w) ==
    /\ wpc[w] = "mark"
    /\ processed' = WithMark(Chunk(w))
    /\ \/ Chunk(w) \in processed /\ Finishes(w)
       \/ Chunk(w) \notin processed /\ Goto(w, "has") /\ UNCHANGED <<job, gErr>>
    /\ UNCHANGED <<input, has, main, fed, recorded, tarErr, cancelled, outcome>>

\* The answer of HasChunk that ends the job without an error.  Mutant: an
\* error is taken for "has it".
HasOrError(answer) == answer \in {"yes", "error"}
HasIt(answer)      == answer = "yes"

\* HasChunk of the target store.  After an error the chunk stays marked.
HasChunk(w) ==
    /\ wpc[w] = "has"
    /\ \E answer \in {IF Chunk(w) \in has THEN "yes" ELSE "no"}
                     \cup (IF MayFail THEN {"error"} ELSE {}) :
          \/ HasIt(answer) /\ Finishes(w)
          \/ ~HasIt(answer) /\ answer = "error" /\ Fails(w)
          \/ /\ ~HasIt(answer) /\ answer = "no"
             /\ Goto(w, IF cmd = "cache" THEN "get" ELSE "store") /\ UNCHANGED <<job, gErr>>
    /\ UNCHANGED <<input, has, main, fed, processed, recorded, tarErr, cancelled, outcome>>

\* Copy: get the chunk from the source store.
GetChunk(w) ==
    /\ wpc[w] = "get"
    /\ \/ job[w].first \in good /\ Goto(w, "store") /\ UNCHANGED <<job, gErr>>
       \/ /\ MayFail \/ job[w].first \notin good
          /\ Fails(w)
    /\ UNCHANGED <<input, has, main, fed, processed, recorded, tarErr, cancelled, outcome>>

\* StoreChunk of the target store.  One that fails may have stored the chunk;
\* ChunkStorage then takes back its mark.
StoreChunk(w) ==
    /\ wpc[w] = "store"
    /\ \/ has' = has \cup {Chunk(w)} /\ Finishes(w)
       \/ /\ MayFail
          /\ has' \in {has, has \cup {Chunk(w)}}
          /\ IF cmd = "cache" THEN Fails(w) ELSE Goto(w, "unmark") /\ UNCHANGED <<job, gErr>>
    /\ UNCHANGED <<input, main, fed, processed, recorded, tarErr, cancelled, outcome>>

UnmarkProcessed(w) ==
    /\ wpc[w] = "unmark"
    /\ processed' = processed \ {Chunk(w)}
    /\ Fails(w)
    /\ UNCHANGED <<input, has, main, fed, recorded, tarErr, cancelled, outcome>>

\* The channel is closed.
Exit(w) ==
    /\ wpc[w] = "idle" /\ main \in {"wait", "index"}
    /\ Goto(w, "exit")
    /\ UNCHANGED <<input, has, main, fed, job, processed, recorded, tarErr, gErr, cancelled,
                   outcome>>

Cancel ==
    /\ MayCancel /\ ~cancelled /\ main # "done"
    /\ cancelled' = TRUE
    /\ UNCHANGED <<input, has, main, fed, wpc, job, processed, recorded, tarErr, gErr, outcome>>

-----------------------------------------------------------------------------

\* The cache command has removed duplicates.
Init ==
    /\ cmd \in Commands /\ ids \in Inputs
    /\ cmd = "cache" => \A i, j \in Jobs : ids[i] = ids[j] => i = j
    /\ good \in {Jobs \ b : b \in Bads}
    /\ has \in SUBSET IDs
    /\ main = "feed" /\ fed = 1
    /\ wpc = [w \in Workers |-> "idle"]
    /\ job = [w \in Workers |-> NoJob]
    /\ processed = {} /\ recorded = {}
    /\ tarErr = FALSE /\ gErr = FALSE /\ cancelled = FALSE
    /\ published = FALSE /\ result = "none"

Worker(w) == Read(w) \/ MarkProcessed(w) \/ HasChunk(w) \/ GetChunk(w) \/ StoreChunk(w)
             \/ UnmarkProcessed(w) \/ Exit(w)
Main == FeedEnd \/ TarFails \/ ReturnEarly \/ WaitWorkers \/ StoreIndex
        \/ \E w \in Workers : Feed(w)

Ended == main = "done" /\ UNCHANGED vars

Next == Main \/ (\E w \in Workers : Worker(w)) \/ Cancel \/ Ended

\* Goroutines that can run do, and requests return.
Fairness == WF_vars(Main) /\ \A w \in Workers : WF_vars(Worker(w))

Spec == Init /\ [][Next]_vars /\ Fairness

-----------------------------------------------------------------------------
(* Properties.                                                             *)

\* Every variable keeps its type.
TypeOK ==
    /\ cmd \in AllCommands /\ ids \in Seq(IDs) /\ good \subseteq Jobs
    /\ has \subseteq IDs /\ processed \subseteq IDs /\ recorded \subseteq Jobs
    /\ main \in {"feed", "wait", "index", "done"}
    /\ fed \in 1..(Len(ids) + 1)
    /\ wpc \in [Workers -> {"idle", "read", "mark", "has", "get", "store", "unmark",
                            "exit", "fail"}]
    /\ job \in [Workers -> [first : 0..Len(ids), last : 0..Len(ids)]]
    /\ tarErr \in BOOLEAN /\ gErr \in BOOLEAN /\ cancelled \in BOOLEAN
    /\ published \in BOOLEAN /\ result \in {"none", "nil", "err"}

\* A command that succeeds without an interrupt has done all of its work,
\* although a worker takes a chunk that another one has marked for stored:
\* every chunk is in the target store, an index of ChunkStream has a row for
\* every chunk, and a verified file matches its index everywhere.
SuccessMeansDone ==
    result = "nil" /\ ~cancelled =>
        /\ cmd # "verify-index" => \A i \in Jobs : ids[i] \in has
        /\ cmd = "verify-index" => good = Jobs
        /\ cmd = "tar" => recorded = Jobs

\* "so no other goroutine will attempt to store it at the same time"
\* (chunkstorage.go:46-47): no chunk is being stored by two workers, also
\* when a failed one is tried again.
OneWriterPerChunk ==
    \A v, w \in Workers :
        v # w /\ wpc[v] \in {"has", "store", "unmark"} /\ wpc[w] \in {"has", "store", "unmark"}
            => Chunk(v) # Chunk(w)

\* The command returns, whatever fails: the feeder does not wait for workers
\* that have all failed.
Terminates == <>(main = "done")

-----------------------------------------------------------------------------
(* The inductive invariant.                                                *)

AtRest(w)  == wpc[w] \in {"idle", "exit", "fail"}
Storing(w) == wpc[w] \in {"has", "store", "unmark"}
Stores     == cmd \in {"chop", "make", "tar"}

\* A busy worker has jobs that were handed out, one unless it verifies.  What
\* it may be doing depends on the command.
JobInv ==
    \A w \in Workers :
        /\ ~AtRest(w) => /\ 1 <= job[w].first /\ job[w].first <= job[w].last /\ job[w].last < fed
                         /\ cmd # "verify-index" => job[w].first = job[w].last
        /\ wpc[w] \in {"mark", "unmark"} => Stores
        /\ wpc[w] = "get" => cmd = "cache"
        /\ wpc[w] \in {"has", "store"} => cmd # "verify-index"
        /\ wpc[w] = "fail" => gErr

\* No job is handed out twice.
DisjointInv ==
    \A v, w \in Workers : v # w /\ ~AtRest(v) /\ ~AtRest(w) =>
        job[v].last < job[w].first \/ job[w].last < job[v].first

\* A chunk is marked while somebody stores it, and then it is in the store,
\* unless somebody failed.
MarkInv ==
    /\ \A w \in Workers : Stores /\ Storing(w) => Chunk(w) \in processed
    /\ processed # {} => Stores
    /\ \A id \in processed :
          gErr \/ id \in has \/ \E w \in Workers : Storing(w) /\ Chunk(w) = id

\* cache handles every chunk once.
DistinctInv == cmd = "cache" => \A i, j \in Jobs : ids[i] = ids[j] => i = j

\* Job i needs no more work.
Handled(i) ==
    /\ cmd = "verify-index" => i \in good
    /\ cmd = "cache" => ids[i] \in has
    /\ Stores => ids[i] \in processed
    /\ cmd = "tar" => i \in recorded

\* Of the jobs handed out each is being worked on or was dealt with, unless
\* somebody failed.
HandledInv ==
    \A i \in 1..(fed - 1) :
        \/ gErr \/ Handled(i)
        \/ \E w \in Workers : ~AtRest(w) /\ i \in job[w].first..job[w].last
\* A worker of tar that has read its chunk has recorded it.
RecordInv ==
    \A w \in Workers :
        cmd = "tar" /\ ~AtRest(w) /\ wpc[w] # "read" => job[w].first \in recorded

\* Why the main goroutine is where it is.
PhaseInv ==
    /\ main = "wait" => fed > Len(ids) \/ ctxDone \/ tarErr
    /\ main = "index" \/ result = "nil" =>
          /\ fed > Len(ids) \/ cancelled
          /\ ~gErr /\ \A w \in Workers : wpc[w] = "exit"
    /\ result = "nil" => main = "done"

PoolInv ==
    /\ TypeOK /\ JobInv /\ DisjointInv /\ DistinctInv
    /\ MarkInv /\ OneWriterPerChunk /\ HandledInv /\ RecordInv /\ PhaseInv

=============================================================================
