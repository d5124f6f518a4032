----------------------------- MODULE StoreFiles -----------------------------
(***************************************************************************)
(* The chunk files of a store: StoreChunk writes them, Prune and Verify go *)
(* through them, by several desync processes at the same time, any of      *)
(* which can be killed.  The store is local (local.go), sftp (sftp.go), s3 *)
(* (s3.go) or gcs (gcs.go).                                                *)
(*                                                                         *)
(* Local and sftp stores have one directory per prefix of an id, here one  *)
(* per chunk; it holds the chunk, temporary files of writers, and files in *)
(* the other of the two formats, compressed and uncompressed.  Objects of  *)
(* s3 and gcs are replaced atomically and listed page by page; a page is   *)
(* treated as a directory.                                                 *)
(***************************************************************************)
EXTENDS Integers, Sequences, FiniteSets

CONSTANTS
    Ids,
    Writers,        \* processes that store a chunk each
    ToStore,        \* functions from writers to the chunks they store
    Jobs,           \* [kind, op, keep, repair, other, uncompressed, skipVerify]:
                    \* a store, "prune" or "verify", which chunks to keep,
                    \* whether to remove bad ones, directories with a file of
                    \* the other format, and what the config says of the store
    Contents,       \* what the chunk files can hold at first
    N,              \* workers of Verify, connections of an sftp store
    MaxFaults       \* kills, failing operations, unreadable and damaged files

ASSUME NAssumption == N \in Nat \ {0, 1}
ASSUME MaxFaultsAssumption == MaxFaults \in Nat
ASSUME IdsAssumption == Ids \subseteq Nat
ASSUME ToStoreAssumption == ToStore \subseteq [Writers -> Ids]
ASSUME ContentsAssumption == Contents \subseteq [Ids -> {"none", "good", "bad"}]
ASSUME JobsAssumption ==
    \A j \in Jobs : /\ j.kind \in {"local", "sftp", "s3", "gcs"} /\ j.op \in {"prune", "verify"}
                    /\ j.op = "verify" => j.kind = "local"
                    /\ j.uncompressed \in BOOLEAN /\ j.skipVerify \in BOOLEAN

VARIABLES
    job,        \* the job, unchanged
    file,       \* chunk -> "none", "good" or "bad": its file
    tmp,        \* writer -> "none", "part" or "whole": its temporary file
    writer,     \* writer -> [at, id]
    at,         \* the job: "idle", "connect", "walk", "remove", "ok", "error",
                \* "interrupted" or "killed"
    dirs,       \* directories that it has not read
    names,      \* files of the present one that it has not looked at
    conns,      \* free connections of its pool
    worker,     \* worker of Verify -> [at, id]
    reported,   \* chunks that Verify reported as invalid
    left,       \* files that could not be removed, which the job ignored
    interrupted,
    atStart,    \* files when the job began
    fresh,      \* chunks that were written since
    damaged,    \* chunks that were damaged
    faults

walkVars  == <<at, dirs, names, conns, worker, reported, left>>
storeVars == <<file, tmp, fresh>>
histVars  == <<job, interrupted, atStart, damaged>>
vars      == <<job, file, tmp, writer, at, dirs, names, conns, worker, reported, left,
               interrupted, atStart, fresh, damaged, faults>>

Workers == 1..N
HasDirs == job.kind \in {"local", "sftp"}
Ended   == {"ok", "error", "interrupted", "killed"}

\* Files are named by what they are and whose.
Chunk(id) == <<"chunk", id>>
Tmp(w)    == <<"tmp", w>>
Other(id) == <<"other", id>>

Exists(n) ==
    CASE n[1] = "chunk" -> file[n[2]] # "none"
      [] n[1] = "tmp"   -> tmp[n[2]] # "none"
      [] n[1] = "other" -> TRUE

InDir(id) ==
    {n \in {Chunk(id)} \cup {Tmp(w) : w \in {x \in Writers : writer[x].id = id}}
           \cup {Other(id) : x \in {id} \cap job.other} : Exists(n)}

Init ==
    /\ job \in Jobs
    /\ file \in Contents
    /\ tmp = [w \in Writers |-> "none"]
    /\ \E ids \in ToStore : writer = [w \in Writers |-> [at |-> "idle", id |-> ids[w]]]
    /\ at = "idle" /\ dirs = {} /\ names = {} /\ conns = N
    /\ worker = [k \in Workers |-> [at |-> "idle", id |-> 0]]
    /\ reported = {} /\ left = {} /\ interrupted = FALSE
    /\ atStart = [file |-> file, tmp |-> tmp] /\ fresh = {}
    /\ damaged = {id \in Ids : file[id] = "bad"}
    /\ faults = 0

Fault == faults < MaxFaults /\ faults' = faults + 1

-----------------------------------------------------------------------------
(* StoreChunk.                                                             *)

WriterAt(w, a) == writer' = [writer EXCEPT ![w].at = a]

\* The chunk is in the store under its name.
Put(w) == /\ file' = [file EXCEPT ![writer[w].id] = "good"]
          /\ fresh' = fresh \cup {writer[w].id}

\* LocalStore and SFTPStoreBase.StoreObject create a temporary file in the
\* directory of the chunk ...
CreateTmp(w) ==
    /\ writer[w].at = "idle" /\ HasDirs
    /\ \/ tmp' = [tmp EXCEPT ![w] = "part"] /\ WriterAt(w, "write") /\ UNCHANGED faults
       \/ Fault /\ WriterAt(w, "error") /\ UNCHANGED tmp
    /\ UNCHANGED <<file, fresh, walkVars, histVars>>

\* ... write it, and remove it when this fails, unless that fails as well ...
WriteTmp(w) ==
    /\ writer[w].at = "write"
    /\ \/ /\ tmp' = [tmp EXCEPT ![w] = IF @ = "none" THEN @ ELSE "whole"]
          /\ WriterAt(w, "rename")
          /\ UNCHANGED faults
       \/ Fault /\ tmp' \in {tmp, [tmp EXCEPT ![w] = "none"]} /\ WriterAt(w, "error")
    /\ UNCHANGED <<file, fresh, walkVars, histVars>>

\* ... and rename it, which fails if it is not there any more.  Mutant: the
\* error is lost.
RenameResultLost(w) == "ok"
RenameResult(w) == IF tmp[w] = "none" THEN "error" ELSE "ok"
Rename(w) ==
    /\ writer[w].at = "rename"
    /\ \/ /\ IF tmp[w] = "none" THEN UNCHANGED <<file, fresh>> ELSE Put(w)
          /\ tmp' = [tmp EXCEPT ![w] = "none"]
          /\ WriterAt(w, RenameResult(w)) /\ UNCHANGED faults
       \/ Fault /\ WriterAt(w, "error") /\ UNCHANGED storeVars
    /\ UNCHANGED <<walkVars, histVars>>

\* PutObject of s3, with its attempts, and the Writer of gcs.  A write that
\* fails may have been complete.
PutObject(w) ==
    /\ writer[w].at = "idle" /\ ~HasDirs
    /\ \/ Put(w) /\ WriterAt(w, "ok") /\ UNCHANGED faults
       \/ Put(w) /\ Fault /\ WriterAt(w, "error")
       \/ Fault /\ WriterAt(w, "error") /\ UNCHANGED <<file, fresh>>
    /\ UNCHANGED <<tmp, walkVars, histVars>>

Writer(w) == CreateTmp(w) \/ WriteTmp(w) \/ Rename(w) \/ PutObject(w)

-----------------------------------------------------------------------------
(* The walk of Prune and Verify.                                           *)

walkRest == <<storeVars, writer, job, left, interrupted, damaged>>

\* The job returns; Prune of sftp gives back the connection of its walk.
End(result) == at' = result /\ dirs' = {} /\ names' = {}
Back(n) == IF job.kind = "sftp" THEN n + 1 ELSE n

\* The context is looked at for every file and directory; by s3 only when there
\* is an object, and by the client of gcs only when it gets a page.
Noticed ==
    interrupted /\ CASE job.kind = "s3"  -> names # {}
                     [] job.kind = "gcs" -> names = {}
                     [] OTHER -> TRUE

\* runPrune, runVerify: start.
Start ==
    /\ at = "idle"
    /\ atStart' = [file |-> file, tmp |-> tmp]
    /\ fresh' = {}
    /\ at' = IF job.kind = "sftp" THEN "connect" ELSE "walk"
    /\ dirs' = Ids
    /\ UNCHANGED <<file, tmp, writer, job, names, conns, worker, reported, left, interrupted,
                   damaged, faults>>

\* SFTPStore.Prune keeps a connection for the walk.
Connect ==
    /\ at = "connect" /\ conns > 0
    /\ conns' = conns - 1 /\ at' = "walk"
    /\ UNCHANGED <<dirs, names, worker, reported, atStart, faults, walkRest>>

\* The names in a directory are read when the walk gets there, in order.
ReadDir(id) ==
    /\ at = "walk" /\ ~Noticed /\ names = {} /\ id \in dirs /\ \A d \in dirs : id <= d
    /\ \/ dirs' = dirs \ {id} /\ names' = InDir(id) /\ UNCHANGED <<at, conns, faults>>
       \/ Fault /\ End("error") /\ conns' = Back(conns)
    /\ UNCHANGED <<worker, reported, atStart, walkRest>>

Stop ==
    /\ at = "walk" /\ (names # {} \/ dirs # {}) /\ Noticed
    /\ End("interrupted") /\ conns' = Back(conns)
    /\ UNCHANGED <<worker, reported, atStart, faults, walkRest>>

\* filepath.Walk looks at every file again before it calls Prune or Verify: a
\* file that is gone, such as one that was renamed meanwhile, is an error.
Vanished(n) ==
    /\ at = "walk" /\ n \in names /\ job.kind = "local" /\ ~Exists(n)
    /\ End("error")
    /\ UNCHANGED <<conns, worker, reported, atStart, faults, walkRest>>

\* Prune of an sftp store looks only at names that end in .cacnk, so that in
\* one with uncompressed chunks it sees none of them.
SeesNoChunks == job.kind = "sftp" /\ job.uncompressed

\* What is not a chunk in the format of the store is passed over: temporary
\* files, except in a local Prune, and the other format.  Mutant: this ends
\* the walk, as return does there in place of continue.
Skipped(n) ==
    \/ n[1] = "other" \/ SeesNoChunks
    \/ n[1] = "tmp" /\ ~(job.kind = "local" /\ job.op = "prune")
AllLeft(n) == dirs' = {} /\ names' = {}
PassOver(n) == names' = names \ {n} /\ UNCHANGED dirs
Skip(n) ==
    /\ at = "walk" /\ ~Noticed /\ n \in names /\ Skipped(n)
    /\ job.kind = "local" => Exists(n)
    /\ PassOver(n)
    /\ UNCHANGED <<at, conns, worker, reported, atStart, faults, walkRest>>

\* The walk is over.  Verify closes the channel and waits for its workers.
WalkEnd ==
    /\ at = "walk" /\ names = {} /\ dirs = {}
    /\ \A k \in Workers : worker[k].at = "idle"
    /\ End("ok")
    /\ conns' = Back(conns)
    /\ UNCHANGED <<worker, reported, atStart, faults, walkRest>>

-----------------------------------------------------------------------------
(* Prune.                                                                  *)

Keeps(id) == id \in job.keep

pruneRest == <<worker, reported, fresh, writer, histVars>>

\* A temporary file of a local store is removed, whoever may be writing it, and
\* an error is ignored.
PruneTmp(w) ==
    /\ at = "walk" /\ ~Noticed /\ job.op = "prune" /\ job.kind = "local"
    /\ Tmp(w) \in names /\ Exists(Tmp(w))
    /\ names' = names \ {Tmp(w)}
    /\ \/ tmp' = [tmp EXCEPT ![w] = "none"] /\ UNCHANGED <<left, faults>>
       \/ Fault /\ left' = left \cup {Tmp(w)} /\ UNCHANGED tmp
    /\ UNCHANGED <<at, dirs, file, conns, pruneRest>>

\* A chunk that is kept, or else the removal of it begins.
PruneChunk(id) ==
    /\ at = "walk" /\ ~Noticed /\ job.op = "prune"
    /\ Chunk(id) \in names /\ ~Skipped(Chunk(id))
    /\ job.kind = "local" => Exists(Chunk(id))
    /\ IF Keeps(id) THEN names' = names \ {Chunk(id)} /\ UNCHANGED at
       ELSE at' = "remove" /\ UNCHANGED names
    /\ UNCHANGED <<dirs, file, tmp, conns, left, faults, pruneRest>>

\* RemoveChunk.  On sftp it needs another connection, which goes back.  It
\* fails also when another Prune was faster, except on s3.  Mutant: the
\* connection is kept.
Kept(n) == n - 1
GivenBack(n) == n
Remove(id) ==
    /\ at = "remove" /\ Chunk(id) \in names /\ ~Keeps(id)
    /\ job.kind = "sftp" => conns > 0
    /\ \/ /\ file' = [file EXCEPT ![id] = "none"]
          /\ names' = names \ {Chunk(id)} /\ at' = "walk"
          /\ conns' = IF job.kind = "sftp" THEN GivenBack(conns) ELSE conns
          /\ UNCHANGED <<dirs, faults>>
       \/ /\ Fault /\ End("error") /\ conns' = Back(conns)
          /\ UNCHANGED file
    /\ UNCHANGED <<tmp, left, pruneRest>>

-----------------------------------------------------------------------------
(* Verify, of local stores.                                                *)

verifyRest == <<dirs, conns, tmp, fresh, writer, histVars>>

WorkerAt(k, a) == worker' = [worker EXCEPT ![k].at = a]

\* The id goes to an idle worker.  They are all alike: to the first one.
Feed(id, k) ==
    /\ at = "walk" /\ ~Noticed /\ job.op = "verify"
    /\ Chunk(id) \in names /\ Exists(Chunk(id))
    /\ worker[k].at = "idle" /\ \A j \in Workers : worker[j].at = "idle" => k <= j
    /\ names' = names \ {Chunk(id)}
    /\ worker' = [worker EXCEPT ![k] = [at |-> "check", id |-> id]]
    /\ UNCHANGED <<at, file, reported, left, faults, verifyRest>>

\* GetChunk: a file that cannot be read is an invalid chunk, too.  With
\* skip-verify in the config it takes every chunk for valid.
CheckChunk(k) ==
    /\ worker[k].at = "check"
    /\ LET id == worker[k].id IN
       \/ /\ file[id] \in {"none", "good"} \/ job.skipVerify
          /\ WorkerAt(k, "idle") /\ UNCHANGED <<reported, faults>>
       \/ /\ ~job.skipVerify
          /\ IF file[id] = "bad" THEN UNCHANGED faults ELSE file[id] = "good" /\ Fault
          /\ WorkerAt(k, IF job.repair THEN "remove" ELSE "idle")
          /\ reported' = reported \cup {id}
    /\ UNCHANGED <<at, names, file, left, verifyRest>>

\* RemoveChunk: an error is only reported.
RemoveBad(k) ==
    /\ worker[k].at = "remove"
    /\ \/ file' = [file EXCEPT ![worker[k].id] = "none"] /\ UNCHANGED <<left, faults>>
       \/ Fault /\ left' = left \cup {Chunk(worker[k].id)} /\ UNCHANGED file
    /\ WorkerAt(k, "idle")
    /\ UNCHANGED <<at, names, reported, verifyRest>>

VerifyWorker(k) == CheckChunk(k) \/ RemoveBad(k)

Job ==
    \/ Start \/ Connect \/ Stop \/ WalkEnd
    \/ \E id \in Ids : ReadDir(id) \/ PruneChunk(id) \/ Remove(id)
    \/ \E id \in Ids, k \in Workers : Feed(id, k)
    \/ \E n \in names : Vanished(n) \/ Skip(n)
    \/ \E w \in Writers : PruneTmp(w)

-----------------------------------------------------------------------------

Interrupt ==
    /\ ~interrupted /\ at \in {"walk", "remove"}
    /\ interrupted' = TRUE
    /\ UNCHANGED <<storeVars, walkVars, writer, job, atStart, damaged, faults>>

\* A process is killed and leaves what it has written.
KillWriter(w) ==
    /\ writer[w].at \in {"write", "rename"} /\ Fault
    /\ WriterAt(w, "killed")
    /\ UNCHANGED <<storeVars, walkVars, histVars>>

KillJob ==
    /\ at \in {"walk", "remove"} /\ Fault
    /\ End("killed")
    /\ worker' = [k \in Workers |-> [at |-> "idle", id |-> 0]]
    /\ UNCHANGED <<storeVars, writer, conns, reported, left, histVars>>

\* A chunk file is damaged.  So is one whose data is lost when the temporary
\* file is closed, since LocalStore ignores that error and renames the file.
Damage(id) ==
    /\ file[id] = "good" /\ Fault
    /\ file' = [file EXCEPT ![id] = "bad"]
    /\ damaged' = damaged \cup {id}
    /\ UNCHANGED <<tmp, fresh, walkVars, writer, job, interrupted, atStart>>

WriterDone(w) == writer[w].at \in {"ok", "error", "killed"}
WorkersDone == \A k \in Workers : worker[k].at = "idle"
Finished == at \in Ended /\ WorkersDone /\ (\A w \in Writers : WriterDone(w)) /\ UNCHANGED vars

Next ==
    \/ \E w \in Writers : Writer(w) \/ KillWriter(w)
    \/ \E k \in Workers : VerifyWorker(k)
    \/ \E id \in Ids : Damage(id)
    \/ Job \/ Interrupt \/ KillJob \/ Finished

Fairness ==
    /\ \A w \in Writers : WF_vars(Writer(w))
    /\ \A k \in Workers : WF_vars(VerifyWorker(k))
    /\ WF_vars(Job)

Spec == Init /\ [][Next]_vars /\ Fairness

-----------------------------------------------------------------------------
(* Properties.                                                             *)

\* A chunk that StoreChunk has reported as stored, or that was there, is in the
\* store and whole, whatever was killed and whichever temporary files Prune
\* removed at the same time: except chunks that the list of Prune does not
\* have, damaged ones, and those that Verify took for invalid at some time.
\* And a chunk file is never written in part.
StoredStaysWhole ==
    \A id \in Ids :
        /\ file[id] = "bad" => id \in damaged
        /\ \/ atStart.file[id] = "good"
           \/ \E w \in Writers : writer[w].id = id /\ writer[w].at = "ok"
           => \/ file[id] = "good"
              \/ id \in damaged \cup reported
              \/ job.op = "prune" /\ at # "idle" /\ ~Keeps(id)

\* A Prune that succeeds leaves only chunks that it keeps or that were written
\* since it began, and in a local store none of the temporary files that it
\* met, except those it could not remove, which is no error.  A Verify that
\* succeeds has reported every bad chunk that it met, and with repair it has
\* removed them, except those it could not remove.  This is not said of the
\* stores in which the job looks at no chunk: Prune where sftp stores hold
\* uncompressed chunks, and Verify with skip-verify.
SuccessMeansClean ==
    at = "ok" /\ WorkersDone =>
        CASE job.op = "prune" ->
               /\ \A id \in Ids : file[id] # "none" =>
                     Keeps(id) \/ id \in fresh \/ SeesNoChunks
               /\ job.kind = "local" => \A w \in Writers :
                     atStart.tmp[w] # "none" => tmp[w] = "none" \/ Tmp(w) \in left
          [] job.op = "verify" ->
               \A id \in Ids : atStart.file[id] = "bad" /\ id \notin fresh /\ ~job.skipVerify =>
                   /\ id \in reported
                   /\ job.repair => file[id] = "none" \/ Chunk(id) \in left

\* Writers and jobs come to an end: Verify's walk does not wait for workers for
\* ever, and Prune not for a connection, as long as the pool has two.
JobsReturn == <>(at \in Ended /\ WorkersDone /\ \A w \in Writers : WriterDone(w))

-----------------------------------------------------------------------------
(* What all of this is to the processes that share the store.              *)

Result(a) == CASE a = "ok" -> "ok" [] a \in {"error", "killed"} -> "failed" [] OTHER -> "open"
Puts      == [w \in Writers |-> [id |-> writer[w].id, result |-> Result(writer[w].at)]]

Pruning == job.op = "prune" /\ at # "idle"
Doomed  == IF job.op = "verify" THEN reported ELSE {id \in Ids : Pruning /\ ~Keeps(id)}

Shared == INSTANCE ChunkSet WITH
    chunk    <- file,
    put      <- Puts,
    doomed   <- Doomed,
    sweeping <- Pruning /\ job.kind = "local",
    trouble  <- faults > 0

\* Temporary files, renames, walks, removals and kills implement ChunkSet: a
\* chunk appears at once and before StoreChunk reports it, a StoreChunk fails
\* without any fault only where a local Prune may have taken its temporary
\* file, and nothing is removed that is not to be.
ImplementsChunkSet == Shared!Spec

-----------------------------------------------------------------------------
(* The inductive invariant.                                                *)

WriterStates == {"idle", "write", "rename", "ok", "error", "killed"}
JobStates    == {"idle", "connect", "walk", "remove"} \cup Ended

TypeInv ==
    /\ job \in Jobs
    /\ file \in [Ids -> {"none", "good", "bad"}]
    /\ tmp \in [Writers -> {"none", "part", "whole"}]
    /\ writer \in [Writers -> [at : WriterStates, id : Ids]]
    /\ at \in JobStates /\ dirs \subseteq Ids /\ conns \in Int
    /\ worker \in [Workers -> [at : {"idle", "check", "remove"}, id : Ids \cup {0}]]
    /\ \A k \in Workers : worker[k].at # "idle" => worker[k].id \in Ids
    /\ atStart \in [file : [Ids -> {"none", "good", "bad"}],
                     tmp : [Writers -> {"none", "part", "whole"}]]
    /\ faults \in Nat

\* Prune and Verify do not mix, and Verify removes what it has reported.
JobInv ==
    /\ at = "remove" => job.op = "prune"
    /\ \A k \in Workers : worker[k].at # "idle" => job.op = "verify"
    /\ \A k \in Workers : worker[k].at = "remove" => worker[k].id \in reported

\* A writer creates one temporary file.
TmpInv ==
    \A w \in Writers : writer[w].at = "idle" => tmp[w] = "none" /\ atStart.tmp[w] = "none"

\* The job has not got to the files of this chunk.
Ahead(id)  == id \in dirs \/ Chunk(id) \in names
Going      == at \in {"connect", "walk", "remove", "ok"}

\* Nothing that Prune has to remove is behind it, except what it could not.
PruneInv ==
    Going /\ job.op = "prune" =>
        /\ \A id \in Ids :
              file[id] = "none" \/ Keeps(id) \/ id \in fresh \/ Ahead(id) \/ SeesNoChunks
        /\ job.kind = "local" => \A w \in Writers :
              atStart.tmp[w] = "none" \/ tmp[w] = "none" \/ Tmp(w) \in left
              \/ writer[w].id \in dirs \/ Tmp(w) \in names

\* A bad chunk waits for Verify, or it was reported and will be removed.
VerifyInv ==
    Going /\ job.op = "verify" =>
        \A id \in Ids : atStart.file[id] = "bad" /\ id \notin fresh /\ ~job.skipVerify =>
            \/ /\ file[id] = "bad"
               /\ Ahead(id) \/ \E k \in Workers : worker[k].at = "check" /\ worker[k].id = id
            \/ /\ id \in reported
               /\ job.repair =>
                     \/ file[id] = "none" \/ Chunk(id) \in left
                     \/ \E k \in Workers : worker[k].at = "remove" /\ worker[k].id = id

\* A job that has ended well has nothing left.
OkInv == at = "ok" => dirs = {} /\ names = {}

\* The temporary file of a writer is taken away only by a local Prune.
LostInv ==
    \A w \in Writers : writer[w].at \in {"write", "rename"} /\ tmp[w] = "none" =>
        Pruning /\ job.kind = "local"

FilesInv ==
    TypeInv /\ JobInv /\ TmpInv /\ StoredStaysWhole /\ PruneInv /\ VerifyInv /\ OkInv
=============================================================================
