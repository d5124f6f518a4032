-------------------------- MODULE StoreFilesProofs --------------------------
(* Proofs about StoreFiles, for any set of chunks, writers and jobs.  The   *)
(* inductive invariant FilesInv says which files the job still has before   *)
(* it.                                                                      *)
EXTENDS StoreFiles, TLAPS

-----------------------------------------------------------------------------
(* What the steps have in common.                                           *)

\* A step of a writer leaves the job alone.  The file of its chunk becomes
\* good, and the writer reports success, or its file stays.
LEMMA WriterEffect ==
    ASSUME TypeInv, NEW w \in Writers, Writer(w) \/ KillWriter(w)
    PROVE  /\ UNCHANGED <<job, interrupted, atStart, damaged, at, dirs, names, conns, worker,
                          reported, left>>
           /\ \E a \in WriterStates \ {"idle"} : writer' = [writer EXCEPT ![w].at = a]
           /\ \/ file' = [file EXCEPT ![writer[w].id] = "good"]
                 /\ fresh' = fresh \cup {writer[w].id}
              \/ file' = file /\ fresh' = fresh
                 /\ (writer'[w].at = "ok" => FALSE)
           /\ faults' \in {faults, faults + 1}
           /\ \E t \in {"none", "part", "whole"} :
                 /\ tmp' = [tmp EXCEPT ![w] = t]
                 /\ tmp[w] = "none" /\ writer[w].at # "idle" => t = "none"
<1> USE DEF histVars, walkVars, storeVars, WriterAt, WriterStates, Fault
<1>0. /\ writer \in [Writers -> [at : WriterStates, id : Ids]]
      /\ tmp \in [Writers -> {"none", "part", "whole"}]
      /\ \A a : [writer EXCEPT ![w].at = a][w].at = a
      /\ tmp = [tmp EXCEPT ![w] = tmp[w]]
  BY DEF TypeInv
<1>1. CASE CreateTmp(w)
  BY <1>0, <1>1 DEF CreateTmp
<1>2. CASE WriteTmp(w)
  BY <1>0, <1>2 DEF WriteTmp
<1>3. CASE Rename(w)
  BY <1>0, <1>3 DEF Rename, RenameResult, Put
<1>4. CASE PutObject(w)
  BY <1>0, <1>4 DEF PutObject, Put
<1>5. CASE KillWriter(w)
  BY <1>0, <1>5 DEF KillWriter
<1> QED
  BY <1>1, <1>2, <1>3, <1>4, <1>5 DEF Writer

\* What is known of a job.
LEMMA JobFields ==
    ASSUME TypeInv
    PROVE  /\ job.kind \in {"local", "sftp", "s3", "gcs"} /\ job.op \in {"prune", "verify"}
           /\ job.op = "verify" => job.kind = "local"
           /\ job.uncompressed \in BOOLEAN /\ job.skipVerify \in BOOLEAN
BY JobsAssumption DEF TypeInv

\* The steps of the walk, of Prune and of Verify.
WalkStep ==
    \/ Connect \/ Stop \/ WalkEnd
    \/ \E id \in Ids : ReadDir(id)
    \/ \E n \in names : Vanished(n) \/ Skip(n)

\* The walk leaves files, writers and workers alone.
LEMMA WalkEffect ==
    ASSUME WalkStep
    PROVE  /\ UNCHANGED <<file, tmp, fresh, writer, job, interrupted, damaged, worker, reported,
                          left, atStart>>
           /\ at \in {"connect", "walk"} /\ at' \in {"walk", "ok", "error", "interrupted"}
           /\ faults' \in {faults, faults + 1}
<1> USE DEF walkRest, storeVars, Fault, End
<1>1. CASE Connect \/ Stop \/ WalkEnd
  BY <1>1 DEF Connect, Stop, WalkEnd
<1>2. ASSUME NEW id \in Ids, ReadDir(id)
      PROVE  /\ UNCHANGED <<file, tmp, fresh, writer, job, interrupted, damaged, worker,
                            reported, left, atStart>>
             /\ at = "walk" /\ at' \in {"walk", "error"}
             /\ faults' \in {faults, faults + 1}
  BY <1>2 DEF ReadDir
<1>3. ASSUME NEW n \in names, Vanished(n) \/ Skip(n)
      PROVE  /\ UNCHANGED <<file, tmp, fresh, writer, job, interrupted, damaged, worker,
                            reported, left, atStart, faults>>
             /\ at = "walk" /\ at' \in {"walk", "error"}
  BY <1>3 DEF Vanished, Skip
<1> QED
  BY <1>1, <1>2, <1>3 DEF WalkStep

-----------------------------------------------------------------------------
(* Types.                                                                   *)

LEMMA TypeInit == Init => TypeInv
<1> SUFFICES ASSUME Init PROVE TypeInv
  OBVIOUS
<1> USE DEF Init
<1>1. file \in [Ids -> {"none", "good", "bad"}]
  BY ContentsAssumption
<1>2. writer \in [Writers -> [at : WriterStates, id : Ids]]
  BY ToStoreAssumption DEF WriterStates
<1> QED
  BY <1>1, <1>2, NAssumption DEF TypeInv, JobStates, Ended

\* Every step keeps the types.
LEMMA TypeStep == TypeInv /\ [Next]_vars => TypeInv'
<1> SUFFICES ASSUME TypeInv, [Next]_vars PROVE TypeInv'
  OBVIOUS
<1> USE DEF histVars, walkVars, storeVars, Fault, End
<1>1. ASSUME NEW w \in Writers, Writer(w) \/ KillWriter(w) PROVE TypeInv'
  <2>1. writer' \in [Writers -> [at : WriterStates, id : Ids]]
    <3>1. PICK a \in WriterStates : writer' = [writer EXCEPT ![w].at = a]
      BY <1>1, WriterEffect
    <3> QED
      BY <3>1 DEF TypeInv
  <2>2. tmp' \in [Writers -> {"none", "part", "whole"}]
    BY <1>1, WriterEffect DEF TypeInv
  <2>3. writer[w].id \in Ids
    BY DEF TypeInv
  <2>4. file' \in [Ids -> {"none", "good", "bad"}] /\ faults' \in Nat
    BY <1>1, <2>3, WriterEffect DEF TypeInv
  <2> QED
    BY <1>1, <2>1, <2>2, <2>4, WriterEffect DEF TypeInv
<1>2. CASE Start
  BY <1>2 DEF Start, TypeInv, JobStates
<1>3. CASE WalkStep
  <2>1. dirs' \subseteq Ids /\ conns' \in Int
    <3>1. dirs \subseteq Ids /\ conns \in Int
      BY DEF TypeInv
    <3>2. CASE Connect \/ Stop \/ WalkEnd
      BY <3>1, <3>2 DEF Connect, Stop, WalkEnd, Back
    <3>3. ASSUME NEW id \in Ids, ReadDir(id) PROVE dirs' \subseteq Ids /\ conns' \in Int
      BY <3>1, <3>3 DEF ReadDir, Back
    <3>4. ASSUME NEW n \in names, Vanished(n) \/ Skip(n)
          PROVE  dirs' \subseteq Ids /\ conns' \in Int
      BY <3>1, <3>4 DEF Vanished, Skip, PassOver
    <3> QED
      BY <1>3, <3>2, <3>3, <3>4 DEF WalkStep
  <2> QED
    BY <1>3, <2>1, WalkEffect DEF TypeInv, JobStates, Ended
<1>4. ASSUME NEW id \in Ids, PruneChunk(id) PROVE TypeInv'
  BY <1>4 DEF PruneChunk, pruneRest, TypeInv, JobStates
<1>5. ASSUME NEW id \in Ids, Remove(id) PROVE TypeInv'
  BY <1>5 DEF Remove, pruneRest, GivenBack, Back, TypeInv, JobStates, Ended
<1>6. ASSUME NEW w \in Writers, PruneTmp(w) PROVE TypeInv'
  BY <1>6 DEF PruneTmp, pruneRest, TypeInv
<1>7. ASSUME NEW id \in Ids, NEW k \in Workers, Feed(id, k) PROVE TypeInv'
  <2>1. worker' = [worker EXCEPT ![k] = [at |-> "check", id |-> id]]
    BY <1>7 DEF Feed
  <2>2. /\ worker' \in [Workers -> [at : {"idle", "check", "remove"}, id : Ids \cup {0}]]
        /\ \A j \in Workers : worker'[j].at # "idle" => worker'[j].id \in Ids
    BY <2>1 DEF TypeInv
  <2> QED
    BY <1>7, <2>2 DEF Feed, verifyRest, TypeInv
<1>8. ASSUME NEW k \in Workers, VerifyWorker(k) PROVE TypeInv'
  <2>1. /\ worker[k].at # "idle"
        /\ \E a \in {"idle", "remove"} : worker' = [worker EXCEPT ![k].at = a]
    BY <1>8 DEF VerifyWorker, CheckChunk, RemoveBad, WorkerAt
  <2>2. /\ worker' \in [Workers -> [at : {"idle", "check", "remove"}, id : Ids \cup {0}]]
        /\ \A j \in Workers : worker'[j].at # "idle" => worker'[j].id \in Ids
    BY <2>1 DEF TypeInv
  <2>3. file' \in [Ids -> {"none", "good", "bad"}] /\ faults' \in Nat
    BY <1>8 DEF VerifyWorker, CheckChunk, RemoveBad, TypeInv
  <2> QED
    BY <1>8, <2>2, <2>3 DEF VerifyWorker, CheckChunk, RemoveBad, verifyRest, TypeInv
<1>9. CASE Interrupt \/ KillJob
  BY <1>9 DEF Interrupt, KillJob, TypeInv, JobStates, Ended
<1>10. ASSUME NEW id \in Ids, Damage(id) PROVE TypeInv'
  BY <1>10 DEF Damage, TypeInv
<1>11. CASE UNCHANGED vars
  BY <1>11 DEF vars, TypeInv
<1> QED
  BY <1>1, <1>2, <1>3, <1>4, <1>5, <1>6, <1>7, <1>8, <1>9, <1>10, <1>11
     DEF Next, Job, WalkStep, Finished

-----------------------------------------------------------------------------
(* Jobs, temporary files and stored chunks.                                 *)

\* Steps keep the two kinds of jobs apart.
LEMMA JobStep == TypeInv /\ JobInv /\ OkInv /\ [Next]_vars => JobInv' /\ OkInv'
<1> SUFFICES ASSUME TypeInv, JobInv, OkInv, [Next]_vars PROVE JobInv' /\ OkInv'
  OBVIOUS
<1> USE DEF histVars, walkVars, storeVars, Fault, End
<1>0. worker \in [Workers -> [at : {"idle", "check", "remove"}, id : Ids \cup {0}]]
  BY DEF TypeInv
<1>1. ASSUME NEW w \in Writers, Writer(w) \/ KillWriter(w) PROVE JobInv' /\ OkInv'
  BY <1>1, WriterEffect DEF JobInv, OkInv
<1>2. CASE Start
  BY <1>2 DEF Start, JobInv, OkInv
<1>3. CASE WalkStep
  <2>1. JobInv'
    BY <1>3, WalkEffect DEF JobInv
  <2>2. OkInv'
    BY <1>3 DEF WalkStep, Connect, Stop, WalkEnd, ReadDir, Vanished, Skip, OkInv
  <2> QED
    BY <2>1, <2>2
<1>4. ASSUME NEW id \in Ids, PruneChunk(id) \/ Remove(id) PROVE JobInv' /\ OkInv'
  BY <1>4 DEF PruneChunk, Remove, pruneRest, JobInv, OkInv
<1>5. ASSUME NEW w \in Writers, PruneTmp(w) PROVE JobInv' /\ OkInv'
  BY <1>5 DEF PruneTmp, pruneRest, JobInv, OkInv
<1>6. ASSUME NEW id \in Ids, NEW k \in Workers, Feed(id, k) PROVE JobInv' /\ OkInv'
  BY <1>0, <1>6 DEF Feed, verifyRest, JobInv, OkInv
<1>7. ASSUME NEW k \in Workers, CheckChunk(k) PROVE JobInv' /\ OkInv'
  BY <1>0, <1>7 DEF CheckChunk, WorkerAt, verifyRest, JobInv, OkInv
<1>8. ASSUME NEW k \in Workers, RemoveBad(k) PROVE JobInv' /\ OkInv'
  BY <1>0, <1>8 DEF RemoveBad, WorkerAt, verifyRest, JobInv, OkInv
<1>9. CASE Interrupt \/ KillJob
  BY <1>9 DEF Interrupt, KillJob, JobInv, OkInv
<1>10. ASSUME NEW id \in Ids, Damage(id) PROVE JobInv' /\ OkInv'
  BY <1>10 DEF Damage, JobInv, OkInv
<1>11. CASE UNCHANGED vars
  BY <1>11 DEF vars, JobInv, OkInv
<1> QED
  BY <1>1, <1>2, <1>3, <1>4, <1>5, <1>6, <1>7, <1>8, <1>9, <1>10, <1>11
     DEF Next, Job, WalkStep, VerifyWorker, Finished

\* What happens to writers and temporary files outside of the writers.
LEMMA TmpStep == TypeInv /\ TmpInv /\ [Next]_vars => TmpInv'
<1> SUFFICES ASSUME TypeInv, TmpInv, [Next]_vars PROVE TmpInv'
  OBVIOUS
<1> USE DEF histVars, walkVars, storeVars, Fault, End
<1>1. ASSUME NEW w \in Writers, Writer(w) \/ KillWriter(w) PROVE TmpInv'
  <2>1. /\ atStart' = atStart /\ writer'[w].at # "idle"
        /\ \A v \in Writers : v # w => writer'[v] = writer[v] /\ tmp'[v] = tmp[v]
    BY <1>1, WriterEffect DEF TypeInv
  <2> QED
    BY <2>1 DEF TmpInv
<1>2. CASE Start
  BY <1>2 DEF Start, TmpInv
<1>3. CASE WalkStep
  BY <1>3, WalkEffect DEF TmpInv
<1>4. ASSUME NEW id \in Ids, PruneChunk(id) \/ Remove(id) PROVE TmpInv'
  BY <1>4 DEF PruneChunk, Remove, pruneRest, TmpInv
<1>5. ASSUME NEW w \in Writers, PruneTmp(w) PROVE TmpInv'
  BY <1>5 DEF PruneTmp, pruneRest, TmpInv, TypeInv
<1>6. ASSUME NEW k \in Workers, VerifyWorker(k) \/ \E id \in Ids : Feed(id, k) PROVE TmpInv'
  BY <1>6 DEF VerifyWorker, CheckChunk, RemoveBad, Feed, verifyRest, TmpInv
<1>7. CASE Interrupt \/ KillJob
  BY <1>7 DEF Interrupt, KillJob, TmpInv
<1>8. ASSUME NEW id \in Ids, Damage(id) PROVE TmpInv'
  BY <1>8 DEF Damage, TmpInv
<1>9. CASE UNCHANGED vars
  BY <1>9 DEF vars, TmpInv
<1> QED
  BY <1>1, <1>2, <1>3, <1>4, <1>5, <1>6, <1>7, <1>8, <1>9 DEF Next, Job, WalkStep, Finished

\* Chunks disappear only where StoredStaysWhole allows it.
LEMMA WholeStep ==
    TypeInv /\ JobInv /\ StoredStaysWhole /\ [Next]_vars => StoredStaysWhole'
<1> SUFFICES ASSUME TypeInv, JobInv, StoredStaysWhole, [Next]_vars PROVE StoredStaysWhole'
  OBVIOUS
<1> USE DEF histVars, walkVars, storeVars, Fault, End, Keeps
<1>1. ASSUME NEW w \in Writers, Writer(w) \/ KillWriter(w) PROVE StoredStaysWhole'
  <2>1. UNCHANGED <<job, at, atStart, damaged, reported>>
    BY <1>1, WriterEffect
  <2>2. /\ writer[w].id \in Ids /\ writer'[w].id = writer[w].id
        /\ \A v \in Writers : v # w => writer'[v] = writer[v]
    BY <1>1, WriterEffect DEF TypeInv
  <2>3. CASE file' = [file EXCEPT ![writer[w].id] = "good"]
    <3>1. file'[writer[w].id] = "good" /\ \A id \in Ids : id # writer[w].id => file'[id] = file[id]
      BY <2>2, <2>3 DEF TypeInv
    <3> QED
      BY <2>1, <2>2, <3>1 DEF StoredStaysWhole
  <2>4. CASE file' = file /\ writer'[w].at # "ok"
    BY <2>1, <2>2, <2>4 DEF StoredStaysWhole
  <2> QED
    BY <1>1, <2>3, <2>4, WriterEffect
<1>2. CASE Start
  BY <1>2 DEF Start, StoredStaysWhole, TypeInv
<1>3. CASE WalkStep
  BY <1>3, WalkEffect DEF StoredStaysWhole
<1>4. ASSUME NEW id \in Ids, PruneChunk(id) PROVE StoredStaysWhole'
  BY <1>4 DEF PruneChunk, pruneRest, StoredStaysWhole
<1>5. ASSUME NEW id \in Ids, Remove(id) PROVE StoredStaysWhole'
  <2>1. /\ at = "remove" /\ at' # "idle" /\ job.op = "prune" /\ ~Keeps(id)
        /\ UNCHANGED <<job, atStart, damaged, reported, writer>>
        /\ \A x \in Ids : x # id => file'[x] = file[x]
        /\ file'[id] \in {"none", file[id]}
    BY <1>5 DEF Remove, pruneRest, JobInv, TypeInv
  <2> QED
    BY <2>1 DEF StoredStaysWhole
<1>6. ASSUME NEW w \in Writers, PruneTmp(w) PROVE StoredStaysWhole'
  BY <1>6 DEF PruneTmp, pruneRest, StoredStaysWhole
<1>7. ASSUME NEW id \in Ids, NEW k \in Workers, Feed(id, k) PROVE StoredStaysWhole'
  BY <1>7 DEF Feed, verifyRest, StoredStaysWhole
<1>8. ASSUME NEW k \in Workers, CheckChunk(k) PROVE StoredStaysWhole'
  BY <1>8 DEF CheckChunk, verifyRest, StoredStaysWhole
<1>9. ASSUME NEW k \in Workers, RemoveBad(k) PROVE StoredStaysWhole'
  <2>1. /\ worker[k].id \in reported
        /\ UNCHANGED <<job, at, atStart, damaged, reported, writer>>
        /\ \A x \in Ids : x # worker[k].id => file'[x] = file[x]
        /\ \A x \in Ids : file'[x] \in {"none", file[x]}
    BY <1>9 DEF RemoveBad, verifyRest, JobInv, TypeInv
  <2> QED
    BY <2>1 DEF StoredStaysWhole
<1>10. CASE Interrupt \/ KillJob
  BY <1>10 DEF Interrupt, KillJob, StoredStaysWhole
<1>11. ASSUME NEW id \in Ids, Damage(id) PROVE StoredStaysWhole'
  BY <1>11 DEF Damage, StoredStaysWhole, TypeInv
<1>12. CASE UNCHANGED vars
  BY <1>12 DEF vars, StoredStaysWhole
<1> QED
  BY <1>1, <1>2, <1>3, <1>4, <1>5, <1>6, <1>7, <1>8, <1>9, <1>10, <1>11, <1>12
     DEF Next, Job, WalkStep, VerifyWorker, Finished

-----------------------------------------------------------------------------
(* The walk.                                                                *)

\* Names of chunks and of temporary files are different.
LEMMA NamesDiffer ==
    ASSUME NEW x, NEW y
    PROVE  /\ Chunk(x) # Tmp(y) /\ (Chunk(x) = Chunk(y) => x = y) /\ (Tmp(x) = Tmp(y) => x = y)
           /\ Chunk(x)[1] = "chunk" /\ Tmp(x)[1] = "tmp"
           /\ Chunk(x)[2] = x /\ Tmp(x)[2] = x
BY DEF Chunk, Tmp

\* The names in a directory include the chunk and the temporary files there.
LEMMA ReadNames ==
    ASSUME NEW id \in Ids
    PROVE  /\ file[id] # "none" => Chunk(id) \in InDir(id)
           /\ \A w \in Writers : writer[w].id = id /\ tmp[w] # "none" => Tmp(w) \in InDir(id)
BY DEF InDir, Exists, Chunk, Tmp

\* The walk does not lose files: what is not ahead of it any more has been
\* looked at.
LEMMA WalkKeeps ==
    ASSUME TypeInv, WalkStep, at' \in {"walk", "ok"}
    PROVE  /\ ~SeesNoChunks =>
                 \A id \in Ids : Ahead(id) /\ file[id] # "none" => Ahead(id)'
           /\ job.kind = "local" /\ job.op = "prune" =>
                 \A w \in Writers : /\ writer[w].id \in dirs \/ Tmp(w) \in names
                                    /\ tmp[w] # "none"
                                    => (writer[w].id \in dirs \/ Tmp(w) \in names)'
<1> USE DEF Ahead, End
<1>1. CASE Connect
  BY <1>1 DEF Connect, Chunk, Tmp, walkRest
<1>2. CASE Stop
  BY <1>2 DEF Stop
<1>3. CASE WalkEnd
  BY <1>3 DEF WalkEnd
<1>4. ASSUME NEW d \in Ids, ReadDir(d)
      PROVE  /\ \A id \in Ids : Ahead(id) /\ file[id] # "none" => Ahead(id)'
             /\ \A w \in Writers : (writer[w].id \in dirs \/ Tmp(w) \in names) /\ tmp[w] # "none"
                                    => (writer[w].id \in dirs \/ Tmp(w) \in names)'
  <2>1. names = {} /\ dirs' = dirs \ {d} /\ names' = InDir(d) /\ writer' = writer
    BY <1>4 DEF ReadDir, walkRest
  <2> QED
    BY <2>1, ReadNames DEF Chunk, Tmp
<1>5. ASSUME NEW n \in names, Vanished(n) PROVE FALSE
  BY <1>5 DEF Vanished
<1>6. ASSUME NEW n \in names, Skip(n)
      PROVE  /\ ~SeesNoChunks => \A id \in Ids : Ahead(id) => Ahead(id)'
             /\ job.kind = "local" /\ job.op = "prune" =>
                   \A w \in Writers : writer[w].id \in dirs \/ Tmp(w) \in names
                                      => (writer[w].id \in dirs \/ Tmp(w) \in names)'
  <2>1. names' = names \ {n} /\ dirs' = dirs /\ Skipped(n) /\ writer' = writer
    BY <1>6 DEF Skip, PassOver, walkRest
  <2> QED
    BY <2>1 DEF Skipped, SeesNoChunks, Chunk, Tmp
<1> QED
  BY <1>1, <1>2, <1>3, <1>4, <1>5, <1>6 DEF WalkStep

\* Prune leaves nothing behind that it has to remove.
LEMMA PruneStep ==
    TypeInv /\ JobInv /\ TmpInv /\ PruneInv /\ [Next]_vars => PruneInv'
<1> SUFFICES ASSUME TypeInv, JobInv, TmpInv, PruneInv, [Next]_vars,
                    Going', job'.op = "prune"
             PROVE  PruneInv'
  BY DEF PruneInv
<1> USE DEF histVars, walkVars, storeVars, Fault, End, Keeps, Going, Ahead, SeesNoChunks
<1>1. ASSUME NEW w \in Writers, Writer(w) \/ KillWriter(w) PROVE PruneInv'
  <2>1. UNCHANGED <<job, at, dirs, names, left, atStart>> /\ writer[w].id \in Ids
    BY <1>1, WriterEffect DEF TypeInv
  <2>2. \A id \in Ids : \/ file'[id] = file[id] /\ (id \in fresh => id \in fresh')
                        \/ id \in fresh'
    BY <1>1, <2>1, WriterEffect DEF TypeInv
  <2>3. /\ \A v \in Writers : v # w => tmp'[v] = tmp[v] /\ writer'[v] = writer[v]
        /\ writer'[w].id = writer[w].id
        /\ atStart.tmp[w] = "none" \/ (tmp[w] = "none" => tmp'[w] = "none")
    BY <1>1, WriterEffect DEF TypeInv, TmpInv
  <2> QED
    BY <2>1, <2>2, <2>3 DEF PruneInv, Chunk, Tmp
<1>2. CASE Start
  BY <1>2 DEF Start, PruneInv, TypeInv
<1>3. CASE WalkStep
  <2>1. /\ UNCHANGED <<file, tmp, fresh, writer, job, left, atStart>> /\ Going
        /\ at' \in {"walk", "ok"}
    BY <1>3, WalkEffect
  <2> QED
    BY <1>3, <2>1, WalkKeeps DEF PruneInv
<1>4. ASSUME NEW d \in Ids, PruneChunk(d) PROVE PruneInv'
  <2>1. /\ UNCHANGED <<file, tmp, fresh, writer, job, left, atStart, dirs>> /\ Going
        /\ names' = names \/ (names' = names \ {Chunk(d)} /\ Keeps(d))
    BY <1>4 DEF PruneChunk, pruneRest
  <2> QED
    BY <2>1, NamesDiffer DEF PruneInv
<1>5. ASSUME NEW d \in Ids, Remove(d) PROVE PruneInv'
  <2>1. /\ UNCHANGED <<tmp, fresh, writer, job, left, atStart, dirs>> /\ Going
        /\ names' = names \ {Chunk(d)} /\ file' = [file EXCEPT ![d] = "none"]
    BY <1>5 DEF Remove, pruneRest
  <2>2. file'[d] = "none" /\ \A id \in Ids : id # d => file'[id] = file[id]
    BY <2>1 DEF TypeInv
  <2>3. \A id \in Ids : id # d /\ Chunk(id) \in names => Chunk(id) \in names'
    BY <2>1, NamesDiffer
  <2>4. \A w \in Writers : Tmp(w) \in names => Tmp(w) \in names'
    BY <2>1, NamesDiffer
  <2> QED
    BY <2>1, <2>2, <2>3, <2>4 DEF PruneInv
<1>6. ASSUME NEW w \in Writers, PruneTmp(w) PROVE PruneInv'
  <2>1. /\ UNCHANGED <<file, fresh, writer, job, atStart, dirs>> /\ Going
        /\ names' = names \ {Tmp(w)} /\ left \subseteq left'
        /\ tmp' = [tmp EXCEPT ![w] = "none"] \/ (tmp' = tmp /\ Tmp(w) \in left')
    BY <1>6 DEF PruneTmp, pruneRest
  <2>2. /\ tmp'[w] = "none" \/ Tmp(w) \in left'
        /\ \A v \in Writers : v # w => tmp'[v] = tmp[v]
    BY <2>1 DEF TypeInv
  <2>3. \A id \in Ids : Chunk(id) \in names => Chunk(id) \in names'
    BY <2>1, NamesDiffer
  <2>4. \A v \in Writers : v # w /\ Tmp(v) \in names => Tmp(v) \in names'
    BY <2>1, NamesDiffer
  <2> QED
    BY <2>1, <2>2, <2>3, <2>4 DEF PruneInv
<1>7. ASSUME NEW k \in Workers, VerifyWorker(k) \/ \E id \in Ids : Feed(id, k) PROVE FALSE
  <2>1. job.op = "verify" /\ job' = job
    BY <1>7 DEF VerifyWorker, CheckChunk, RemoveBad, Feed, verifyRest, JobInv
  <2> QED
    BY <2>1
<1>8. CASE Interrupt
  BY <1>8 DEF Interrupt, PruneInv
<1>9. CASE KillJob
  BY <1>9 DEF KillJob
<1>10. ASSUME NEW id \in Ids, Damage(id) PROVE PruneInv'
  BY <1>10 DEF Damage, PruneInv, TypeInv
<1>11. CASE UNCHANGED vars
  BY <1>11 DEF vars, PruneInv
<1> QED
  BY <1>1, <1>2, <1>3, <1>4, <1>5, <1>6, <1>7, <1>8, <1>9, <1>10, <1>11
     DEF Next, Job, WalkStep, Finished

\* What VerifyInv says of a chunk, and that it is kept where nothing about the
\* chunk changes.
Waits(id) ==
    /\ file[id] = "bad"
    /\ Ahead(id) \/ \E k \in Workers : worker[k].at = "check" /\ worker[k].id = id

Dealt(id) ==
    /\ id \in reported
    /\ job.repair =>
          \/ file[id] = "none" \/ Chunk(id) \in left
          \/ \E k \in Workers : worker[k].at = "remove" /\ worker[k].id = id

\* Verify leaves no bad chunk behind that it has not reported and, with repair,
\* removed.
LEMMA VerifyStep ==
    TypeInv /\ JobInv /\ VerifyInv /\ [Next]_vars => VerifyInv'
<1> SUFFICES ASSUME TypeInv, JobInv, VerifyInv, [Next]_vars,
                    Going', job'.op = "verify",
                    NEW x \in Ids, atStart'.file[x] = "bad", x \notin fresh', ~job'.skipVerify
             PROVE  Waits(x)' \/ Dealt(x)'
  BY DEF VerifyInv, Waits, Dealt
<1> USE DEF histVars, walkVars, storeVars, Fault, End
<1>1. Going /\ job.op = "verify" /\ atStart.file[x] = "bad" /\ x \notin fresh /\ ~job.skipVerify
      => Waits(x) \/ Dealt(x)
  BY DEF VerifyInv, Waits, Dealt
<1>0. /\ worker \in [Workers -> [at : {"idle", "check", "remove"}, id : Ids \cup {0}]]
      /\ file \in [Ids -> {"none", "good", "bad"}] /\ faults \in Nat
      /\ writer \in [Writers -> [at : WriterStates, id : Ids]]
  BY DEF TypeInv
<1>2. ASSUME NEW w \in Writers, Writer(w) \/ KillWriter(w) PROVE Waits(x)' \/ Dealt(x)'
  <2>1. UNCHANGED <<job, at, dirs, names, atStart, worker, reported, left>>
    BY <1>2, WriterEffect
  <2>2. fresh \subseteq fresh' /\ (file'[x] = file[x] \/ x \in fresh')
    BY <1>0, <1>2, WriterEffect
  <2>3. Waits(x) \/ Dealt(x)
    BY <1>1, <2>1, <2>2 DEF Going
  <2>4. Waits(x) => Waits(x)'
    BY <2>1, <2>2 DEF Waits, Ahead, Chunk
  <2>5. Dealt(x) => Dealt(x)'
    BY <2>1, <2>2 DEF Dealt, Chunk
  <2> QED
    BY <2>3, <2>4, <2>5
<1>3. CASE Start
  BY <1>3 DEF Start, Waits, Ahead
<1>4. CASE WalkStep
  <2>1. /\ UNCHANGED <<file, fresh, worker, reported, left, job, atStart>> /\ Going
        /\ at' \in {"walk", "ok"}
    BY <1>4, WalkEffect DEF Going
  <2>2. ~SeesNoChunks
    BY <2>1, JobFields DEF SeesNoChunks
  <2>3. Waits(x) => Waits(x)'
    BY <1>4, <2>1, <2>2, WalkKeeps DEF Waits
  <2>4. Dealt(x) => Dealt(x)'
    BY <2>1 DEF Dealt, Chunk
  <2> QED
    BY <1>1, <2>1, <2>3, <2>4
<1>5. ASSUME NEW id \in Ids, PruneChunk(id) \/ Remove(id) PROVE FALSE
  BY <1>5 DEF PruneChunk, Remove, pruneRest, JobInv
<1>6. ASSUME NEW w \in Writers, PruneTmp(w) PROVE FALSE
  BY <1>6 DEF PruneTmp, pruneRest
<1>7. ASSUME NEW id \in Ids, NEW k \in Workers, Feed(id, k) PROVE Waits(x)' \/ Dealt(x)'
  <2>1. /\ UNCHANGED <<file, fresh, reported, left, job, atStart, dirs>> /\ Going
        /\ names' = names \ {Chunk(id)} /\ worker[k].at = "idle"
        /\ worker' = [worker EXCEPT ![k] = [at |-> "check", id |-> id]]
    BY <1>7 DEF Feed, verifyRest, Going
  <2>2. /\ worker'[k].at = "check" /\ worker'[k].id = id
        /\ \A j \in Workers : j # k => worker'[j] = worker[j]
    BY <1>0, <2>1
  <2>3. x # id /\ Chunk(x) \in names => Chunk(x)' \in names'
    BY <2>1, NamesDiffer DEF Chunk
  <2>4. Waits(x) => Waits(x)'
    BY <2>1, <2>2, <2>3 DEF Waits, Ahead
  <2>5. Dealt(x) => Dealt(x)'
    BY <2>1, <2>2 DEF Dealt, Chunk
  <2> QED
    BY <1>1, <2>1, <2>4, <2>5
<1>8. ASSUME NEW k \in Workers, CheckChunk(k) PROVE Waits(x)' \/ Dealt(x)'
  <2>1. /\ UNCHANGED <<file, fresh, job, left, atStart, dirs, names, at>> /\ Going
        /\ reported \subseteq reported' /\ worker[k].at = "check"
        /\ \E a \in {"idle", "remove"} : worker' = [worker EXCEPT ![k].at = a]
    BY <1>0, <1>8 DEF CheckChunk, WorkerAt, verifyRest, Going
  <2>2. /\ worker'[k].at # "check" /\ worker'[k].id = worker[k].id
        /\ \A j \in Workers : j # k => worker'[j] = worker[j]
    BY <1>0, <2>1
  <2>3. Dealt(x) => Dealt(x)'
    BY <2>1, <2>2 DEF Dealt, Chunk
  <2>4. CASE worker[k].id = x /\ file[x] = "bad"
    <3>1. /\ reported' = reported \cup {x}
          /\ worker' = [worker EXCEPT ![k].at = IF job.repair THEN "remove" ELSE "idle"]
      BY <1>8, <2>1, <2>4 DEF CheckChunk, WorkerAt
    <3>2. job.repair => worker'[k].at = "remove"
      BY <1>0, <3>1
    <3> QED
      BY <2>1, <2>2, <2>4, <3>1, <3>2 DEF Dealt
  <2>5. CASE worker[k].id # x
    <3>1. Waits(x) => Waits(x)'
      BY <2>1, <2>2, <2>5 DEF Waits, Ahead, Chunk
    <3> QED
      BY <1>1, <2>1, <2>3, <3>1
  <2> QED
    BY <1>1, <2>1, <2>3, <2>4, <2>5 DEF Waits
<1>9. ASSUME NEW k \in Workers, RemoveBad(k) PROVE Waits(x)' \/ Dealt(x)'
  <2>1. /\ UNCHANGED <<fresh, job, atStart, dirs, names, at, reported>> /\ Going
        /\ worker[k].at = "remove" /\ worker' = [worker EXCEPT ![k].at = "idle"]
        /\ worker[k].id \in reported /\ left \subseteq left'
    BY <1>9 DEF RemoveBad, WorkerAt, verifyRest, Going, JobInv
  <2>2. \A j \in Workers : j # k => worker'[j] = worker[j]
    BY <1>0, <2>1
  <2>3. CASE worker[k].id = x
    BY <1>0, <1>9, <2>1, <2>3 DEF Dealt, RemoveBad, Chunk
  <2>4. CASE worker[k].id # x
    <3>1. file'[x] = file[x]
      BY <1>0, <1>9, <2>4 DEF RemoveBad
    <3>2. Waits(x) => Waits(x)'
      BY <2>1, <2>2, <3>1 DEF Waits, Ahead, Chunk
    <3>3. Dealt(x) => Dealt(x)'
      BY <2>1, <2>2, <2>4, <3>1 DEF Dealt, Chunk
    <3> QED
      BY <1>1, <2>1, <3>2, <3>3
  <2> QED
    BY <2>3, <2>4
<1>10. CASE Interrupt
  BY <1>1, <1>10 DEF Interrupt, Waits, Dealt, Ahead, Going, Chunk
<1>11. CASE KillJob
  BY <1>11 DEF KillJob, Going
<1>12. ASSUME NEW id \in Ids, Damage(id) PROVE Waits(x)' \/ Dealt(x)'
  <2>1. /\ UNCHANGED <<fresh, job, atStart, dirs, names, at, worker, reported, left>>
        /\ (id # x => file'[x] = file[x]) /\ (id = x => file[x] = "good")
    BY <1>0, <1>12 DEF Damage
  <2>2. Waits(x) \/ Dealt(x)
    BY <1>1, <2>1 DEF Going
  <2> QED
    BY <2>1, <2>2 DEF Waits, Dealt, Ahead, Chunk
<1>13. CASE UNCHANGED vars
  BY <1>1, <1>13 DEF vars, Waits, Dealt, Ahead, Going, Chunk
<1> QED
  BY <1>2, <1>3, <1>4, <1>5, <1>6, <1>7, <1>8, <1>9, <1>10, <1>11, <1>12, <1>13
     DEF Next, Job, WalkStep, VerifyWorker, Finished

-----------------------------------------------------------------------------
(* The invariant, and what it implies.                                      *)

LEMMA FilesInit == Init => FilesInv
<1> SUFFICES ASSUME Init PROVE FilesInv
  OBVIOUS
<1>1. TypeInv
  BY TypeInit
<1>2. JobInv /\ OkInv /\ PruneInv /\ VerifyInv
  BY DEF Init, JobInv, OkInv, PruneInv, VerifyInv, Going
<1>3. /\ \A w \in Writers : writer[w].at = "idle" /\ tmp[w] = "none" /\ atStart.tmp[w] = "none"
      /\ atStart.file = file
  BY DEF Init
<1>4. \A id \in Ids : file[id] = "bad" => id \in damaged
  BY DEF Init
<1>5. TmpInv /\ StoredStaysWhole
  BY <1>1, <1>3, <1>4 DEF TmpInv, StoredStaysWhole, TypeInv
<1> QED
  BY <1>1, <1>2, <1>5 DEF FilesInv

\* FilesInv holds in every state: what Prune has to remove is ahead of it, and
\* every bad chunk is ahead of Verify, with a worker of it, or reported, except
\* where the removal failed and in the stores in which the job sees no chunks.
THEOREM FilesInvariance == Spec => []FilesInv
<1>1. FilesInv /\ [Next]_vars => FilesInv'
  BY TypeStep, JobStep, TmpStep, WholeStep, PruneStep, VerifyStep DEF FilesInv
<1> QED
  BY FilesInit, <1>1, PTL DEF Spec

\* A chunk that StoreChunk has reported as stored stays in the store and whole,
\* for any number of writers that are killed anywhere, whichever temporary
\* files Prune removes: except by a Prune that does not keep it, by damage, or
\* by a Verify that took it for invalid.
THEOREM StoredWhole == Spec => []StoredStaysWhole
<1>1. FilesInv => StoredStaysWhole
  BY DEF FilesInv
<1> QED
  BY FilesInvariance, <1>1, PTL

\* A Prune or Verify that succeeds has dealt with every chunk that it had to
\* remove or report, while writers went on: it left only what it could not
\* remove, unless it looks at no chunks at all.
THEOREM PruneVerifyClean == Spec => []SuccessMeansClean
<1>1. FilesInv => SuccessMeansClean
  <2> SUFFICES ASSUME FilesInv, at = "ok", WorkersDone PROVE SuccessMeansClean
    BY DEF SuccessMeansClean
  <2>1. dirs = {} /\ names = {} /\ Going /\ job.op \in {"prune", "verify"}
    BY JobFields DEF FilesInv, OkInv, Going
  <2>2. \A id \in Ids : ~Ahead(id)
    BY <2>1 DEF Ahead
  <2>3. CASE job.op = "prune"
    BY <2>1, <2>2, <2>3 DEF FilesInv, PruneInv, SuccessMeansClean
  <2>4. CASE job.op = "verify"
    <3>1. \A k \in Workers : worker[k].at = "idle"
      BY DEF WorkersDone
    <3> QED
      BY <2>1, <2>2, <2>4, <3>1 DEF FilesInv, VerifyInv, SuccessMeansClean
  <2> QED
    BY <2>1, <2>3, <2>4
<1> QED
  BY FilesInvariance, <1>1, PTL

-----------------------------------------------------------------------------
(* The refinement of ChunkSet.                                              *)

\* Jobs do not start again.
LEMMA AtStep == TypeInv /\ [Next]_vars => job' = job /\ (at # "idle" => at' # "idle")
<1> SUFFICES ASSUME TypeInv, [Next]_vars PROVE job' = job /\ (at # "idle" => at' # "idle")
  OBVIOUS
<1> USE DEF histVars, walkVars, storeVars, End
<1>1. ASSUME NEW w \in Writers, Writer(w) \/ KillWriter(w) PROVE UNCHANGED <<job, at>>
  BY <1>1, WriterEffect
<1>2. CASE Start
  BY <1>2 DEF Start
<1>3. CASE WalkStep
  BY <1>3, WalkEffect
<1>4. ASSUME NEW id \in Ids, PruneChunk(id) \/ Remove(id) PROVE job' = job /\ at' # "idle"
  BY <1>4 DEF PruneChunk, Remove, pruneRest
<1>5. ASSUME NEW w \in Writers, PruneTmp(w) PROVE UNCHANGED <<job, at>>
  BY <1>5 DEF PruneTmp, pruneRest
<1>6. ASSUME NEW k \in Workers, VerifyWorker(k) \/ \E id \in Ids : Feed(id, k)
      PROVE  UNCHANGED <<job, at>>
  BY <1>6 DEF VerifyWorker, CheckChunk, RemoveBad, Feed, verifyRest
<1>7. CASE Interrupt \/ KillJob
  BY <1>7 DEF Interrupt, KillJob
<1>8. ASSUME NEW id \in Ids, Damage(id) PROVE UNCHANGED <<job, at>>
  BY <1>8 DEF Damage
<1>9. CASE UNCHANGED vars
  BY <1>9 DEF vars
<1> QED
  BY <1>1, <1>2, <1>3, <1>4, <1>5, <1>6, <1>7, <1>8, <1>9 DEF Next, Job, WalkStep, Finished

\* A temporary file that is missing was taken by a local Prune.
LEMMA LostStep == TypeInv /\ LostInv /\ [Next]_vars => LostInv'
<1> SUFFICES ASSUME TypeInv, LostInv, [Next]_vars PROVE LostInv'
  OBVIOUS
<1> USE DEF histVars, walkVars, storeVars, Fault, End
<1>0. Pruning => Pruning' /\ job' = job
  BY AtStep DEF Pruning
<1>1. ASSUME NEW w \in Writers, Writer(w) \/ KillWriter(w) PROVE LostInv'
  <2>1. \A v \in Writers : v # w => writer'[v] = writer[v] /\ tmp'[v] = tmp[v]
    BY <1>1, WriterEffect DEF TypeInv
  <2>2. writer'[w].at \in {"write", "rename"} /\ tmp'[w] = "none" =>
           writer[w].at = "write" /\ tmp[w] = "none"
    BY <1>1 DEF Writer, CreateTmp, WriteTmp, Rename, RenameResult, PutObject, KillWriter,
       WriterAt, TypeInv
  <2> QED
    BY <1>0, <2>1, <2>2 DEF LostInv
<1>2. ASSUME UNCHANGED <<writer, tmp>> PROVE LostInv'
  BY <1>0, <1>2 DEF LostInv
<1>3. ASSUME NEW w \in Writers, PruneTmp(w) PROVE LostInv'
  <2>1. /\ writer' = writer /\ job.op = "prune" /\ job.kind = "local" /\ at = "walk"
        /\ job' = job /\ at' = at
    BY <1>3 DEF PruneTmp, pruneRest
  <2> QED
    BY <2>1 DEF LostInv, Pruning
<1>4. CASE Start \/ WalkStep
  BY <1>2, <1>4, WalkEffect DEF Start
<1>5. ASSUME NEW id \in Ids, PruneChunk(id) \/ Remove(id) PROVE LostInv'
  BY <1>2, <1>5 DEF PruneChunk, Remove, pruneRest
<1>6. ASSUME NEW k \in Workers, VerifyWorker(k) \/ \E id \in Ids : Feed(id, k) PROVE LostInv'
  BY <1>2, <1>6 DEF VerifyWorker, CheckChunk, RemoveBad, Feed, verifyRest
<1>7. CASE Interrupt \/ KillJob
  BY <1>2, <1>7 DEF Interrupt, KillJob
<1>8. ASSUME NEW id \in Ids, Damage(id) PROVE LostInv'
  BY <1>2, <1>8 DEF Damage
<1>9. CASE UNCHANGED vars
  BY <1>2, <1>9 DEF vars
<1> QED
  BY <1>1, <1>3, <1>4, <1>5, <1>6, <1>7, <1>8, <1>9 DEF Next, Job, WalkStep, Finished

\* The program starts where ChunkSet does.
LEMMA SharedInit == Init => Shared!Init
<1> SUFFICES ASSUME Init PROVE Shared!Init
  OBVIOUS
<1>1. file \in [Ids -> {"none", "good", "bad"}]
  BY ContentsAssumption DEF Init
<1>2. Puts \in [Writers -> [id : Ids, result : {"open"}]]
  <2>1. PICK ids \in ToStore : writer = [w \in Writers |-> [at |-> "idle", id |-> ids[w]]]
    BY DEF Init
  <2>2. \A w \in Writers : writer[w].at = "idle" /\ writer[w].id \in Ids
    BY <2>1, ToStoreAssumption
  <2> QED
    BY <2>2 DEF Puts, Result
<1>3. ~Pruning /\ Doomed = {} /\ faults = 0
  BY DEF Init, Pruning, Doomed
<1> QED
  BY <1>1, <1>2, <1>3 DEF Shared!Init

\* What a job may remove depends on the job, on whether it has begun, and on
\* what it has reported.
LEMMA SameDoomed ==
    ASSUME job' = job, reported' = reported, (at' = "idle") <=> (at = "idle")
    PROVE  Doomed' = Doomed /\ (Pruning' <=> Pruning)
BY DEF Doomed, Pruning, Keeps

\* Steps in which nothing happens to chunks and writers.
LEMMA NothingShared ==
    ASSUME UNCHANGED <<job, file, writer, reported>>, (at' = "idle") <=> (at = "idle"),
           faults \in Nat, faults' \in {faults, faults + 1}
    PROVE  Shared!GoWrong \/ UNCHANGED Shared!vars
<1>1. Doomed' = Doomed /\ (Pruning' <=> Pruning)
  BY SameDoomed
<1>2. Puts' = Puts
  BY DEF Puts
<1>3. (faults' > 0) = TRUE \/ (faults' > 0) = (faults > 0)
  OBVIOUS
<1> QED
  BY <1>1, <1>2, <1>3 DEF Shared!GoWrong, Shared!vars

\* What a writer is asked for stays, and its result is seen when it has one.
LEMMA PutsStep ==
    ASSUME TypeInv, NEW w \in Writers, NEW a, WriterAt(w, a)
    PROVE  /\ Puts' = [Puts EXCEPT ![w].result = Result(a)]
           /\ Puts[w] = [id |-> writer[w].id, result |-> Result(writer[w].at)]
<1>1. writer \in [Writers -> [at : WriterStates, id : Ids]]
  BY DEF TypeInv
<1>2. /\ writer'[w].at = a /\ writer'[w].id = writer[w].id
      /\ \A v \in Writers : v # w => writer'[v] = writer[v]
  BY <1>1 DEF WriterAt
<1>3. Puts' = [v \in Writers |-> IF v = w THEN [id |-> writer[w].id, result |-> Result(a)]
                                 ELSE Puts[v]]
  BY <1>2 DEF Puts
<1>4. [Puts EXCEPT ![w].result = Result(a)] =
        [v \in Writers |-> IF v = w THEN [id |-> writer[w].id, result |-> Result(a)] ELSE Puts[v]]
  <2> DEFINE rec == [id |-> writer[w].id, result |-> Result(writer[w].at)]
             r   == Result(a)
  <2>1. DOMAIN Puts = Writers /\ Puts = [v \in Writers |-> Puts[v]] /\ Puts[w] = rec
    BY DEF Puts
  <2>2. [rec EXCEPT !.result = r] = [id |-> writer[w].id, result |-> r]
    OBVIOUS
  <2> HIDE DEF rec, r
  <2>3. [Puts EXCEPT ![w].result = r] = [v \in Writers |-> IF v = w THEN [rec EXCEPT !.result = r]
                                                         ELSE Puts[v]]
    BY <2>1
  <2> QED
    BY <2>2, <2>3 DEF r
<1> QED
  BY <1>3, <1>4 DEF Puts

\* A step of a writer: it stores its chunk and returns, it fails, or nothing is
\* seen of it.
LEMMA WriterShared ==
    ASSUME TypeInv, LostInv, NEW w \in Writers, Writer(w) \/ KillWriter(w)
    PROVE  Shared!Store(w) \/ Shared!Fail(w) \/ UNCHANGED Shared!vars
<1> USE DEF histVars, walkVars, storeVars
<1>1. Doomed' = Doomed /\ (Pruning' <=> Pruning) /\ job' = job
  <2>1. UNCHANGED <<job, reported, at>>
    BY WriterEffect
  <2> QED
    BY <2>1, SameDoomed
<1>2. faults \in Nat
  BY DEF TypeInv
<1>3. writer[w].at \in {"idle", "write", "rename"} /\ Result(writer[w].at) = "open"
  BY DEF Writer, CreateTmp, WriteTmp, Rename, PutObject, KillWriter, Result
<1>4. Puts[w].id = writer[w].id /\ Puts[w].result = "open"
  BY <1>3 DEF Puts
<1>5. ASSUME NEW a \in {"error", "killed"}, WriterAt(w, a), UNCHANGED file,
             Fault \/ (Pruning /\ job.kind = "local" /\ UNCHANGED faults)
      PROVE  Shared!Fail(w)
  <2>1. Puts' = [Puts EXCEPT ![w].result = "failed"]
    BY <1>5, PutsStep DEF Result
  <2>2. \/ (faults' > 0) = TRUE
        \/ Pruning /\ job.kind = "local" /\ (faults' > 0) = (faults > 0)
    BY <1>2, <1>5 DEF Fault
  <2> QED
    BY <1>1, <1>4, <1>5, <2>1, <2>2 DEF Shared!Fail, Shared!Return
<1>6. ASSUME NEW a \in {"write", "rename"}, WriterAt(w, a), UNCHANGED <<file, faults>>
      PROVE  UNCHANGED Shared!vars
  <2>1. Puts' = [Puts EXCEPT ![w].result = "open"]
    BY <1>6, PutsStep DEF Result
  <2>2. Puts' = Puts
    BY <1>4, <2>1 DEF Puts
  <2> QED
    BY <1>1, <1>6, <2>2 DEF Shared!vars
<1>7. ASSUME Put(w), \/ WriterAt(w, "ok") /\ UNCHANGED faults
                     \/ WriterAt(w, "error") /\ Fault
      PROVE  Shared!Store(w)
  <2>1. file' = [file EXCEPT ![Puts[w].id] = "good"]
    BY <1>4, <1>7 DEF Put
  <2>2. CASE WriterAt(w, "ok") /\ UNCHANGED faults
    <3>1. Puts' = [Puts EXCEPT ![w].result = "ok"]
      BY <2>2, PutsStep DEF Result
    <3> QED
      BY <1>1, <1>4, <2>1, <2>2, <3>1 DEF Shared!Store, Shared!Return
  <2>3. CASE WriterAt(w, "error") /\ Fault
    <3>1. Puts' = [Puts EXCEPT ![w].result = "failed"]
      BY <2>3, PutsStep DEF Result
    <3>2. (faults' > 0) = TRUE
      BY <1>2, <2>3 DEF Fault
    <3> QED
      BY <1>1, <1>4, <2>1, <3>1, <3>2 DEF Shared!Store, Shared!Return
  <2> QED
    BY <1>7, <2>2, <2>3
<1>8. CASE CreateTmp(w)
  BY <1>5, <1>6, <1>8 DEF CreateTmp
<1>9. CASE WriteTmp(w)
  BY <1>5, <1>6, <1>9 DEF WriteTmp
<1>10. CASE Rename(w)
  <2>1. CASE tmp[w] = "none" /\ ~Fault
    <3>1. Pruning /\ job.kind = "local"
      BY <1>10, <2>1 DEF Rename, LostInv
    <3>2. WriterAt(w, "error") /\ UNCHANGED <<file, faults>>
      BY <1>10, <2>1 DEF Rename, RenameResult
    <3> QED
      BY <1>5, <3>1, <3>2
  <2>2. CASE tmp[w] = "none" /\ Fault
    BY <1>2, <1>5, <1>10, <2>2 DEF Rename, RenameResult, Fault
  <2>3. CASE tmp[w] # "none"
    BY <1>5, <1>7, <1>10, <2>3 DEF Rename, RenameResult
  <2> QED
    BY <2>1, <2>2, <2>3
<1>11. CASE PutObject(w)
  BY <1>5, <1>7, <1>11 DEF PutObject
<1>12. CASE KillWriter(w)
  BY <1>5, <1>12 DEF KillWriter
<1> QED
  BY <1>8, <1>9, <1>10, <1>11, <1>12 DEF Writer

\* A step of Verify: it reports a chunk, removes one that it has reported, or
\* nothing is seen of it.
LEMMA VerifyShared ==
    ASSUME TypeInv, JobInv, NEW k \in Workers, VerifyWorker(k)
    PROVE  [Shared!Next]_Shared!vars
<1> DEFINE id == worker[k].id
<1>1. faults \in Nat /\ id \in Ids /\ job.op = "verify" /\ Doomed = reported
  BY DEF TypeInv, JobInv, Doomed, VerifyWorker, CheckChunk, RemoveBad
<1>2. UNCHANGED <<job, at, writer>>
  BY DEF VerifyWorker, CheckChunk, RemoveBad, verifyRest, histVars
<1>3. Puts' = Puts /\ (Pruning' <=> Pruning) /\ Doomed' = reported'
  BY <1>1, <1>2 DEF Puts, Pruning, Doomed
<1>4. CASE CheckChunk(k)
  <2>1. file' = file
    BY <1>4 DEF CheckChunk
  <2>2. CASE UNCHANGED <<reported, faults>>
    BY <1>1, <1>2, <2>1, <2>2, NothingShared DEF Shared!Next
  <2>3. CASE reported' = reported \cup {id} /\ file[id] = "bad" /\ UNCHANGED faults
    <3>1. Shared!Report(id)
      BY <1>1, <1>2, <1>3, <2>1, <2>3 DEF Shared!Report
    <3> QED
      BY <1>1, <3>1 DEF Shared!Next
  <2>4. CASE reported' = reported \cup {id} /\ file[id] = "good" /\ Fault
    <3>1. (faults' > 0) = TRUE
      BY <1>1, <2>4 DEF Fault
    <3>2. Shared!Report(id)
      BY <1>1, <1>2, <1>3, <2>1, <2>4, <3>1 DEF Shared!Report
    <3> QED
      BY <1>1, <3>2 DEF Shared!Next
  <2> QED
    BY <1>4, <2>2, <2>3, <2>4 DEF CheckChunk
<1>5. CASE RemoveBad(k)
  <2>1. reported' = reported /\ id \in reported
    BY <1>5 DEF RemoveBad, JobInv
  <2>2. CASE file' = [file EXCEPT ![id] = "none"] /\ UNCHANGED faults
    <3>1. Shared!Remove(id)
      BY <1>1, <1>2, <1>3, <2>1, <2>2 DEF Shared!Remove
    <3> QED
      BY <1>1, <3>1 DEF Shared!Next
  <2>3. CASE UNCHANGED file /\ Fault
    BY <1>1, <1>2, <2>1, <2>3, NothingShared DEF Fault, Shared!Next
  <2> QED
    BY <1>5, <2>2, <2>3 DEF RemoveBad
<1> QED
  BY <1>4, <1>5 DEF VerifyWorker

\* Every step of the program is a step of ChunkSet, or nothing is seen of it.
LEMMA SharedStep ==
    TypeInv /\ JobInv /\ LostInv /\ [Next]_vars => [Shared!Next]_Shared!vars
<1> SUFFICES ASSUME TypeInv, JobInv, LostInv, [Next]_vars PROVE [Shared!Next]_Shared!vars
  OBVIOUS
<1> USE DEF histVars, walkVars, storeVars
<1>0. faults \in Nat
  BY DEF TypeInv
<1>1. ASSUME NEW w \in Writers, Writer(w) \/ KillWriter(w) PROVE [Shared!Next]_Shared!vars
  BY <1>1, WriterShared DEF Shared!Next
<1>2. CASE Start
  <2>1. /\ at = "idle" /\ at' # "idle" /\ UNCHANGED <<job, file, writer, reported, faults>>
    BY <1>2 DEF Start
  <2>2. Puts' = Puts
    BY <2>1 DEF Puts
  <2>3. CASE job.op = "verify"
    <3>1. Doomed' = Doomed /\ ~Pruning /\ ~Pruning'
      BY <2>1, <2>3 DEF Doomed, Pruning
    <3> QED
      BY <2>1, <2>2, <3>1 DEF Shared!vars
  <2>4. CASE job.op # "verify"
    <3>1. Doomed = {} /\ ~Pruning /\ Doomed' \in SUBSET Ids
      BY <2>1, <2>4 DEF Doomed, Pruning
    <3>2. Shared!Prune
      BY <2>1, <2>2, <3>1 DEF Shared!Prune
    <3> QED
      BY <3>2 DEF Shared!Next
  <2> QED
    BY <2>3, <2>4
<1>3. CASE WalkStep
  <2>1. /\ UNCHANGED <<job, file, writer, reported>> /\ faults' \in {faults, faults + 1}
        /\ at # "idle" /\ at' # "idle"
    BY <1>3, WalkEffect
  <2> QED
    BY <1>0, <2>1, NothingShared DEF Shared!Next
<1>4. ASSUME NEW id \in Ids, PruneChunk(id) PROVE [Shared!Next]_Shared!vars
  <2>1. /\ UNCHANGED <<job, file, writer, reported, faults>>
        /\ at # "idle" /\ at' # "idle"
    BY <1>4 DEF PruneChunk, pruneRest
  <2> QED
    BY <1>0, <2>1, NothingShared DEF Shared!Next
<1>5. ASSUME NEW id \in Ids, Remove(id) PROVE [Shared!Next]_Shared!vars
  <2>1. /\ UNCHANGED <<job, writer, reported>> /\ job.op = "prune" /\ ~Keeps(id)
        /\ at # "idle" /\ at' # "idle"
    BY <1>5 DEF Remove, pruneRest, JobInv, End
  <2>2. CASE file' = [file EXCEPT ![id] = "none"] /\ UNCHANGED faults
    <3>1. id \in Doomed /\ Doomed' = Doomed /\ (Pruning' <=> Pruning)
      BY <2>1, SameDoomed DEF Doomed, Pruning
    <3>2. Puts' = Puts
      BY <2>1 DEF Puts
    <3>3. Shared!Remove(id)
      BY <2>1, <2>2, <3>1, <3>2 DEF Shared!Remove
    <3> QED
      BY <3>3 DEF Shared!Next
  <2>3. CASE UNCHANGED file /\ Fault
    BY <1>0, <2>1, <2>3, NothingShared DEF Fault, Shared!Next
  <2> QED
    BY <1>5, <2>2, <2>3 DEF Remove
<1>6. ASSUME NEW w \in Writers, PruneTmp(w) PROVE [Shared!Next]_Shared!vars
  <2>1. UNCHANGED <<job, file, writer, reported, at>> /\ faults' \in {faults, faults + 1}
    BY <1>6 DEF PruneTmp, pruneRest, Fault
  <2> QED
    BY <1>0, <2>1, NothingShared DEF Shared!Next
<1>7. ASSUME NEW id \in Ids, NEW k \in Workers, Feed(id, k) PROVE [Shared!Next]_Shared!vars
  <2>1. UNCHANGED <<job, file, writer, reported, faults, at>>
    BY <1>7 DEF Feed, verifyRest
  <2> QED
    BY <1>0, <2>1, NothingShared DEF Shared!Next
<1>8. ASSUME NEW k \in Workers, VerifyWorker(k) PROVE [Shared!Next]_Shared!vars
  BY <1>8, VerifyShared
<1>9. CASE Interrupt \/ KillJob
  <2>1. /\ UNCHANGED <<job, file, writer, reported>> /\ faults' \in {faults, faults + 1}
        /\ at # "idle" /\ at' # "idle"
    BY <1>9 DEF Interrupt, KillJob, End, Fault
  <2> QED
    BY <1>0, <2>1, NothingShared DEF Shared!Next
<1>10. ASSUME NEW id \in Ids, Damage(id) PROVE [Shared!Next]_Shared!vars
  <2>1. UNCHANGED <<job, writer, reported, at>>
    BY <1>10 DEF Damage
  <2>2. Puts' = Puts /\ Doomed' = Doomed /\ (Pruning' <=> Pruning)
    BY <2>1, SameDoomed DEF Puts
  <2>3. (faults' > 0) = TRUE
    BY <1>0, <1>10 DEF Damage, Fault
  <2>4. Shared!Damage(id)
    BY <1>10, <2>1, <2>2, <2>3 DEF Damage, Shared!Damage
  <2> QED
    BY <2>4 DEF Shared!Next
<1>11. CASE UNCHANGED vars
  <2>1. UNCHANGED <<job, file, writer, reported, faults, at>>
    BY <1>11 DEF vars
  <2> QED
    BY <1>0, <2>1, NothingShared DEF Shared!Next
<1> QED
  BY <1>1, <1>2, <1>3, <1>4, <1>5, <1>6, <1>7, <1>8, <1>9, <1>10, <1>11
     DEF Next, Job, WalkStep, Finished

\* A store shared by writers, Prune and Verify is a ChunkSet, for any chunks,
\* writers and jobs, local, sftp, s3 and gcs, with kills and failures anywhere:
\* chunks are stored at once or not at all, and only doomed ones go.
THEOREM FilesAreChunkSet == Spec => ImplementsChunkSet
<1>1. Init => LostInv
  BY DEF Init, LostInv
<1>2. FilesInv => TypeInv /\ JobInv
  BY DEF FilesInv
<1>3. Spec => []LostInv
  BY <1>1, <1>2, LostStep, FilesInvariance, PTL DEF Spec
<1> QED
  BY <1>2, <1>3, FilesInvariance, SharedInit, SharedStep, PTL
     DEF Spec, ImplementsChunkSet, Shared!Spec

=============================================================================
