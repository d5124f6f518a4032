-------------------------- MODULE ChunkPoolProofs --------------------------
(* Proofs about ChunkPool, for any index, any number of workers and any     *)
(* batch size.  The inductive invariant PoolInv says what becomes of each   *)
(* job that was handed out.                                                 *)
EXTENDS ChunkPool, FiniteSetTheorems, TLAPS

\* A batch ends in the index, and not before it starts.
LEMMA LastOfRange ==
    ASSUME TypeOK, NEW i \in Jobs
    PROVE  /\ LastOf(i) \in Jobs /\ i <= LastOf(i)
           /\ cmd # "verify-index" => LastOf(i) = i
<1>1. Len(ids) \in Nat /\ i \in Nat /\ i <= Len(ids) /\ 1 <= i
  BY DEF TypeOK, Jobs
<1>2. Batch \in Nat /\ (cmd # "verify-index" => Batch = 0)
  <2>1. Cardinality(Workers) \in Nat /\ Cardinality(Workers) # 0
    BY WorkersAssumption, FS_CardinalityType, FS_EmptySet
  <2>2. \A m, n \in Nat \ {0} : m * n \in Nat \ {0}
    OBVIOUS
  <2>3. Cardinality(Workers) * BatchFactor \in Nat \ {0}
    BY <2>1, <2>2, InputAssumption
  <2>4. \A m \in Nat, n \in Nat \ {0} : m \div n \in Nat
    OBVIOUS
  <2> QED
    BY <1>1, <2>3, <2>4 DEF Batch
<1> QED
  BY <1>1, <1>2 DEF LastOf, Jobs

\* Initially the invariant holds.
LEMMA PoolInit == Init => PoolInv
<1> SUFFICES ASSUME Init PROVE PoolInv
  OBVIOUS
<1> USE DEF Init
<1>1. cmd \in AllCommands /\ ids \in Seq(IDs) /\ Len(ids) \in Nat
  BY InputAssumption
<1>2. TypeOK
  <2>1. NoJob \in [first : 0..Len(ids), last : 0..Len(ids)]
    BY <1>1 DEF NoJob
  <2>2. good \subseteq Jobs /\ has \subseteq IDs /\ fed \in 1..(Len(ids) + 1)
    BY <1>1
  <2> QED
    BY <1>1, <2>1, <2>2 DEF TypeOK
<1>3. JobInv /\ DisjointInv /\ RecordInv
  BY DEF JobInv, DisjointInv, RecordInv, AtRest
<1>4. DistinctInv /\ MarkInv /\ OneWriterPerChunk
  BY DEF DistinctInv, MarkInv, OneWriterPerChunk, Storing
<1>5. HandledInv
  BY DEF HandledInv
<1>6. PhaseInv
  BY DEF PhaseInv
<1> QED
  BY <1>2, <1>3, <1>4, <1>5, <1>6 DEF PoolInv

\* Where workers can be.
Labels == {"idle", "read", "mark", "has", "get", "store", "unmark", "exit", "fail"}

\* What the steps of a worker have in common.
LEMMA WorkerEffect ==
    ASSUME NEW w \in Workers, Worker(w)
    PROVE  /\ \E l \in Labels : wpc' = [wpc EXCEPT ![w] = l]
           /\ job' = job \/ job' = [job EXCEPT ![w] = NoJob]
           /\ gErr' = gErr \/ gErr' = TRUE
           /\ UNCHANGED <<cmd, ids, good, main, fed, tarErr, cancelled, published, result>>
<1> USE DEF input, outcome, Goto, Labels
<1>1. CASE Read(w)
  BY <1>1 DEF Read, Fails, Finishes
<1>2. CASE MarkProcessed(w)
  BY <1>2 DEF MarkProcessed, Finishes
<1>3. CASE HasChunk(w)
  BY <1>3 DEF HasChunk, Fails, Finishes
<1>4. CASE GetChunk(w)
  BY <1>4 DEF GetChunk, Fails
<1>5. CASE StoreChunk(w)
  BY <1>5 DEF StoreChunk, Fails, Finishes
<1>6. CASE UnmarkProcessed(w) \/ Exit(w)
  BY <1>6 DEF UnmarkProcessed, Exit, Fails
<1> QED
  BY <1>1, <1>2, <1>3, <1>4, <1>5, <1>6 DEF Worker

\* Chunks that are stored, marked or recorded are those of the index.
LEMMA WorkerSets ==
    ASSUME TypeOK, JobInv, NEW w \in Workers, Worker(w)
    PROVE  has' \subseteq IDs /\ processed' \subseteq IDs /\ recorded' \subseteq Jobs
<1> USE DEF input, outcome
<1>1. has \subseteq IDs /\ processed \subseteq IDs /\ recorded \subseteq Jobs
  BY DEF TypeOK
<1>2. ASSUME ~AtRest(w)
      PROVE  Chunk(w) \in IDs /\ job[w].first..job[w].last \subseteq Jobs
  BY <1>2 DEF JobInv, TypeOK, Chunk, Jobs
<1>3. CASE Read(w)
  BY <1>1, <1>2, <1>3 DEF Read, AtRest
<1>4. CASE MarkProcessed(w)
  BY <1>1, <1>2, <1>4 DEF MarkProcessed, WithMark, AtRest
<1>5. CASE StoreChunk(w)
  BY <1>1, <1>2, <1>5 DEF StoreChunk, AtRest
<1>6. CASE HasChunk(w) \/ GetChunk(w) \/ UnmarkProcessed(w) \/ Exit(w)
  BY <1>1, <1>6 DEF HasChunk, GetChunk, UnmarkProcessed, Exit
<1> QED
  BY <1>3, <1>4, <1>5, <1>6 DEF Worker

\* Types are kept.
LEMMA PoolType == TypeOK /\ JobInv /\ [Next]_vars => TypeOK'
<1> SUFFICES ASSUME TypeOK, JobInv, [Next]_vars PROVE TypeOK'
  OBVIOUS
<1> USE DEF input, outcome, Goto, Jobs
<1>0. Len(ids) \in Nat /\ NoJob \in [first : 0..Len(ids), last : 0..Len(ids)]
  BY DEF TypeOK, NoJob
<1>1. ASSUME NEW w \in Workers, Feed(w) PROVE TypeOK'
  <2>1. fed \in Jobs
    BY <1>0, <1>1 DEF Feed, TypeOK
  <2>2. LastOf(fed) \in Jobs /\ fed <= LastOf(fed)
    BY <2>1, LastOfRange
  <2>3. [first |-> fed, last |-> LastOf(fed)] \in [first : 0..Len(ids), last : 0..Len(ids)]
    BY <1>0, <2>1, <2>2
  <2> QED
    BY <1>0, <1>1, <2>1, <2>2, <2>3 DEF Feed, TypeOK
<1>2. CASE FeedEnd \/ TarFails
  BY <1>2 DEF FeedEnd, TarFails, TypeOK
<1>3. CASE ReturnEarly \/ StoreIndex
  BY <1>3 DEF ReturnEarly, StoreIndex, TypeOK
<1>4. CASE WaitWorkers
  BY <1>4 DEF WaitWorkers, TypeOK
<1>5. ASSUME NEW w \in Workers, Worker(w) PROVE TypeOK'
  <2>1. has' \subseteq IDs /\ processed' \subseteq IDs /\ recorded' \subseteq Jobs
    BY <1>5, WorkerSets
  <2>2. job' \in [Workers -> [first : 0..Len(ids), last : 0..Len(ids)]]
    BY <1>0, <1>5, WorkerEffect DEF TypeOK
  <2>3. wpc' \in [Workers -> Labels]
    BY <1>5, WorkerEffect DEF TypeOK, Labels
  <2>4. gErr' \in BOOLEAN
    BY <1>5, WorkerEffect DEF TypeOK
  <2> QED
    BY <1>5, <2>1, <2>2, <2>3, <2>4, WorkerEffect DEF TypeOK, Labels
<1>6. CASE Cancel
  BY <1>6 DEF Cancel, TypeOK
<1>7. CASE UNCHANGED vars
  BY <1>7 DEF vars, TypeOK
<1> QED
  BY <1>1, <1>2, <1>3, <1>4, <1>5, <1>6, <1>7 DEF Next, Main, Ended

\* Busy workers have jobs of the index that nobody else has.
LEMMA PoolJobs ==
    TypeOK /\ JobInv /\ DisjointInv /\ [Next]_vars => JobInv' /\ DisjointInv'
<1> SUFFICES ASSUME TypeOK, JobInv, DisjointInv, [Next]_vars
             PROVE  JobInv' /\ DisjointInv'
  OBVIOUS
<1> USE DEF input, outcome, Goto, AtRest, Stores
<1>0. /\ Len(ids) \in Nat /\ fed \in Nat
      /\ \A v \in Workers : job[v].first \in Nat /\ job[v].last \in Nat
      /\ wpc \in [Workers -> Labels] /\ DOMAIN job = Workers
  BY DEF TypeOK, Labels
<1>1. ASSUME NEW w \in Workers, Feed(w) PROVE JobInv' /\ DisjointInv'
  <2>1. fed \in Jobs
    BY <1>0, <1>1 DEF Feed, TypeOK, Jobs
  <2>2. /\ LastOf(fed) \in Nat /\ fed <= LastOf(fed)
        /\ cmd # "verify-index" => LastOf(fed) = fed
    BY <1>0, <2>1, LastOfRange DEF Jobs
  <2>3. /\ job'[w].first = fed /\ job'[w].last = LastOf(fed)
        /\ \A v \in Workers : v # w => job'[v] = job[v] /\ wpc'[v] = wpc[v]
        /\ wpc[w] = "idle" /\ wpc'[w] = (IF cmd = "cache" THEN "has" ELSE "read")
        /\ fed' = LastOf(fed) + 1 /\ UNCHANGED <<cmd, gErr>>
    BY <1>0, <1>1 DEF Feed
  <2>4. JobInv'
    BY <1>0, <2>1, <2>2, <2>3 DEF JobInv, Jobs
  <2>5. DisjointInv'
    BY <1>0, <2>1, <2>2, <2>3 DEF JobInv, DisjointInv, Jobs
  <2> QED
    BY <2>4, <2>5
<1>2. CASE FeedEnd \/ TarFails \/ ReturnEarly \/ StoreIndex \/ WaitWorkers \/ Cancel
  <2>1. UNCHANGED <<cmd, ids, fed, wpc, job, gErr>>
    BY <1>2 DEF FeedEnd, TarFails, ReturnEarly, StoreIndex, WaitWorkers, Cancel
  <2> QED
    BY <2>1 DEF JobInv, DisjointInv
<1>3. ASSUME NEW w \in Workers, Worker(w) PROVE JobInv' /\ DisjointInv'
  <2>1. /\ \A v \in Workers : v # w => job'[v] = job[v] /\ wpc'[v] = wpc[v]
        /\ UNCHANGED <<cmd, ids, fed>> /\ (gErr => gErr')
    BY <1>0, <1>3, WorkerEffect
  <2>2. /\ wpc'[w] \in {"idle", "exit", "fail"} \/ (job'[w] = job[w] /\ ~AtRest(w))
        /\ wpc'[w] \in {"mark", "unmark"} => Stores
        /\ wpc'[w] = "get" => cmd = "cache"
        /\ wpc'[w] \in {"has", "store"} => cmd # "verify-index"
        /\ wpc'[w] = "fail" => gErr'
    <3>1. CASE Read(w)
      BY <1>0, <3>1 DEF Read, Fails, Finishes
    <3>2. CASE MarkProcessed(w)
      BY <1>0, <3>2 DEF MarkProcessed, Finishes, JobInv
    <3>3. CASE HasChunk(w)
      BY <1>0, <3>3 DEF HasChunk, Fails, Finishes, JobInv, TypeOK, AllCommands
    <3>4. CASE GetChunk(w)
      BY <1>0, <3>4 DEF GetChunk, Fails, JobInv
    <3>5. CASE StoreChunk(w)
      BY <1>0, <3>5 DEF StoreChunk, Fails, Finishes, JobInv, TypeOK, AllCommands
    <3>6. CASE UnmarkProcessed(w) \/ Exit(w)
      BY <1>0, <3>6 DEF UnmarkProcessed, Exit, Fails
    <3> QED
      BY <1>3, <3>1, <3>2, <3>3, <3>4, <3>5, <3>6 DEF Worker
  <2>3. JobInv'
    BY <2>1, <2>2 DEF JobInv
  <2>4. DisjointInv'
    BY <2>1, <2>2 DEF DisjointInv
  <2> QED
    BY <2>3, <2>4
<1>4. CASE UNCHANGED vars
  BY <1>4 DEF vars, JobInv, DisjointInv
<1> QED
  BY <1>1, <1>2, <1>3, <1>4 DEF Next, Main, Ended

\* Workers of cache have different chunks, since their jobs are different.
LEMMA CacheWriters ==
    TypeOK /\ JobInv /\ DisjointInv /\ DistinctInv /\ cmd = "cache" => OneWriterPerChunk
<1> SUFFICES ASSUME TypeOK, JobInv, DisjointInv, DistinctInv, cmd = "cache",
                    NEW v \in Workers, NEW w \in Workers, v # w, ~AtRest(v), ~AtRest(w)
             PROVE  Chunk(v) # Chunk(w)
  BY DEF OneWriterPerChunk, AtRest
<1>1. /\ \A u \in Workers : job[u].first \in Nat /\ job[u].last \in Nat
      /\ Len(ids) \in Nat /\ fed \in Nat /\ fed <= Len(ids) + 1
  BY DEF TypeOK
<1>2. job[v].first \in Jobs /\ job[w].first \in Jobs /\ job[v].first # job[w].first
  BY <1>1 DEF JobInv, DisjointInv, Jobs
<1> QED
  BY <1>2 DEF DistinctInv, Chunk

\* Marks are kept by workers that store, and taken back only after a failure.
LEMMA PoolMarks ==
    PoolInv /\ TypeOK' /\ JobInv' /\ DisjointInv' /\ [Next]_vars
        => MarkInv' /\ OneWriterPerChunk' /\ DistinctInv'
<1> SUFFICES ASSUME TypeOK, JobInv, DisjointInv, DistinctInv, MarkInv, OneWriterPerChunk,
                    TypeOK', JobInv', DisjointInv', [Next]_vars
             PROVE  MarkInv' /\ OneWriterPerChunk' /\ DistinctInv'
  BY DEF PoolInv
<1> USE DEF input, outcome, Goto, Stores, Storing
<1>0. /\ wpc \in [Workers -> Labels] /\ DOMAIN job = Workers
      /\ cmd \in AllCommands
  BY DEF TypeOK, Labels
<1>1. UNCHANGED <<cmd, ids>> /\ DistinctInv'
  <2>1. UNCHANGED <<cmd, ids>>
    BY WorkerEffect DEF Next, Main, Feed, FeedEnd, TarFails, ReturnEarly, WaitWorkers,
                        StoreIndex, Cancel, Ended, vars
  <2> QED
    BY <2>1 DEF DistinctInv, Jobs
<1>2. cmd = "cache" => OneWriterPerChunk'
  <2>1. TypeOK' /\ JobInv' /\ DisjointInv' /\ DistinctInv' /\ (cmd = "cache")'
            => OneWriterPerChunk'
    BY CacheWriters, PTL
  <2> QED
    BY <1>1, <2>1
<1>3. ASSUME NEW w \in Workers, Feed(w) PROVE MarkInv' /\ OneWriterPerChunk'
  <2>1. /\ \A v \in Workers : v # w => Chunk(v)' = Chunk(v) /\ wpc'[v] = wpc[v]
        /\ wpc[w] = "idle" /\ wpc'[w] = (IF cmd = "cache" THEN "has" ELSE "read")
        /\ UNCHANGED <<has, processed, gErr>>
    BY <1>0, <1>3 DEF Feed, Chunk
  <2>2. MarkInv'
    BY <1>1, <2>1 DEF MarkInv
  <2>3. cmd # "cache" => OneWriterPerChunk'
    BY <2>1 DEF OneWriterPerChunk
  <2> QED
    BY <1>2, <2>2, <2>3
<1>4. CASE FeedEnd \/ TarFails \/ ReturnEarly \/ StoreIndex \/ WaitWorkers \/ Cancel
  <2>1. UNCHANGED <<cmd, ids, has, processed, wpc, job, gErr>>
    BY <1>4 DEF FeedEnd, TarFails, ReturnEarly, StoreIndex, WaitWorkers, Cancel
  <2>2. MarkInv'
    BY <2>1 DEF MarkInv, Chunk
  <2>3. OneWriterPerChunk'
    BY <2>1 DEF OneWriterPerChunk, Chunk
  <2> QED
    BY <1>1, <2>2, <2>3
<1>5. ASSUME NEW w \in Workers, Worker(w) PROVE MarkInv' /\ OneWriterPerChunk'
  <2>1. /\ \A v \in Workers : v # w => Chunk(v)' = Chunk(v) /\ wpc'[v] = wpc[v]
        /\ wpc'[w] \in Labels /\ (gErr => gErr')
    BY <1>0, <1>5, <1>1, WorkerEffect DEF Chunk
  <2>2. CASE Read(w) \/ GetChunk(w) \/ Exit(w)
    <3>1. /\ UNCHANGED <<has, processed>> /\ ~Storing(w)
          /\ wpc'[w] \in {"idle", "mark", "exit", "fail"} \/ cmd = "cache"
      BY <1>0, <2>2 DEF Read, GetChunk, Exit, Fails, Finishes, JobInv
    <3>2. MarkInv'
      BY <1>1, <2>1, <3>1 DEF MarkInv
    <3>3. cmd # "cache" => OneWriterPerChunk'
      BY <2>1, <3>1 DEF OneWriterPerChunk
    <3> QED
      BY <1>2, <3>2, <3>3
  <2>3. CASE MarkProcessed(w)
    <3>1. /\ wpc[w] = "mark" /\ has' = has
          /\ processed' = processed \cup {Chunk(w)}
          /\ \/ Chunk(w) \in processed /\ wpc'[w] = "idle"
             \/ Chunk(w) \notin processed /\ wpc'[w] = "has" /\ Chunk(w)' = Chunk(w)
      BY <1>0, <1>1, <2>3 DEF MarkProcessed, Finishes, WithMark, Chunk
    <3>2. MarkInv'
      BY <1>1, <2>1, <3>1 DEF MarkInv, JobInv
    <3>3. \A v \in Workers : v # w /\ Storing(v) => Chunk(v) \in processed
      BY <3>1 DEF MarkInv, JobInv
    <3>4. OneWriterPerChunk'
      BY <2>1, <3>1, <3>3 DEF OneWriterPerChunk
    <3> QED
      BY <3>2, <3>4
  <2>4. CASE HasChunk(w)
    <3>1. /\ wpc[w] = "has" /\ UNCHANGED <<has, processed>>
          /\ \/ Chunk(w) \in has /\ wpc'[w] = "idle"
             \/ wpc'[w] = "fail" /\ gErr'
             \/ wpc'[w] = "get" /\ cmd = "cache"
             \/ wpc'[w] = "store" /\ Chunk(w)' = Chunk(w)
      BY <1>0, <1>1, <2>4 DEF HasChunk, HasIt, Finishes, Fails, Chunk
    <3>2. MarkInv'
      BY <1>1, <2>1, <3>1 DEF MarkInv
    <3>3. OneWriterPerChunk'
      BY <2>1, <3>1 DEF OneWriterPerChunk
    <3> QED
      BY <3>2, <3>3
  <2>5. CASE StoreChunk(w)
    <3>1. /\ wpc[w] = "store" /\ processed' = processed /\ has \subseteq has'
          /\ \/ Chunk(w) \in has' /\ wpc'[w] = "idle"
             \/ wpc'[w] = "fail" /\ gErr'
             \/ wpc'[w] = "unmark" /\ Chunk(w)' = Chunk(w)
      BY <1>0, <1>1, <2>5 DEF StoreChunk, Finishes, Fails, Chunk
    <3>2. MarkInv'
      BY <1>1, <2>1, <3>1 DEF MarkInv
    <3>3. OneWriterPerChunk'
      BY <2>1, <3>1 DEF OneWriterPerChunk
    <3> QED
      BY <3>2, <3>3
  <2>6. CASE UnmarkProcessed(w)
    <3>1. /\ wpc[w] = "unmark" /\ wpc'[w] = "fail" /\ gErr' /\ has' = has
          /\ processed' = processed \ {Chunk(w)}
      BY <1>0, <2>6 DEF UnmarkProcessed, Fails
    <3>2. \A v \in Workers : v # w /\ Storing(v) => Chunk(v) # Chunk(w)
      BY <3>1 DEF OneWriterPerChunk
    <3>3. MarkInv'
      BY <1>1, <2>1, <3>1, <3>2 DEF MarkInv
    <3>4. OneWriterPerChunk'
      BY <2>1, <3>1 DEF OneWriterPerChunk
    <3> QED
      BY <3>3, <3>4
  <2> QED
    BY <1>5, <2>2, <2>3, <2>4, <2>5, <2>6 DEF Worker
<1>6. CASE UNCHANGED vars
  <2>1. MarkInv'
    BY <1>6 DEF vars, MarkInv, Chunk
  <2>2. OneWriterPerChunk'
    BY <1>6 DEF vars, OneWriterPerChunk, Chunk
  <2> QED
    BY <1>1, <2>1, <2>2
<1> QED
  BY <1>1, <1>3, <1>4, <1>5, <1>6 DEF Next, Main, Ended

\* Jobs that were handed out are dealt with.
LEMMA PoolHandled ==
    PoolInv /\ [Next]_vars => HandledInv' /\ RecordInv'
<1> SUFFICES ASSUME TypeOK, JobInv, MarkInv, HandledInv, RecordInv, [Next]_vars
             PROVE  HandledInv' /\ RecordInv'
  BY DEF PoolInv
<1> USE DEF input, outcome, Goto, Stores, AtRest
<1>0. /\ wpc \in [Workers -> Labels] /\ DOMAIN job = Workers
      /\ cmd \in AllCommands /\ Len(ids) \in Nat /\ fed \in Nat
      /\ \A v \in Workers : job[v].first \in Nat /\ job[v].last \in Nat
  BY DEF TypeOK, Labels
<1>1. ASSUME NEW w \in Workers, Feed(w) PROVE HandledInv' /\ RecordInv'
  <2>1. fed \in Jobs
    BY <1>0, <1>1 DEF Feed, TypeOK, Jobs
  <2>2. /\ LastOf(fed) \in Nat /\ fed <= LastOf(fed)
    BY <1>0, <2>1, LastOfRange DEF Jobs
  <2>3. /\ job'[w].first = fed /\ job'[w].last = LastOf(fed)
        /\ \A v \in Workers : v # w => job'[v] = job[v] /\ wpc'[v] = wpc[v]
        /\ wpc[w] = "idle" /\ wpc'[w] = (IF cmd = "cache" THEN "has" ELSE "read")
        /\ fed' = LastOf(fed) + 1 /\ UNCHANGED <<cmd, ids, good, has, processed, recorded, gErr>>
    BY <1>0, <1>1 DEF Feed
  <2>4. RecordInv'
    BY <2>3 DEF RecordInv
  <2>5. ASSUME NEW i \in 1..(fed' - 1)
        PROVE  \/ gErr' \/ Handled(i)'
               \/ \E v \in Workers : ~AtRest(v)' /\ i \in job'[v].first..job'[v].last
    <3>1. CASE i < fed
      <4>1. \/ gErr \/ Handled(i)
            \/ \E v \in Workers : ~AtRest(v) /\ i \in job[v].first..job[v].last
        BY <1>0, <3>1 DEF HandledInv
      <4> QED
        BY <2>3, <4>1 DEF Handled
    <3>2. CASE fed <= i
      BY <1>0, <2>2, <2>3, <3>2
    <3> QED
      BY <1>0, <3>1, <3>2
  <2> QED
    BY <2>4, <2>5 DEF HandledInv
<1>2. CASE FeedEnd \/ TarFails \/ ReturnEarly \/ StoreIndex \/ WaitWorkers \/ Cancel
           \/ UNCHANGED vars
  <2>1. UNCHANGED <<cmd, ids, good, fed, has, processed, recorded, wpc, job, gErr>>
    BY <1>2 DEF FeedEnd, TarFails, ReturnEarly, StoreIndex, WaitWorkers, Cancel, vars
  <2>2. HandledInv'
    BY <2>1 DEF HandledInv, Handled
  <2>3. RecordInv'
    BY <2>1 DEF RecordInv
  <2> QED
    BY <2>2, <2>3
<1>3. ASSUME NEW w \in Workers, Worker(w) PROVE HandledInv' /\ RecordInv'
  <2>1. /\ \A v \in Workers : v # w => job'[v] = job[v] /\ wpc'[v] = wpc[v]
        /\ UNCHANGED <<cmd, ids, good, fed>>
        /\ wpc'[w] \in Labels /\ (gErr => gErr')
    BY <1>0, <1>3, WorkerEffect
  <2>0. ASSUME wpc[w] \in {"has", "store"}, Chunk(w) \in has',
               UNCHANGED <<processed, recorded>>
        PROVE  \A i \in job[w].first..job[w].last : Handled(i)'
    <3>1. /\ cmd # "verify-index" /\ job[w].first = job[w].last
          /\ cmd = "tar" => job[w].first \in recorded
      BY <2>0 DEF JobInv, RecordInv
    <3>2. cmd \in {"chop", "make", "tar"} => Chunk(w) \in processed
      BY <2>0 DEF MarkInv, Storing
    <3> QED
      BY <1>0, <2>0, <2>1, <3>1, <3>2 DEF Handled, Chunk
  <2>2. \/ gErr'
        \/ ~AtRest(w) /\ ~AtRest(w)' /\ job'[w] = job[w]
        \/ AtRest(w) /\ AtRest(w)'
        \/ ~AtRest(w) /\ AtRest(w)' /\ \A i \in job[w].first..job[w].last : Handled(i)'
    <3>1. CASE Read(w)
      BY <1>0, <2>1, <3>1 DEF Read, Fails, Finishes, Handled
    <3>2. CASE MarkProcessed(w)
      <4>1. CASE wpc'[w] = "has"
        BY <1>0, <3>2, <4>1 DEF MarkProcessed, Finishes
      <4>2. CASE wpc'[w] = "idle"
        <5>1. /\ wpc[w] = "mark" /\ ids[job[w].first] \in processed /\ processed \subseteq processed'
              /\ recorded' = recorded
          BY <1>0, <3>2, <4>2 DEF MarkProcessed, Finishes, WithMark, Chunk
        <5>2. /\ cmd \in {"chop", "make", "tar"} /\ job[w].first = job[w].last
              /\ cmd = "tar" => job[w].first \in recorded
          BY <5>1 DEF JobInv, RecordInv
        <5> QED
          BY <1>0, <2>1, <4>2, <5>1, <5>2 DEF Handled
      <4> QED
        BY <1>0, <3>2, <4>1, <4>2 DEF MarkProcessed, Finishes
    <3>3. CASE HasChunk(w)
      <4>1. /\ wpc[w] = "has" /\ UNCHANGED <<has, processed, recorded>>
            /\ \/ Chunk(w) \in has /\ wpc'[w] = "idle"
               \/ gErr'
               \/ wpc'[w] \in {"get", "store"} /\ job' = job
        BY <1>0, <3>3 DEF HasChunk, HasIt, Finishes, Fails
      <4> QED
        BY <2>0, <4>1
    <3>4. CASE GetChunk(w)
      BY <1>0, <3>4 DEF GetChunk, Fails
    <3>5. CASE StoreChunk(w)
      <4>1. /\ wpc[w] = "store" /\ UNCHANGED <<processed, recorded>>
            /\ \/ Chunk(w) \in has' /\ wpc'[w] = "idle"
               \/ gErr'
               \/ wpc'[w] = "unmark" /\ job' = job
        BY <1>0, <3>5 DEF StoreChunk, Finishes, Fails
      <4> QED
        BY <2>0, <4>1
    <3>6. CASE UnmarkProcessed(w) \/ Exit(w)
      BY <1>0, <3>6 DEF UnmarkProcessed, Exit, Fails
    <3> QED
      BY <1>3, <3>1, <3>2, <3>3, <3>4, <3>5, <3>6 DEF Worker
  <2>3. /\ has \subseteq has' /\ recorded \subseteq recorded'
        /\ processed \subseteq processed' \/ gErr'
    BY <1>3 DEF Worker, Read, MarkProcessed, WithMark, HasChunk, GetChunk, StoreChunk,
                UnmarkProcessed, Exit, Fails
  <2>4. RecordInv'
    <3>1. /\ wpc'[w] = "mark" => cmd # "tar" \/ (job' = job /\ job[w].first \in recorded')
          /\ wpc'[w] \in {"has", "get", "store", "unmark"} =>
                job' = job /\ ~AtRest(w) /\ wpc[w] # "read"
          /\ wpc'[w] # "read"
      <4>1. CASE Read(w)
        <5>1. cmd = "tar" => job[w].first \in job[w].first..job[w].last
          BY <1>0, <4>1 DEF JobInv, Read
        <5> QED
          BY <1>0, <4>1, <5>1 DEF Read, Fails, Finishes
      <4>2. CASE MarkProcessed(w) \/ HasChunk(w)
        BY <1>0, <4>2 DEF MarkProcessed, HasChunk, Fails, Finishes
      <4>3. CASE GetChunk(w) \/ StoreChunk(w) \/ UnmarkProcessed(w) \/ Exit(w)
        BY <1>0, <4>3 DEF GetChunk, StoreChunk, UnmarkProcessed, Exit, Fails, Finishes
      <4> QED
        BY <1>3, <4>1, <4>2, <4>3 DEF Worker
    <3> QED
      BY <2>1, <2>3, <3>1 DEF RecordInv, Labels
  <2>5. ASSUME ~gErr', NEW i \in 1..(fed' - 1)
        PROVE  \/ Handled(i)'
               \/ \E v \in Workers : ~AtRest(v)' /\ i \in job'[v].first..job'[v].last
    <3>1. \/ Handled(i)
          \/ \E v \in Workers : ~AtRest(v) /\ i \in job[v].first..job[v].last
      BY <2>1, <2>5 DEF HandledInv
    <3>2. CASE Handled(i)
      BY <2>1, <2>3, <2>5, <3>2 DEF Handled
    <3>3. ASSUME NEW v \in Workers, ~AtRest(v), i \in job[v].first..job[v].last
          PROVE  Handled(i)' \/ (~AtRest(v)' /\ i \in job'[v].first..job'[v].last)
      BY <2>1, <2>2, <2>5, <3>3
    <3> QED
      BY <3>1, <3>2, <3>3
  <2> QED
    BY <2>4, <2>5 DEF HandledInv
<1> QED
  BY <1>1, <1>2, <1>3 DEF Next, Main, Ended

\* The main goroutine goes on only for a reason.
LEMMA PoolPhase == PoolInv /\ [Next]_vars => PhaseInv'
<1> SUFFICES ASSUME TypeOK, JobInv, PhaseInv, [Next]_vars PROVE PhaseInv'
  BY DEF PoolInv
<1> USE DEF input, outcome, Goto, ctxDone
<1>0. wpc \in [Workers -> Labels] /\ Len(ids) \in Nat /\ fed \in Nat
  BY DEF TypeOK, Labels
<1>1. ASSUME NEW w \in Workers, Feed(w) PROVE PhaseInv'
  BY <1>1 DEF Feed, PhaseInv
<1>2. CASE FeedEnd
  BY <1>2 DEF FeedEnd, StopFeeding, PhaseInv
<1>3. CASE TarFails \/ ReturnEarly
  BY <1>3 DEF TarFails, ReturnEarly, PhaseInv
<1>4. CASE WaitWorkers
  BY <1>4 DEF WaitWorkers, PhaseInv, JobInv
<1>5. CASE StoreIndex
  BY <1>5 DEF StoreIndex, PhaseInv
<1>6. ASSUME NEW w \in Workers, Worker(w) PROVE PhaseInv'
  <2>1. wpc[w] # "exit"
    BY <1>6 DEF Worker, Read, MarkProcessed, HasChunk, GetChunk, StoreChunk, UnmarkProcessed, Exit
  <2> QED
    BY <1>6, <2>1, WorkerEffect DEF PhaseInv
<1>7. CASE Cancel
  BY <1>7 DEF Cancel, PhaseInv
<1>8. CASE UNCHANGED vars
  BY <1>8 DEF vars, PhaseInv
<1> QED
  BY <1>1, <1>2, <1>3, <1>4, <1>5, <1>6, <1>7, <1>8 DEF Next, Main, Ended

\* PoolInv is an invariant of the commands that use a pool.
THEOREM PoolInvariance == Spec => []PoolInv
<1>1. PoolInv /\ [Next]_vars => PoolInv'
  BY PoolType, PoolJobs, PoolMarks, PoolHandled, PoolPhase DEF PoolInv
<1> QED
  BY <1>1, PoolInit, PTL DEF Spec

\* Every variable of the pool keeps its type.
THEOREM PoolTypeCorrect == Spec => []TypeOK
BY PoolInvariance, PTL DEF PoolInv

\* Two workers of ChunkStorage never store the same chunk at the same time.
THEOREM PoolOneWriter == Spec => []OneWriterPerChunk
BY PoolInvariance, PTL DEF PoolInv

\* cache, chop, make, tar and verify-index return success without an interrupt
\* only when all of their chunks are stored or verified.
THEOREM PoolSuccess == Spec => []SuccessMeansDone
<1>1. PoolInv => SuccessMeansDone
  <2> SUFFICES ASSUME PoolInv, result = "nil", ~cancelled PROVE SuccessMeansDone
    BY DEF SuccessMeansDone
  <2>1. /\ fed > Len(ids) /\ ~gErr /\ \A w \in Workers : wpc[w] = "exit"
        /\ Len(ids) \in Nat /\ fed \in Nat /\ cmd \in AllCommands /\ good \subseteq Jobs
        /\ recorded \subseteq Jobs
    BY DEF PoolInv, PhaseInv, TypeOK
  <2>2. ASSUME NEW i \in Jobs PROVE Handled(i)
    BY <2>1 DEF PoolInv, HandledInv, AtRest, Jobs
  <2>3. processed \subseteq has
    BY <2>1 DEF PoolInv, MarkInv, Storing
  <2> QED
    BY <2>1, <2>2, <2>3 DEF SuccessMeansDone, Handled, Stores, AllCommands
<1> QED
  BY <1>1, PoolInvariance, PTL

=============================================================================
