# A TLA+ model of desync

desync cuts blobs into content-defined chunks, keeps the chunks in stores, and
puts blobs together again from an index, seeds and stores.  This directory holds
TLA+ modules for the parts of it in which goroutines, failures, restarts and
several stores meet, TLC configurations that check them on small instances, and
proofs for every size that TLAPS checks.

## 1. Inventory

| Part | State it keeps | Operations | What is hard | What makes it correct |
|---|---|---|---|---|
| Assembly: `assemble.go`, `sequencer.go`, `selfseed.go`, `nullseed.go`, `fileseed.go`, `cmd/desync/extract.go` | the output file, the plan, seeds marked invalid, `selfSeed.written` and its cache, a channel of jobs | `AssembleFile`, `Plan`, `Validate`, `RegenerateInvalidSeeds`, `WriteInto`, `writeChunk`, `selfSeed.add` | workers finish out of order; seeds change while they are used; kill and restart in place; interrupt | success means the whole blob; nothing incomplete is published; it ends |
| `FailoverGroup` | the active store | `GetChunk`, `HasChunk`, `errorFrom` | late errors of concurrent requests | one working store is enough |
| `DedupQueue`, `WriteDedupQueue` | maps of requests in flight | `GetChunk`, `HasChunk`, `StoreChunk` | callers that join a request that fails, or has just ended | one upstream request; true answers; nobody hangs; no growth |
| `SparseFile` | the cache file, a bitmap, one `sync.Once` per chunk, the state file | `NewSparseFile`, `ReadAt`, `WriteState`, preloading | concurrent loads; failed loads; kill between data and state | reads return the data of the index; the state never claims too much |
| `IndexFromFile` | a bucket of chunks per goroutine | `start`, `syncWith`, the main loop | goroutines start at wrong places and must fall into step; zeros are skipped | the index is the one a single chunker makes |
| Pools: `ChunkStorage`, `Copy`, `ChopFile`, `ChunkStream`, `VerifyIndex` | map of processed chunks, channels | store or verify all chunks | one worker of several fails; cancellation | success means that every chunk was handled |
| Local store | chunk files, temporary files | `GetChunk`, `StoreChunk`, `RemoveChunk`, `Verify`, `Prune` | kill between write and rename; pruning while others write | only whole chunks are visible |
| Remote stores (HTTP, S3, GCS, SFTP), casync protocol over SSH | pools of connections, retry counters | `GetChunk`, `HasChunk`, `StoreChunk`, `Prune` | retries, sessions in unknown states, pools run dry | a response belongs to its request; no deadlock |
| Composition: `Cache`, `RepairableCache`, `StoreRouter`, `SwapStore` | the store swapped in | forwarding | swap under requests; partial failures | a chunk some store has is found |
| HTTP chunk server, `chunk-server` | the store behind it, a lock | `GET`, `HEAD`, `PUT`, reload on SIGHUP | late handlers of requests that were given up; reload under load | the status says what the stores said |
| Index stores, HTTP index server | none of their own | get and store whole indexes | - | an index is stored whole |
| Directory trees: `tar`, `untar`, `UnTarIndex` | decoder position, ordered list of chunk channels | pack and unpack | pool and ordered assembly | success means the whole tree |
| Index format, `IndexPos` | position, current chunk | `IndexFromReader`, `WriteTo`, `Seek`, `Read` | boundaries | round trip; reads equal slices of the blob |
| Chunks, compression, digests; command line | none that interacts | - | - | - |

The parts call one another: the command line builds a stack of stores (router
over failover groups, cache in front, dedup queue around it), and the assembly,
`SparseFile`, `UnTarIndex` and the servers call that stack from many goroutines.
A store hands out chunks whose digest it has verified, so in all modules a chunk
is its ID.  The hazards, line by line, are in `PROJECT.json`.

## 2. Plan

1. `Assemble` with proofs: the most important promise of the program (done).
2. `FailoverGroup`, `DedupQueue` with proofs: the concurrent store wrappers (done).
3. `SparseFile`, `ParallelChunk`, `ChunkPool`: caching, parallel chunking and the
   pools of `ChunkStorage`, `Copy`, `ChopFile`, `ChunkStream`, `VerifyIndex` (done).
4. `Catar` and `UnTarIndex`: archives, the pipeline that puts one together from
   chunks, the decoders and their targets (done).
5. `ChunkServer` over the abstract `ChunkService`: HTTP client with retries,
   handlers, `SwapStore`, `Cache`, `RepairableCache`, `StoreRouter`, and the pool of
   ssh sessions, shown to implement the abstract service (done).
6. `StoreFiles`: chunk files under writers, `Prune`, `Verify` and kills, for local,
   sftp, s3 and gcs stores (done).
7. Invariance proofs for `ChunkPool`, `SparseFile`, `StoreFiles`, `ParallelChunk` and
   `ChunkServer`, with the refinement of `ChunkService` (done).
8. `Extract`, what extract promises whoever uses its output, and the proof that
   `Assemble` implements it (done).
9. `ChunkSet`, what a store is to the processes that share it, and the proof that
   `StoreFiles` implements it (done).

## 3. Modules

Each module starts with a comment on its abstraction; `PROJECT.json` maps every
definition to the lines it models.  `MC*` modules only give values to constants.

**Assemble.**  The output is a sequence of slots, one per chunk of the index; a
slot holds the ID of the chunk whose bytes are there, `NullID` for zeros, `Junk`,
or `NoData` beyond the end of the file.  `main` follows `AssembleFile` (stat,
truncate, set up, plan, validate, feed, wait), `wpc` each worker.  A job is a plan
entry: a segment and where it comes from (a seed, the null seed, the store).
Copying a seed segment and reading it back chunk by chunk are separate actions,
so seeds change in between; `selfSeed.add` is one action because it holds a lock.
`Kill` loses memory and tears the writes under way, `Restart` runs extract again.
An index is any sequence; `Options` enumerates index, target kind
(`tmp`, `inplace`, `device`), reaction to invalid seeds, and the seeds with what
their index says and what their file holds.

**Extract** is what the user of the output sees of all this: a run is going on, has
succeeded, failed or been killed, and what is found under the name of the output was
not touched (`old`), is the blob, or is something else.  Through a temporary file the
output is replaced in one step and only by a run that succeeds; in place it may be
anything meanwhile, and is the blob when the run succeeds.  An interrupted run is
promised only the one step, since the code returns no error for it (section 4).
`Assemble` implements it: the phase is read off `main` and `result`, a temporary file
counts as output once it is `published`, and `interrupted` is `cancelled`.

**FailoverGroup.**  `current()`, the store's answer and `errorFrom` are separate
actions because the lock is released in between.  Stores outside `Reliable` may
fail at any time.

**DedupQueue.**  Requests are numbered objects, since waiters hold a pointer to
one that has left the queue.  `loadOrStore`, the upstream call, `markDone` and
`delete` are separate actions.

**SparseFile.**  The cache file in slots as above; the state file is its length
and its bits, and is empty between `os.Create` and the write.  A `sync.Once` is
fresh, held by an actor, or used.  Processes start, die at any time and start
again, perhaps with another index, or find the cache file removed.  Two variables
are there for the properties only: `stale` says that the state file is about a cache
file that was removed or resized since, `misled` that the present process has
taken such a state for its own.

**ParallelChunk.**  A file is a sequence of bytes that are data, zero or a cut
point: the rolling hash is reduced to the bytes at which it cuts.  `CutAfter` is
`Chunker.Next` with its minimum and maximum; `SyncWith` is `syncWith` including
the null-chunk rule.  `syncWith` takes what is in the bucket at one moment; chunks
that arrive while it runs are seen as arriving just after.

**ChunkPool.**  One module for five commands, because they share the pool: a feeder
(`Feed`, `FeedEnd`) that watches the context of the group, workers that stop at
their first error, and `g.Wait`.  `cmd` selects the steps of a worker: `cache` asks,
gets and stores; `chop`, `make` and `tar` read and go through `ChunkStorage`, whose
lock is released between marking a chunk, asking for it, storing it and taking back
the mark; `verify-index` compares a batch.  `make` and `tar` store the index at the
end.  What `IndexFromFile` does in `make` is `ParallelChunk`.

**Catar.**  The archive that `tar` makes of a list of files, as a function: the
nodes a file system delivers in the order of the walk, the elements of each node
with their sizes in bytes, the goodbye element of each directory with offsets and
the complete binary search tree over the hashes of the names.  Names are numbers;
attributes other than extended ones are left out.

**UnTarIndex.**  Feeder, workers, assembler and `UnTar` are processes, joined by the
channel of requests, one data channel per chunk, the buffered channel that carries
them in order, and the pipe.  The archive is a stream of units (header and body of
an element, single bytes of a payload), and chunks are runs of units, so that
elements cross chunks.  The decoder consumes unit by unit what the pipe holds;
`FormatDecoder` and `ArchiveDecoder` are functions of its state.  A `Write` to the
pipe returns when all was read or the reader is gone, and closing the pipe with an
error is what tells the decoder that the stream is not whole.  Targets are a
directory that may hold other files (`LocalFS`), a tar stream and an mtree.

**ChunkService** is what a store promises: three operations, a set of chunks that
can be had (`avail`), a set of others that only a cache has (`extra`, which may be
reported missing once something went wrong), answers that are right at some moment
of the call, errors only after something went wrong.  **ChunkServer** is the stack that promises it.  A client
repeats requests that fail, and the handlers of requests it has given up run on; so
there is one handler per client and attempt, each going through the lock of
`SwapStore`, the cache, the stores of the router one after the other, and the cache
again to fill it.  `Reload` and `Swap` are separate: the new stores are made, then
wait for the lock, then the old ones are closed.  An ssh store is a queue of
sessions, alive or ended; a server ends after it reported a missing chunk, and the
session goes back to the queue all the same.  The refinement mapping takes as
available what a store of the present configuration holds (`Avail`), as extra what
else its cache holds (`Extra`), as answer what the client has or what the handler
of its present attempt has replied (`Calls`), and as trouble any failure or ended
session.

**StoreFiles.**  A writer creates its temporary file, writes it and renames it, each
of these a step that can fail or be the last before a kill; s3 and gcs replace
objects in one step.  A job lists the store directory by directory (objects: page by
page), looks at one name after the other and removes files as `Prune` does, or
hands chunks to the workers of `Verify`.  A removal whose error the code drops, of a
temporary file by `Prune` or of a bad chunk by `Verify`, leaves the file and records it
in `left`.  A job carries the two options of the config that change what it does:
uncompressed chunks, none of which `Prune` of an sftp store sees (`SeesNoChunks`), and
skip-verify, with which `Verify` takes every chunk for valid.  The connections of an
sftp store are a counter.  What a file holds can be damaged at any time within
`MaxFaults`, and so can what is lost when a file is closed, since the error of `Close`
is ignored (`local.go:86`).

**ChunkSet** is what such a store is to the processes that share it: a chunk is stored
at once or not at all, a writer that is told so has stored it, a writer fails only
when something went wrong or a local `Prune` swept temporary files, and only chunks
that are doomed go.  `StoreFiles` implements it: `put` is what the writers have been
told, doomed are the chunks that a `Prune` which has begun does not keep, or that
`Verify` has reported, `sweeping` is a local `Prune` that has begun, and trouble is any
fault so far.

## 4. Runs

| Run | Instance | Shows |
|---|---|---|
| `assemble` | 2 workers, indexes of 3 and 4 chunks with repeats and null chunks and an empty one; in place, device and temporary file over old data; a right or stale seed that changes twice or disappears; all reactions to invalid seeds; failures; an interrupt, a kill and a second run | all of it implements `Extract`, success means the whole blob (`NilMeansComplete`), the plan covers the index, invalid seeds are not used, the self-seed is read only where it is final and ends up covering the file, correct chunks stay |
| `assemble_live` | two seeds, one stale, all reactions, failures, an interrupt | `Terminates` |
| `failover_group` | 3 clients, 3 stores of which the last or none is reliable | no request fails, the rotation stops, requests return |
| `dedup_queue` | 3 clients, 3 calls, failures | one upstream request, true and current answers, empty queues, every call returns |
| `sparse_file` | 2 readers, a preloader, three processes, failing loads, saving at any time, removal of the cache file | wrong data only after a failed load of that chunk, the state never claims too much, reads return; a process that takes the state of a removed file is left out |
| `parallel_chunk` | 3 goroutines, files of 7 bytes with all ways to cut, 13 bytes of zeros, zeros with a short tail, unreadable files | the index is a prefix of the sequential one, and all of it on success unless the main loop stops at a goroutine that was passed over; buckets never fill up, everything ends |
| `chunk_pool` | 2 workers, the five commands over up to 4 chunks with repeats, any chunks in the store, a bad input or none, failures, an interrupt | success means that all chunks are stored or verified, no chunk is stored twice at a time, the commands return |
| `untar_index` | 2 workers; four trees (nested directories ending together, attributes, symlink, device, a skipped fifo, a foreign mount point, a single file) cut in many places; clean and used directories, tar and mtree; a chunk that cannot be loaded or a node that cannot be created; an interrupt | success means the whole tree, goodbye tables lead to their items for all directories of up to 17 entries, `UnTarIndex` returns |
| `chunk_server` | 2 clients with 2 attempts, one perhaps with wrong credentials; a chunk held by no, the first or the second store; four configurations (two stores behind a cache, ssh before local, one store, one behind a cache); writable, read-only, repairing; one reload and one fault | the server implements `ChunkService`, no store is used after it was closed, every call returns |
| `store_files` | 2 writers of the same or different chunks beside one prune or verify of each kind of store, also uncompressed over sftp and with skip-verify, files of the other format, one kill, failure or damage, an interrupt | all of it implements `ChunkSet`, stored chunks stay whole, a job that succeeds has removed or reported what it had to but for what it could not remove, all return |

The bounds are chosen so that the cases happen: three chunks are the least with a
repeat behind a gap; two workers suffice to finish out of order; three stores let
the rotation pass a store twice; seven bytes with a maximum of three give three
goroutines that start off the chunk boundaries and fall into step at different
places, and chunks of every size (a chunk has two or three bytes: the first place
to cut is one byte after the minimum); thirteen zeros are the least for which null
chunks are skipped; three calls allow a failure, a joined call and a later one; four chunks and a batch
factor of one give `VerifyIndex` a batch of three and a shorter last one.  Chunks
that end inside headers, bodies and payloads, and one chunk per unit, are among the
cuts of `untar_index`, and 17 entries give goodbye trees with full and with all
kinds of partly filled last levels.  One chunk is enough for `chunk_server`, since
the stack treats chunks independently, and a second attempt and one reload are the
least with which a late handler meets new stores.  In `store_files` the second
writer and the second chunk let a job remove one file while another is renamed.
`FailoverGroup` and `DedupQueue` have no type invariant among their runs'
properties, since it is proved; the same holds for `RecordedSlotsStable` of `Assemble`.

Fairness is weak fairness of each goroutine: the Go scheduler runs what can run,
and store and file operations return.  `chunk_server` assumes it of the handlers, of
the swap, and of clients once their request was answered or has timed out;
`store_files` of writers, the job and its workers.  Nothing is assumed of the environment (no
kill, restart, interrupt or change of a seed has to happen).

Two runs end in a counterexample, because the code does not do what its
documentation says (quotes and lines in `PROJECT.json`):

| Run | What happens |
|---|---|
| `assemble_interrupt` | an interrupted extract returns no error and publishes an incomplete file |
| `parallel_chunk_tail` | the index of a file that ends in zeros and a short tail lacks the last chunk, and `IndexFromFile` returns no error |

The second one came out of the attempt to prove that the index covers the file.  The
main loop stops at a goroutine that has reached the end of the file (`make.go:145`).
That goroutine may have been passed over (`make.go:235`): when it has found null
chunks and one more up to the end, the previous goroutine takes all of them from its
bucket while it measures the zeros (`make.go:290`), without being in sync, finds the
bucket empty and goes on to sync with a later goroutine.  If that one cuts the tail
otherwise, its last chunks stay in its bucket.  It takes a run of zeros over
two goroutines, a later goroutine that is late, and null chunks that line up with those
of the goroutine after the next and not with those of the next.

Other limits of the code that the properties are worded around:

- The plan of an index without chunks holds a segment outside the index, and
  extract panics (`sequencer.go:71`, `assemble.go:217`; `Panic` in `Assemble`):
  `PlanCoversNonEmptyIndex` is about the other indexes.
- In place, seed segments are written without looking at the file first
  (`assemble.go:178`): `CorrectChunksKept` leaves out slots that are being copied.
- A failover group counts attempts, not stores (`failover.go:30`): while other
  requests move the rotation, a request can give up having tried one store twice
  and another never.  With a reliable store in the group it cannot.
- A failed load uses up the `sync.Once` of the chunk (`sparse-file.go:233`): later
  reads return zeros without an error, although "All accessed ranges are first written
  to the file and then returned" (`sparse-file.go:137`).  `WrongOnlyAfterFailure`
  says that this is the only way to wrong data with a state that fits.
- A cache file of another size is only truncated (`sparse-file.go:88`), so old data
  stays where the new index has null chunks; `sparse_file` uses one index.
- The state file is not tied to the cache file it is about.  When the cache file is
  removed, or truncated to another size, `NewSparseFile` makes a new one and leaves
  the state file (`sparse-file.go:88`); if that process is killed before it saves,
  the next one finds a file of the right size and a state that fits, takes the bits,
  and reads return zeros.  `DoneMeansWritten` and `WrongOnlyAfterFailure` leave such a
  process out (`misled`); without that, TLC finds the counterexample with three
  processes, and the proof does not go through.
- A chunk that only the cache has, in a file that cannot be read, is fetched from the
  stores by a cache that repairs itself, and is reported missing: `ChunkService`
  allows it for chunks in `extra`.
- `StateInitFile` has to exist and to fit (`sparse-file.go:96`), so the first start
  with one file for both states fails: `InitFile` in `SparseFile`.
- With equal minimum and maximum sizes a chunk has one byte more than the maximum
  (`chunker.go:258`), which `IndexFromReader` rejects (`index.go:82`).
- A pool that is interrupted returns no error although work is left (`copy.go:50`,
  `index.go:204`), and `make` and `tar` then store an index whose chunks are missing:
  `SuccessMeansDone` is about commands that were not interrupted, and so is
  `NilMeansWholeTree`, since `UnTarIndex` returns no error either (`untar.go:150`).
- A catar that ends after an entry or inside a payload is unpacked without an error,
  and one whose root is a symlink or a device is not unpacked at all
  (`archive.go`): only chunks that fail to load are errors.
- `--one-file-system` leaves out the entry of a foreign directory but not what is
  below it (`localfs_other.go:250`), and `tar` then ends all directories and drops
  what follows; the same happens to tar input that is not in depth-first order.
  The mount point of `untar_index` is empty.
- Packing into a gnu-tar fails for nodes with extended attributes, and mtree leaves
  them out: `Same` in `UnTarIndex` does not ask for them there.
- `StoreRouter.HasChunk` fails where an ssh store lacks the chunk, and a session is of
  no use after a missing chunk (`protocolserver.go:57`): an ended session counts as
  trouble in `ChunkService`.
- The chunk server skips verification when reading unless told otherwise, and a
  cache that is to repair itself does not then see bad chunks.
- The check for a writable store in `SwapStore.Swap` cannot fail in the chunk server.
- `Prune` of an sftp store takes a second connection for every removal
  (`sftp.go:257`) and waits for ever if the pool has one: `NAssumption` of
  `StoreFiles` asks for two.
- A `Prune` or `Verify` that succeeds need not leave a clean store, and
  `SuccessMeansClean` says what it does leave.  A local `Prune` ignores that a temporary
  file could not be removed (`local.go:186`), and `Verify` only prints that a bad chunk
  could not be (`local.go:106`): these files are in `left`.  `Prune` of an sftp store
  looks only at names that end in `.cacnk` (`sftp.go:232`), so with uncompressed chunks
  it removes nothing and returns no error.  `verify` takes skip-verify from the config
  (`cmd/desync/verify.go:44`) and then finds no chunk invalid.
- A call can join a request that has been answered and is not yet deleted
  (`dedupqueue.go:50`), and one that was sent before the chunk was stored: it can be
  told that a chunk is missing which was stored before it began.  `NoStaleAnswers`
  leaves out calls that begin while a call from before the chunk was stored is under
  way (`sure`); calls that join only requests of later ones are covered.
- Walking a local store fails when a temporary file is renamed meanwhile, which
  `Prune` and `Verify` return as an error.
- `verify -r` removes a chunk that was written anew after it was found bad, and one
  that it could not read; `StoredStaysWhole` leaves out what `Verify` reported.
  `prune` removes chunks that a concurrent `make` found present and did not store.
- `HTTPIndexHandler.head` answers 200 for an index that cannot be read and 404 for
  one that can (`httpindexhandler.go:61`).

## 5. Proofs

For every index, file, set of workers, stores, clients, calls and processes.  Each
component has one inductive invariant, at the end of its module; the properties of
the runs follow from it.  The proof of a step has one part per action and, under it,
one per conjunct that the action can disturb.

- `AssembleProofs`: `Invariance`, from which `TypeCorrect`, `PlanPartition`,
  `SelfSeedCorrect`, `AssembleCorrect`, `PublishSafe` (when nobody interrupts) and
  the action property `RecordedStable` follow.  The invariant `IInv` adds to the
  properties what they need to be inductive: the plan is a partition of the chunks
  planned so far (`PlanInv`), what holds in each phase of `AssembleFile`
  (`PhaseInv`), that the slots a worker has passed in its segment are right and that
  the segments of running jobs, the cache and `written` do not overlap, and that a
  finished run without error has recorded every slot (`OutcomeInv`).  The self-seed
  is sound because a slot below `written` is in a segment whose worker has finished
  it and no job will come for it again.  `SelfSeedComplete`: with no gap before
  `written` and nothing under way, a segment in the cache would start behind the end.
  `InvalidSeedsNeverUsed` needs one more invariant, `ValidInv`: a plan is free of
  invalid seeds when it is made, and the first entry that fails to validate rejects
  it.  `CorrectKept` is an action property: whatever a worker writes outside of a
  seed copy is the chunk of the index, so a torn write can only hit a slot that was
  wrong.
  `AssembleIsExtract` is the refinement, and uses `InPlaceInv` besides: only an output
  that is written in place counts as published before the end.  `Finish` is `Succeed`
  or `Fail`, and `OutcomeInv` shows the blob to be whole; `Kill` and `Panic` are `Die`,
  since a torn slot is never right; `Restart` is `Restart`, `Cancel` is `Interrupt`, and
  the other steps are `Write` in place and stuttering otherwise.
  `PlanAdvances` and `RecordingNeverWaits` are about the model itself: `Assemble`
  writes the loops of `SeedSequencer.Next` and `selfSeed.add` as choices of a value
  with the properties the loop ends with, and these theorems show that exactly one
  value has them in every reachable state, so that the choice neither blocks nor adds
  behaviour.
- `FailoverGroupProofs`: a request that has failed t times is at least t steps of
  the rotation nearer to a reliable store (`ProgressInv`), and the rotation never
  passes it.
- `DedupQueueProofs`: an entry of a queue names a request whose owner is between
  the upstream call and `delete`, and a finished request's answer stays true
  because chunks are only added.  `AnswersFresh` (`NoStaleAnswers`) adds `SureInv`:
  a call is sure when the chunk was stored as it began and every call for the chunk
  then under way was sure; while a sure call is under way, no request for the chunk
  that it can join has the answer "missing".
- `ChunkPoolProofs`: no job is handed out twice; a marked chunk is in the store, or
  somebody is storing it, or somebody failed (`MarkInv`); so when all workers have
  left without an error every job is handled (`HandledInv`), although a worker
  leaves at once when it finds a chunk marked by another.
- `StoreFilesProofs`: what `Prune` has to remove is in a directory or a list of names
  that is still ahead of it, or in `left` (`PruneInv`), and a bad chunk waits for a
  worker of `Verify` or was reported, and with repair was removed or is in `left`
  (`VerifyInv`); both except where the config keeps the job from seeing chunks.
  `FilesAreChunkSet` is the refinement: the
  rename of a whole temporary file, or the upload of an object, is `Store`; the other
  ways in which a writer ends are `Fail`; the start of `Prune` dooms chunks, `Verify`
  dooms what it reports, and their removals are `Remove`.  It uses `LostInv`, that a
  writer misses its temporary file only when a local `Prune` has begun.
- `SparseFileProofs`: a load belongs to the actor in the `sync.Once`, a used one has
  ended in a bit or a failure, and the state file says no more than its cache file
  holds.  The theorems assume `OneIndex`, that all processes use the same index: the
  code needs it, since a truncated cache file keeps the data of the old index where
  the new one has null chunks (section 4).
- `ChunkServerProofs`: `ServerInv` counts the ssh sessions, which are in the pool or
  with a handler, ties handlers to attempts, and says how far a handler has got: the
  stores it has passed have not got the chunk, unless something went wrong.
  `ServerIsService` is the refinement: `Begin` is `Call`; the reply of the handler of
  the present attempt, or the response or timeout that gives up, is `Answer`, `Lose`
  or nothing; `PutChunk` is `Store`, `Swap` is `Configure`, `Damage` is `GoWrong`,
  and late handlers and the steps inside the stack are stuttering, or `GoWrong` when
  they fail.
- `ParallelChunkProofs`: `ChunkInv` says that a bucket holds consecutive chunks of the
  file up to where its chunker is (`ChainInv`), that the sync field is the chunk
  before them (`SyncInv`), that goroutines between one and its `next` have stopped with
  nothing left (`OrderInv`), that one which stopped in sync left off where its `next`
  begins (`LinkInv`), that the index goes on where the first goroutine that is not
  passed over begins (`ReadingInv`) and that chunking on from there gives what is
  missing (`IndexInv`).  The hard step is the comparison (`SyncKeeps`): a run of null
  chunks of the next goroutine covers zeros up to its end (`ZeroesFacts`), and a chunker
  that starts among at least `MaxSize` zeros finds a null chunk (`NullFacts`), so the
  null chunks put in place of them are those it would have found.  That the whole file
  is in the index at the end needs that the goroutine the main loop stops at was not
  passed over: without it the proof fails, and the run `parallel_chunk_tail` shows why.

Assumptions are the `ASSUME`s of the modules: sizes and bounds are natural numbers,
markers are different from chunk IDs, flags are Boolean, and files, indexes,
configurations and holdings have their types.  TLC evaluates them in the runs.

Induction over data is beyond the prover; where the size of a read or of an index
matters (`SparseFileProofs`), a loop has to be shown to end somewhere (`AssembleProofs`),
or a recursive function has to be well defined (`ChunksFrom`, `ParallelChunkProofs`), the
argument takes the least position for which
the claim fails, which exists because natural numbers are well ordered.

Only model-checked: all liveness properties (fairness is beyond the prover), and
`UnTarIndex` with `Catar`: what an archive holds and what a decoder makes of it are
recursive functions over trees and streams, and their properties need induction over
these.

## 6. Not modelled

Compression, digests and the contents of headers (pure functions of bytes); the
rolling hash; wire protocols of libraries and the handshake and framing of the casync
protocol (a message arrives whole or the session ends); file attributes other than
extended ones; variants for Windows; elements of the catar format that `tar` never
writes; progress, statistics and logging; flag parsing.  Index stores and the index
server get or put one whole object per call and keep no state.  `IndexPos` and the
alignment of reflinks are arithmetic on offsets in one goroutine, which unit tests
reach.  Hazards of parts that are left out are in `PROJECT.json` with a note.
Goroutines that stay blocked after `AssembleFile` returned early are outside `Assemble`.
