------------------------------ MODULE Assemble ------------------------------
(***************************************************************************)
(* AssembleFile (assemble.go) writes the blob that an index describes into *)
(* a file, from seeds (sequencer.go, fileseed.go, nullseed.go), from the   *)
(* part of the file it has already written (selfseed.go) and from a chunk  *)
(* store, with a pool of goroutines.  desync extract runs it on a          *)
(* temporary file it renames afterwards, or in place                       *)
(* (cmd/desync/extract.go).                                                *)
(*                                                                         *)
(* A chunk is known by its ID, and a file is the sequence of what its      *)
(* chunk-sized slots hold: slot i of the target is the byte range of index *)
(* chunk i.  Its content is a chunk ID (the bytes that hash to it), Junk   *)
(* (any other bytes) or NoData (the file ends before it).  A match with a  *)
(* seed is a prefix of the remaining index chunks, so comparing lengths in *)
(* chunks orders matches exactly as comparing their sizes in bytes does.   *)
(***************************************************************************)
EXTENDS Integers, Sequences, FiniteSets

CONSTANTS
    Workers,        \* the options.N goroutines of AssembleFile
    NSeeds,         \* number of file seeds given by the user
    ChunkIDs,       \* chunk IDs of the index and of the seeds
    NullID,         \* ID of the chunk that is all zero bytes
    Junk, NoData,   \* other bytes; nothing (beyond the end of the file)
    Options,        \* the invocations explored: index, mode, action, seeds
    Blobs,          \* contents a seed file may be changed to
    InitContents,   \* contents of the slots of an existing target
    Limit,          \* most chunks of a seed match, 0 when cloning works
    NullReflink,    \* the null seed clones blocks instead of leaving holes
    MayFail,        \* reads, writes and store requests may fail
    MayCancel,      \* SIGINT may cancel the context
    MaxSeedChanges, \* bound on the changes made to seed files meanwhile
    MaxRuns         \* bound on the number of times extract is started

SeedIDs   == 1..NSeeds
NullSeed  == 0      \* newNullChunkSeed is prepended to the seeds
FromStore == -1     \* no seed matches: a nil SeedSegment
Modes     == {"tmp", "inplace", "device"}
Actions   == {"BailOut", "Regenerate", "Skip"}
Contents  == ChunkIDs \cup {Junk}

ASSUME WorkersAssumption == Workers # {} /\ IsFiniteSet(Workers)
ASSUME CountAssumption ==
    NSeeds \in Nat /\ Limit \in Nat /\ MaxSeedChanges \in Nat /\ MaxRuns \in Nat
ASSUME ContentAssumption ==
    NullID \in ChunkIDs /\ Junk \notin ChunkIDs /\ NoData \notin Contents
ASSUME BooleanAssumption ==
    NullReflink \in BOOLEAN /\ MayFail \in BOOLEAN /\ MayCancel \in BOOLEAN
ASSUME InitContentsAssumption == InitContents \subseteq Contents \cup {NoData}
ASSUME BlobsAssumption == Blobs \subseteq Seq(Contents)
\* What the command line and the index files fix: the index to assemble, how
\* the target is written, what to do with invalid seeds, the seeds' indexes.
ASSUME OptionsAssumption ==
    Options \subseteq [idx : Seq(ChunkIDs), mode : Modes, action : Actions,
                       caibx : [SeedIDs -> Seq(ChunkIDs)],
                       blob : [SeedIDs -> Seq(Contents)]]

VARIABLES
    opt,        \* the invocation, fixed from the start
    main,       \* where AssembleFile is
    file,       \* the file being written, slot by slot
    isBlank,    \* it was empty when AssembleFile looked
    seedBlob,   \* the data of each seed file
    seedExists, \* the seed file can be opened
    seedIndex,  \* index the program holds for each seed
    invalid,    \* the seeds marked invalid
    plan,       \* the SeedSegmentCandidates planned so far
    current,    \* SeedSequencer.current
    toValidate, \* plan entries Validate has not checked
    valErrs,    \* validating goroutines that returned an error
    fed,        \* next entry of the plan to hand to a worker
    wpc,        \* where each worker is
    job,        \* the plan entry it works on
    slot,       \* the index chunk it has reached in it
    from,       \* the slot its self-seed segment starts at
    written,    \* selfSeed.written: the first slot not known to be written
    cache,      \* selfSeed.cache: segments finished ahead of written
    gErr,       \* a worker returned an error, which cancels the group
    cancelled,  \* the caller's context is cancelled
    result,     \* what AssembleFile returned: "none", "nil", "err"
    published,  \* the file is visible under its final name
    changes,    \* changes made to seed files so far
    runs        \* times extract was started

sequencer == <<seedIndex, invalid, plan, current, toValidate, valErrs>>
pool      == <<fed, wpc, job, slot, from, written, cache, gErr>>
seedFiles == <<seedBlob, seedExists, changes>>
outcome   == <<result, published, cancelled, runs>>
vars      == <<opt, main, file, isBlank, sequencer, pool, seedFiles, outcome>>

idx   == opt.idx
Slots == 1..Len(idx)

NoJob   == [first |-> 0, last |-> 0, src |-> FromStore, pos |-> 1]
Empty   == [i \in Slots |-> NoData]

Complete == \A i \in Slots : file[i] = idx[i]
ctxDone  == cancelled \/ gErr

-----------------------------------------------------------------------------
(* The sequencer (sequencer.go).                                           *)

\* ID of the n-th chunk of source s, and how many it has.  The null seed is
\* an endless run of null chunks.
SourceHas(s, n) == s = NullSeed \/ n <= Len(seedIndex[s])
SourceID(s, n)  == IF s = NullSeed THEN NullID ELSE seedIndex[s][n]

\* Chunks pos, pos+1, ... of source s equal index chunks first..last.
Matches(s, pos, first, last) ==
    /\ s \notin invalid
    /\ Limit = 0 \/ last - first < Limit
    /\ \A i \in first..last :
          SourceHas(s, pos + i - first) /\ SourceID(s, pos + i - first) = idx[i]

\* LongestMatchWith of every seed, for the index chunks from position first.
SeedMatches(first) ==
    {c \in [first : {first}, last : first..Len(idx), src : {NullSeed}, pos : {1}] :
        Matches(c.src, c.pos, c.first, c.last)}
    \cup UNION {{c \in [first : {first}, last : first..Len(idx), src : {s},
                        pos : 1..Len(seedIndex[s])] :
                    Matches(c.src, c.pos, c.first, c.last)} : s \in SeedIDs}

\* The sequencer keeps a later candidate only when it is strictly larger, so
\* of equally long ones it takes the first seed and its first position.
Preferred(c, d) ==
    \/ c.last > d.last
    \/ c.last = d.last /\ c.src < d.src
    \/ c.last = d.last /\ c.src = d.src /\ c.pos <= d.pos

FromStoreCandidate(first) ==
    [first |-> first, last |-> first, src |-> FromStore, pos |-> 1]

\* SeedSequencer.Next: the longest match, or one chunk from the store.
NextCandidates(first) ==
    IF SeedMatches(first) = {} THEN {FromStoreCandidate(first)}
    ELSE {c \in SeedMatches(first) :
             \A d \in SeedMatches(first) : Preferred(c, d)}

\* The position Next leaves in current.  Mutant: the last chunk again.
AfterSegmentOverlap(c) == IF c.last > c.first THEN c.last ELSE c.last + 1
AfterSegment(c)        == c.last + 1

-----------------------------------------------------------------------------
(* Starting up: the target, the seeds and the workers.                     *)

Return(r) == main' = "return" /\ result' = r

PoolAtRest ==
    /\ fed' = 1 /\ written' = 1 /\ cache' = {} /\ gErr' = FALSE
    /\ job' = [w \in Workers |-> NoJob]
    /\ slot' = [w \in Workers |-> 0]
    /\ from' = [w \in Workers |-> 0]

NoPlan == plan' = <<>> /\ current' = 1 /\ toValidate' = {} /\ valErrs' = 0

\* A missing or empty target is blank, a device never is.
TargetBlank == opt.mode # "device" /\ file = Empty

StatTarget ==
    /\ main = "stat"
    /\ \/ main' = "truncate" /\ UNCHANGED result
       \/ MayFail /\ Return("err")
    /\ isBlank' = TargetBlank
    /\ UNCHANGED <<opt, file, sequencer, pool, seedFiles, published, cancelled, runs>>

\* The file at the length of the index: what was missing reads as zeros.
\* Mutant: the file is emptied first.
EmptiedTarget   == [i \in Slots |-> NullID]
TruncatedTarget == [i \in Slots |-> IF file[i] = NoData THEN NullID ELSE file[i]]

TruncateTarget ==
    /\ main = "truncate"
    /\ \/ /\ main' = "setup"
          /\ file' = TruncatedTarget
          /\ UNCHANGED result
       \/ MayFail /\ Return("err") /\ UNCHANGED file
    /\ UNCHANGED <<opt, isBlank, sequencer, pool, seedFiles, published, cancelled, runs>>

\* Open the null seed and the self-seed, start the workers.
Setup ==
    /\ main = "setup"
    /\ \/ main' = "plan" /\ wpc' = [w \in Workers |-> "idle"] /\ UNCHANGED result
       \/ MayFail /\ Return("err") /\ UNCHANGED wpc
    /\ PoolAtRest
    /\ NoPlan
    /\ UNCHANGED <<opt, file, isBlank, seedIndex, invalid, seedFiles,
                   published, cancelled, runs>>

\* One turn of the loop of SeedSequencer.Plan, which ends after the call of
\* Next that takes current past the last chunk.
PlanNext ==
    /\ main = "plan"
    /\ \E c \in NextCandidates(current) :
          /\ plan' = Append(plan, c)
          /\ current' = AfterSegment(c)
          /\ main' = IF AfterSegment(c) > Len(idx) THEN "open" ELSE "plan"
    /\ UNCHANGED <<opt, file, isBlank, seedIndex, invalid, toValidate, valErrs,
                   pool, seedFiles, outcome>>

-----------------------------------------------------------------------------
(* Plan.Validate and what AssembleFile does with an invalid plan.          *)

FileSeedEntries == {j \in 1..Len(plan) : plan[j].src \in SeedIDs}

\* Validate opens every seed of the plan first; the first it cannot open is
\* marked invalid and fails the validation.
OpenSeeds ==
    /\ main = "open"
    /\ LET gone == {j \in FileSeedEntries : ~seedExists[plan[j].src]}
       IN  \/ /\ gone = {}
              /\ main' = "validate" /\ toValidate' = FileSeedEntries
              /\ UNCHANGED invalid
           \/ \E j \in gone :
                 /\ \A i \in gone : j <= i
                 /\ main' = "invalid"
                 /\ invalid' = invalid \cup {plan[j].src}
                 /\ UNCHANGED toValidate
    /\ UNCHANGED <<opt, file, isBlank, seedIndex, plan, current, valErrs,
                   pool, seedFiles, outcome>>

\* The seed file holds what the seed's index says, over the entry's chunks.
EntryValid(c) ==
    \A i \in c.first..c.last :
        LET n == c.pos + i - c.first
        IN  n <= Len(seedBlob[c.src]) /\ seedBlob[c.src][n] = seedIndex[c.src][n]

\* Entry j is with one of the validating goroutines: they are handed out in
\* the order of the plan, and one that failed takes no more.
BeingValidated(j) ==
    j \in toValidate
    /\ Cardinality({i \in toValidate : i < j}) + valErrs < Cardinality(Workers)

ValidateEntry ==
    /\ main = "validate"
    /\ \E j \in toValidate :
          /\ BeingValidated(j)
          /\ toValidate' = toValidate \ {j}
          /\ \/ EntryValid(plan[j]) /\ UNCHANGED <<invalid, valErrs>>
             \/ /\ ~EntryValid(plan[j])
                /\ invalid' = invalid \cup {plan[j].src}
                /\ valErrs' = valErrs + 1
    /\ UNCHANGED <<opt, main, file, isBlank, seedIndex, plan, current,
                   pool, seedFiles, outcome>>

\* A goroutine found an entry whose data differs.  Mutant: only a seed that
\* cannot be opened fails the validation.
PlanAccepted == FALSE
PlanRejected == valErrs > 0

\* All entries are checked, or the rest is dropped because the context is
\* done: after an error of a goroutine, or with no error when it was
\* cancelled from outside.
ValidateEnd ==
    /\ main = "validate"
    /\ toValidate = {} \/ valErrs > 0 \/ cancelled
    /\ main' = IF PlanRejected THEN "invalid" ELSE "feed"
    /\ toValidate' = {}
    /\ UNCHANGED <<opt, file, isBlank, seedIndex, invalid, plan, current, valErrs,
                   pool, seedFiles, outcome>>

\* Mutants: the seed counts as valid again with the index it had, and it is
\* dropped from the seeds.
RegenerateSeedsStale == invalid' = {} /\ UNCHANGED seedIndex
RegenerateSeedsDrop  == invalid' = {} /\ seedIndex' = [s \in SeedIDs \ invalid |-> seedIndex[s]]

\* RegenerateInvalidSeeds: chunk the seed file again.
RegenerateSeeds ==
    /\ seedIndex' = [s \in SeedIDs |-> IF s \in invalid THEN seedBlob[s] ELSE seedIndex[s]]
    /\ invalid' = {}

\* The switch on options.InvalidSeedAction, then a new plan from the start.
InvalidPlan ==
    /\ main = "invalid"
    /\ \/ /\ opt.action = "BailOut"
          /\ Return("err")
          /\ UNCHANGED sequencer
       \/ /\ opt.action = "Regenerate"
          /\ (\E s \in invalid : ~seedExists[s]) \/ cancelled \/ MayFail
          /\ Return("err")
          /\ UNCHANGED sequencer
       \/ /\ opt.action = "Regenerate"
          /\ \A s \in invalid : seedExists[s]
          /\ RegenerateSeeds
          /\ NoPlan
          /\ main' = "plan" /\ UNCHANGED result
       \/ /\ opt.action = "Skip"
          /\ NoPlan
          /\ main' = "plan" /\ UNCHANGED <<seedIndex, invalid, result>>
    /\ UNCHANGED <<opt, file, isBlank, pool, seedFiles, published, cancelled, runs>>

-----------------------------------------------------------------------------
(* Feeding the workers and waiting for them.                               *)

\* The unbuffered channel hands the next entry of the plan to an idle worker.
Feed(w) ==
    /\ main = "feed"
    /\ fed <= Len(plan)
    /\ wpc[w] = "idle"
    /\ fed' = fed + 1
    /\ job' = [job EXCEPT ![w] = plan[fed]]
    /\ slot' = [slot EXCEPT ![w] = plan[fed].first]
    /\ wpc' = [wpc EXCEPT ![w] = IF plan[fed].src = FromStore THEN "chunk" ELSE "copy"]
    /\ UNCHANGED <<opt, main, file, isBlank, sequencer, from, written, cache, gErr,
                   seedFiles, outcome>>

\* The select statement sees ctx.Done.  Mutant: it is not looked at.
NeverStopFeeding == FALSE
StopFeeding      == ctxDone

\* The plan is fed, or the context is done: close the channel.
FeedEnd ==
    /\ main = "feed"
    /\ fed > Len(plan) \/ StopFeeding
    /\ main' = "wait"
    /\ UNCHANGED <<opt, file, isBlank, sequencer, pool, seedFiles, outcome>>

\* g.Wait returns the first error of the workers, if any.
WaitWorkers ==
    /\ main = "wait"
    /\ \A w \in Workers : wpc[w] \in {"exit", "fail"}
    /\ Return(IF gErr THEN "err" ELSE "nil")
    /\ UNCHANGED <<opt, file, isBlank, sequencer, pool, seedFiles,
                   published, cancelled, runs>>

\* Mutant: the temporary file is renamed whatever AssembleFile returned.
RenameAlways == TRUE
MayRename    == result = "nil"

\* writeWithTmpFile: rename the temporary file after a success, remove it
\* otherwise.  In place there is nothing left to do.
Finish ==
    /\ main = "return"
    /\ main' = "done"
    /\ \/ published' = (published \/ MayRename) /\ UNCHANGED result
       \/ /\ MayFail /\ opt.mode = "tmp" /\ result = "nil"
          /\ result' = "err" /\ UNCHANGED published
    /\ UNCHANGED <<opt, file, isBlank, sequencer, pool, seedFiles, cancelled, runs>>

-----------------------------------------------------------------------------
(* A worker.                                                               *)

\* The worker is done with the chunk it has reached: the next chunk of its
\* segment is verified, or the segment is complete.  A segment from the
\* store has one chunk.
ChunkDone(w) ==
    IF slot[w] < job[w].last
    THEN /\ slot' = [slot EXCEPT ![w] = @ + 1]
         /\ wpc' = [wpc EXCEPT ![w] = "verify"]
    ELSE wpc' = [wpc EXCEPT ![w] = "add"] /\ UNCHANGED slot

\* What SeedSegment.WriteInto leaves in slot i: the null seed need not write
\* into a blank file, and a copy from a seed that has become too short ends
\* early without an error.
SeedData(c, i) ==
    IF c.src = NullSeed
    THEN IF isBlank /\ ~NullReflink THEN file[i] ELSE NullID
    ELSE LET n == c.pos + i - c.first
         IN  IF n <= Len(seedBlob[c.src]) THEN seedBlob[c.src][n] ELSE file[i]

\* After the copy every chunk of the segment is read back.  Mutant: it is not.
CopiedUnverified(c) == [slot |-> c.last, pc |-> "add"]
Copied(c)           == [slot |-> c.first, pc |-> "verify"]

\* WriteInto opens the seed file before its first chunk.
CannotOpen(w) == slot[w] = job[w].first /\ job[w].src \in SeedIDs /\ ~seedExists[job[w].src]

\* WriteInto, chunk by chunk.
CopyChunk(w) ==
    /\ wpc[w] = "copy"
    /\ ~CannotOpen(w)
    /\ file' = [file EXCEPT ![slot[w]] = SeedData(job[w], slot[w])]
    /\ IF slot[w] < job[w].last
       THEN slot' = [slot EXCEPT ![w] = @ + 1] /\ UNCHANGED wpc
       ELSE /\ slot' = [slot EXCEPT ![w] = Copied(job[w]).slot]
            /\ wpc' = [wpc EXCEPT ![w] = Copied(job[w]).pc]
    /\ UNCHANGED <<opt, main, isBlank, sequencer, fed, job, from, written, cache,
                   gErr, seedFiles, outcome>>

\* Read the chunk back from the target and compare its hash.
VerifyChunk(w) ==
    /\ wpc[w] = "verify"
    /\ \/ /\ file[slot[w]] = idx[slot[w]]
          /\ ChunkDone(w)
          /\ UNCHANGED gErr
       \/ /\ file[slot[w]] # idx[slot[w]]
          /\ opt.action = "Regenerate"
          /\ wpc' = [wpc EXCEPT ![w] = "chunk"]
          /\ UNCHANGED <<slot, gErr>>
       \/ /\ file[slot[w]] # idx[slot[w]]
          /\ opt.action # "Regenerate"
          /\ wpc' = [wpc EXCEPT ![w] = "fail"]
          /\ gErr' = TRUE
          /\ UNCHANGED slot
    /\ UNCHANGED <<opt, main, file, isBlank, sequencer, fed, job, from, written,
                   cache, seedFiles, outcome>>

\* selfSeed.pos: positions of the chunk in the part known to be written.
\* Mutant: every position of the chunk in the index.
PositionsAnywhere(id) == {i \in Slots : idx[i] = id}
Positions(id)         == {i \in Slots : i < written /\ idx[i] = id}

\* The start of writeChunk: keep the slot, or choose where to take it from.
WriteChunk(w) ==
    /\ wpc[w] = "chunk"
    /\ slot[w] \in Slots
    /\ LET id == idx[slot[w]]
       IN  \/ /\ ~isBlank /\ file[slot[w]] = id
              /\ ChunkDone(w)
              /\ UNCHANGED from
           \/ /\ isBlank \/ file[slot[w]] # id
              /\ \E p \in Positions(id) :
                    /\ \A q \in Positions(id) : p <= q
                    /\ from' = [from EXCEPT ![w] = p]
              /\ wpc' = [wpc EXCEPT ![w] = "self"]
              /\ UNCHANGED slot
           \/ /\ isBlank \/ file[slot[w]] # id
              /\ Positions(id) = {}
              /\ wpc' = [wpc EXCEPT ![w] = "fetch"]
              /\ UNCHANGED <<from, slot>>
    /\ UNCHANGED <<opt, main, file, isBlank, sequencer, fed, job, written, cache,
                   gErr, seedFiles, outcome>>

\* Copy the chunk from where it was written before.
SelfCopy(w) ==
    /\ wpc[w] = "self"
    /\ file' = [file EXCEPT ![slot[w]] = file[from[w]]]
    /\ from' = [from EXCEPT ![w] = 0]
    /\ ChunkDone(w)
    /\ UNCHANGED <<opt, main, isBlank, sequencer, fed, job, written, cache, gErr,
                   seedFiles, outcome>>

\* Take the chunk from the store, which verified it (chunk.go).
FetchChunk(w) ==
    /\ wpc[w] = "fetch"
    /\ file' = [file EXCEPT ![slot[w]] = idx[slot[w]]]
    /\ ChunkDone(w)
    /\ UNCHANGED <<opt, main, isBlank, sequencer, fed, job, from, written, cache,
                   gErr, seedFiles, outcome>>

\* The bytes a worker is about to write, and whether they change its slot.
Incoming(w) == CASE wpc[w] = "copy"  -> SeedData(job[w], slot[w])
                 [] wpc[w] = "self"  -> file[from[w]]
                 [] wpc[w] = "fetch" -> idx[slot[w]]
Tearing(w)  == /\ wpc[w] \in {"copy", "self", "fetch"} /\ slot[w] \in Slots
               /\ Incoming(w) # file[slot[w]]

\* A read, a write, a store request or opening a seed fails.  A write that
\* fails may have changed part of the slot.
WorkerFail(w) ==
    /\ wpc[w] \in {"copy", "verify", "chunk", "self", "fetch"}
    /\ slot[w] \in Slots
    /\ MayFail \/ (wpc[w] = "copy" /\ CannotOpen(w))
    /\ \/ UNCHANGED file
       \/ MayFail /\ Tearing(w) /\ file' = [file EXCEPT ![slot[w]] = Junk]
    /\ wpc' = [wpc EXCEPT ![w] = "fail"]
    /\ gErr' = TRUE
    /\ UNCHANGED <<opt, main, isBlank, sequencer, fed, job, slot, from, written,
                   cache, seedFiles, outcome>>

Covered(segs, i) == \E c \in segs : c.first <= i /\ i <= c.last
Segment(c)       == [first |-> c.first, last |-> c.last]

\* The positions selfSeed.written may move to: past every segment that
\* follows without a gap.  Mutant: one segment only.
NextWrittenOnce(segs) ==
    IF \E c \in segs : c.first = written
    THEN {c.last + 1 : c \in {d \in segs : d.first = written}} ELSE {written}
NextWritten(segs) ==
    {n \in written..(Len(idx) + 1) :
        ~Covered(segs, n) /\ \A i \in written..(n - 1) : Covered(segs, i)}

\* selfSeed.add: remember the segment and advance, under the lock.
Add(w) ==
    /\ wpc[w] = "add"
    /\ LET segs == cache \cup {Segment(job[w])}
       IN  \E n \in NextWritten(segs) :
              written' = n /\ cache' = {c \in segs : c.first >= n}
    /\ wpc' = [wpc EXCEPT ![w] = "idle"]
    /\ job' = [job EXCEPT ![w] = NoJob]
    /\ slot' = [slot EXCEPT ![w] = 0]
    /\ UNCHANGED <<opt, main, file, isBlank, sequencer, fed, from, gErr,
                   seedFiles, outcome>>

\* The channel is closed and empty.
Exit(w) ==
    /\ wpc[w] = "idle"
    /\ main = "wait"
    /\ wpc' = [wpc EXCEPT ![w] = "exit"]
    /\ UNCHANGED <<opt, main, file, isBlank, sequencer, fed, job, slot, from,
                   written, cache, gErr, seedFiles, outcome>>

-----------------------------------------------------------------------------
(* The environment.                                                        *)

Running == main \notin {"done", "killed"}

\* Memory is lost and the writes under way are torn.
ProcessDies(torn) ==
    /\ main' = "killed"
    /\ file' = [i \in Slots |-> IF i \in torn THEN Junk ELSE file[i]]
    /\ PoolAtRest
    /\ NoPlan
    /\ wpc' = [w \in Workers |-> "none"]
    /\ isBlank' = FALSE
    /\ seedIndex' = opt.caibx
    /\ invalid' = {}
    /\ result' = "none"
    /\ UNCHANGED <<opt, seedFiles, published, cancelled, runs>>

\* A job whose segment is not in the index: slicing it panics.
Panic(w) ==
    /\ wpc[w] \in {"copy", "verify", "chunk"}
    /\ slot[w] \notin Slots
    /\ ProcessDies({})

Kill ==
    /\ Running
    /\ runs < MaxRuns
    /\ \E torn \in SUBSET {slot[w] : w \in {v \in Workers : Tearing(v)}} :
          ProcessDies(torn)

\* Start extract again after it failed or died.  Another temporary file is
\* made; in place, it continues with what is there.
Restart ==
    /\ main = "killed" \/ (main = "done" /\ result = "err")
    /\ runs < MaxRuns
    /\ runs' = runs + 1
    /\ main' = "stat"
    /\ file' = IF opt.mode = "tmp" THEN Empty ELSE file
    /\ PoolAtRest
    /\ NoPlan
    /\ wpc' = [w \in Workers |-> "none"]
    /\ isBlank' = FALSE
    /\ seedIndex' = opt.caibx
    /\ invalid' = {}
    /\ result' = "none"
    /\ cancelled' = FALSE
    /\ UNCHANGED <<opt, seedFiles, published>>

Cancel ==
    /\ MayCancel
    /\ Running
    /\ ~cancelled
    /\ cancelled' = TRUE
    /\ UNCHANGED <<opt, main, file, isBlank, sequencer, pool, seedFiles,
                   result, published, runs>>

\* Somebody writes to a seed file, or removes it.
SeedChange(s) ==
    /\ Running
    /\ changes < MaxSeedChanges
    /\ changes' = changes + 1
    /\ \/ \E b \in Blobs \ {seedBlob[s]} :
             seedBlob' = [seedBlob EXCEPT ![s] = b] /\ UNCHANGED seedExists
       \/ /\ seedExists[s]
          /\ seedExists' = [seedExists EXCEPT ![s] = FALSE]
          /\ UNCHANGED seedBlob
    /\ UNCHANGED <<opt, main, file, isBlank, sequencer, pool, outcome>>

-----------------------------------------------------------------------------

\* A target file before the run: whatever was there, up to its end.
Targets ==
    {f \in [Slots -> InitContents] :
        \A i \in Slots : f[i] = NoData => \A j \in i..Len(idx) : f[j] = NoData}

Init ==
    /\ opt \in Options
    /\ main = "stat"
    /\ file \in (CASE opt.mode = "tmp"     -> {Empty}
                   [] opt.mode = "inplace" -> Targets
                   [] opt.mode = "device"  -> {f \in Targets : \A i \in Slots : f[i] # NoData})
    /\ isBlank = FALSE
    /\ seedBlob = opt.blob
    /\ seedExists = [s \in SeedIDs |-> TRUE]
    /\ seedIndex = opt.caibx
    /\ invalid = {}
    /\ plan = <<>> /\ current = 1 /\ toValidate = {} /\ valErrs = 0
    /\ fed = 1 /\ written = 1 /\ cache = {} /\ gErr = FALSE
    /\ wpc = [w \in Workers |-> "none"]
    /\ job = [w \in Workers |-> NoJob]
    /\ slot = [w \in Workers |-> 0]
    /\ from = [w \in Workers |-> 0]
    /\ cancelled = FALSE
    /\ result = "none"
    /\ published = (opt.mode # "tmp")
    /\ changes = 0
    /\ runs = 1

Worker(w) ==
    \/ CopyChunk(w) \/ VerifyChunk(w) \/ WriteChunk(w) \/ SelfCopy(w)
    \/ FetchChunk(w) \/ WorkerFail(w) \/ Add(w) \/ Exit(w) \/ Panic(w)

Main ==
    \/ StatTarget \/ TruncateTarget \/ Setup \/ PlanNext \/ OpenSeeds
    \/ ValidateEntry \/ ValidateEnd \/ InvalidPlan
    \/ FeedEnd \/ WaitWorkers \/ Finish
    \/ \E w \in Workers : Feed(w)

Environment ==
    \/ Kill \/ Restart \/ Cancel
    \/ \E s \in SeedIDs : SeedChange(s)

\* Nothing happens once extract has ended for good.
Ended == ~Running /\ UNCHANGED vars

Next ==
    \/ Main
    \/ \E w \in Workers : Worker(w)
    \/ Environment
    \/ Ended

\* The scheduler runs every goroutine that can run, and file and store
\* operations return.  Nothing says that anybody interrupts, restarts, or
\* changes seeds.
Fairness == WF_vars(Main) /\ \A w \in Workers : WF_vars(Worker(w))

Spec == Init /\ [][Next]_vars /\ Fairness

-----------------------------------------------------------------------------
(* Properties.                                                             *)

WorkerPCs == {"none", "idle", "copy", "verify", "chunk", "self", "fetch", "add",
              "exit", "fail"}
MainPCs   == {"stat", "truncate", "setup", "plan", "open", "validate", "invalid",
              "feed", "wait", "return", "done", "killed"}
Entries   == [first : Nat, last : Nat, src : {FromStore, NullSeed} \cup SeedIDs,
              pos : Nat \ {0}]

\* Every variable keeps its type; in particular positions stay in the index.
TypeOK ==
    /\ opt \in Options
    /\ main \in MainPCs
    /\ file \in [Slots -> Contents \cup {NoData}]
    /\ isBlank \in BOOLEAN
    /\ seedBlob \in [SeedIDs -> Seq(Contents)]
    /\ seedExists \in [SeedIDs -> BOOLEAN]
    /\ seedIndex \in [SeedIDs -> Seq(Contents)]
    /\ invalid \subseteq SeedIDs
    /\ plan \in Seq(Entries)
    /\ current \in Nat
    /\ toValidate \subseteq 1..Len(plan)
    /\ valErrs \in Nat
    /\ fed \in Nat \ {0}
    /\ wpc \in [Workers -> WorkerPCs]
    /\ job \in [Workers -> Entries]
    /\ slot \in [Workers -> Nat]
    /\ from \in [Workers -> Slots \cup {0}]
    /\ written \in 1..(Len(idx) + 1)
    /\ cache \subseteq [first : Nat, last : Nat]
    /\ gErr \in BOOLEAN /\ cancelled \in BOOLEAN /\ published \in BOOLEAN
    /\ result \in {"none", "nil", "err"}
    /\ changes \in Nat /\ runs \in Nat

\* The segments of a plan cover the index once, in order and without a gap,
\* whatever seeds match where: what Plan and Next (sequencer.go) promise.
PlanCoversIndex ==
    /\ \A j \in 1..Len(plan) :
          /\ plan[j].first = (IF j = 1 THEN 1 ELSE plan[j - 1].last + 1)
          /\ plan[j].first <= plan[j].last /\ plan[j].last <= Len(idx)
    /\ main \in {"open", "validate", "feed", "wait"} =>
          plan # <<>> /\ plan[Len(plan)].last = Len(idx)

\* The same for the indexes that have a chunk.
PlanCoversNonEmptyIndex == idx # <<>> => PlanCoversIndex

\* Every slot the self-seed may hand out as a source, and every segment it
\* has recorded ahead of a gap, holds the chunk the index names: selfSeed.add
\* comes after the data, whatever order the workers finish in.
SelfSeedSound ==
    /\ \A i \in Slots : i < written => file[i] = idx[i]
    /\ \A c \in cache : \A i \in c.first..c.last : file[i] = idx[i]

\* A slot the self-seed has recorded is not written again in the same run, so
\* a self-seed segment can be read at any later time.
RecordedSlotsStable ==
    [][main' \notin {"stat", "killed"} =>
          \A i \in Slots : i < written => file'[i] = file[i]]_vars

\* When AssembleFile returns no error, and was not cancelled, the file is the
\* blob of the index: in place over old data, over the remains of a killed
\* run, and with seeds that change while they are copied.
NilMeansComplete == result = "nil" /\ ~cancelled => Complete

\* A run that succeeds has advanced the self-seed over the whole index: no
\* segment is left in selfSeed.cache.
SelfSeedDrained ==
    result = "nil" /\ ~cancelled /\ main = "return" =>
        written = Len(idx) + 1 /\ cache = {}

\* Extracting through a temporary file never puts an incomplete file in the
\* place of the output file.
PublishedComplete == opt.mode = "tmp" /\ published => Complete

\* A plan that the workers are given takes nothing from a seed known to be
\* invalid, however often it was planned again, and also when Validate was
\* cut short because the context is done.
PlanValid == \A j \in 1..Len(plan) : plan[j].src \notin invalid
InvalidSeedsUnused == main \in {"feed", "wait"} => PlanValid

\* A chunk that is in its place stays there, in this run and in later ones
\* that complete the file, "only populate areas that differ from the expected
\* content" (assemble.go:88-89), except where a seed segment is copied: that
\* is written without looking at the file first.
CorrectChunksKept ==
    [][opt.mode # "tmp" =>
          \A i \in Slots :
              file[i] = idx[i] /\ (\A w \in Workers : wpc[w] = "copy" => slot[w] # i)
                  => file'[i] = idx[i]]_vars

\* AssembleFile returns, whatever fails and however often a seed turns out to
\* be invalid: no worker waits for a job and the feeder for a worker forever.
Terminates == Running ~> ~Running

-----------------------------------------------------------------------------
(* What all of this looks like from outside.                               *)

ExtractPhase == CASE main = "killed" -> "killed"
                  [] main = "done"   -> (IF result = "nil" THEN "ok" ELSE "failed")
                  [] OTHER           -> "running"

\* What is found under the name of the output.  A temporary file is not there
\* before it is renamed.
Output == IF ~published THEN "old" ELSE IF Complete THEN "blob" ELSE "other"

Promise == INSTANCE Extract WITH
    inPlace     <- opt.mode # "tmp",
    phase       <- ExtractPhase,
    output      <- Output,
    interrupted <- cancelled

\* Seeds, self-seed, workers, failures, deaths and restarts implement Extract:
\* writeWithTmpFile replaces the output at once and only by the whole blob, a
\* run in place that returns nil leaves the blob, and a run that fails takes
\* nothing back.
ImplementsExtract == Promise!Spec

-----------------------------------------------------------------------------
(* The inductive invariant behind the safety properties (AssembleProofs).  *)

Busy(w) == wpc[w] \in {"copy", "verify", "chunk", "self", "fetch", "add"}

\* The last slot of the plan that was handed out.
FedEnd == IF fed = 1 THEN 0 ELSE plan[fed - 1].last

\* The plan so far is an ordered partition of the index.
PlanInv ==
    /\ \A j \in 1..Len(plan) :
          /\ 1 <= plan[j].first /\ plan[j].first <= plan[j].last
          /\ plan[j].last <= Len(idx) \/ (idx = <<>> /\ plan[j].src = FromStore)
          /\ plan[j].first = (IF j = 1 THEN 1 ELSE plan[j - 1].last + 1)
    /\ \A i, j \in 1..Len(plan) : i < j => plan[i].last < plan[j].first
    /\ \A j \in toValidate : plan[j].src \in SeedIDs
    /\ main = "plan" =>
          /\ current = (IF plan = <<>> THEN 1 ELSE plan[Len(plan)].last + 1)
          /\ current <= Len(idx) \/ (idx = <<>> /\ plan = <<>>)
    /\ main \in {"open", "validate", "feed", "wait"} =>
          plan # <<>> /\ (plan[Len(plan)].last = Len(idx) \/ idx = <<>>)

\* What is handed out is bounded by the plan; outside the feeding phase the
\* workers hold nothing.
PhaseInv ==
    /\ fed <= Len(plan) + 1
    /\ main \in {"stat", "truncate", "setup", "plan", "open", "validate", "invalid"} =>
          /\ fed = 1 /\ written = 1 /\ cache = {} /\ gErr = FALSE
          /\ \A w \in Workers : wpc[w] \in {"none", "idle"}
    /\ main \notin {"feed", "wait"} => \A w \in Workers : ~Busy(w)
    /\ main = "wait" => fed > Len(plan) \/ cancelled \/ gErr
    /\ \A w \in Workers : wpc[w] = "fail" => gErr

\* The segments held by workers and those recorded by the self-seed are in
\* the part that was handed out, and no two of them share a slot.
SegmentInv ==
    /\ written <= FedEnd + 1
    /\ \A c \in cache : written < c.first /\ c.first <= c.last /\ c.last <= FedEnd
                        /\ c.last <= Len(idx)
    /\ \A w \in Workers : Busy(w) =>
          /\ 1 <= job[w].first /\ job[w].first <= slot[w] /\ slot[w] <= job[w].last
          /\ job[w].last <= FedEnd /\ written <= job[w].first
          /\ job[w].last <= Len(idx) \/ (idx = <<>> /\ wpc[w] = "chunk")
          /\ wpc[w] = "copy" => job[w].src # FromStore
          /\ \A c \in cache : c.last < job[w].first \/ job[w].last < c.first
    /\ \A v, w \in Workers : Busy(v) /\ Busy(w) /\ v # w =>
          job[v].last < job[w].first \/ job[w].last < job[v].first

\* How far the data of each worker's segment is known to be right.
SegmentRight(w) ==
    /\ wpc[w] \in {"verify", "chunk", "self", "fetch", "add"} =>
          \A i \in Slots : job[w].first <= i /\ i < slot[w] => file[i] = idx[i]
    /\ wpc[w] = "add" =>
          \A i \in Slots : job[w].first <= i /\ i <= job[w].last => file[i] = idx[i]
    /\ wpc[w] = "self" =>
          from[w] \in Slots /\ from[w] < written /\ idx[from[w]] = idx[slot[w]]
WorkerDataInv == \A w \in Workers : SegmentRight(w)

\* Without an error nothing that was handed out is lost.
CoverInv ==
    ~gErr => \A i \in Slots : i <= FedEnd =>
        \/ i < written
        \/ Covered(cache, i)
        \/ \E w \in Workers : Busy(w) /\ job[w].first <= i /\ i <= job[w].last

\* What the outcome says about the file.
OutcomeInv ==
    /\ result = "nil" => main \in {"return", "done"}
    /\ NilMeansComplete
    /\ opt.mode = "tmp" /\ published => main = "done" /\ result = "nil"
    /\ cancelled => MayCancel

\* A plan is made of seeds that are valid, and stays so until one of its
\* entries fails to validate.
ValidInv ==
    main \in {"plan", "open", "feed", "wait"} \/ (main = "validate" /\ valErrs = 0) => PlanValid

\* In place the file has its final name from the start.
InPlaceInv == opt.mode # "tmp" => published

\* All of it is preserved by every step.
IInv ==
    /\ TypeOK /\ PlanInv /\ PhaseInv /\ SegmentInv
    /\ SelfSeedSound /\ WorkerDataInv /\ CoverInv /\ OutcomeInv

=============================================================================
