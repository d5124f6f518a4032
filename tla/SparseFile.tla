----------------------------- MODULE SparseFile -----------------------------
(***************************************************************************)
(* SparseFile (sparse-file.go), the copy-on-read file behind mount-index   *)
(* --cor-file: a read first loads the chunks it needs from the store into  *)
(* the file.  Which chunks are loaded is kept in a bitmap that can be      *)
(* saved to a state file (on SIGHUP and on unmount), loaded by the next    *)
(* process, or used to load the same chunks in the background.             *)
(*                                                                         *)
(* The file is the sequence of what its chunk-sized slots hold: the ID of  *)
(* the chunk whose bytes are there, NullID for zeros, or Junk.  A state    *)
(* file is its length in bytes and the set of bits that are 1.             *)
(***************************************************************************)
EXTENDS Integers, Sequences, FiniteSets, FiniteSetsExt

CONSTANTS
    Readers,        \* goroutines of the FUSE server that read
    Preloaders,     \* goroutines of preloadChunksFromState
    Indexes,        \* the indexes the file may be used for
    Sizes,          \* size of the chunk in each slot
    NullID, Junk,   \* the all-zero chunk; bytes that are no chunk
    MaxLength,      \* longest read
    SaveState,      \* opt.StateSaveFile is given
    InitChoices,    \* whether opt.StateInitFile is given, as the same file
    MayFail,        \* store requests and writes may fail
    MaxReads,       \* bound on the reads of a process
    MaxRuns         \* bound on the processes

Actors == Readers \cup Preloaders

ASSUME ActorsAssumption == Readers \cap Preloaders = {} /\ {"fresh", "used"} \cap Actors = {}
ASSUME SizesAssumption == Sizes \in Seq(Nat \ {0}) /\ \A x \in Indexes : Len(x) \in 1..Len(Sizes)
ASSUME FlagsAssumption ==
    SaveState \in BOOLEAN /\ InitChoices \subseteq BOOLEAN /\ MayFail \in BOOLEAN
ASSUME LengthAssumption == MaxLength \in Nat

VARIABLES
    main,       \* off, new (in NewSparseFile), up, failed
    idx,        \* the index of the process
    initState,  \* it is given a state file to load chunks from
    file,       \* the slots of the sparse file
    stateFile,  \* the state file; bytes is -1 when there is none
    saving,     \* WriteState has created the state file and not written it
    done,       \* l.done
    once,       \* state of each sync.Once: fresh, the actor in it, or used
    preload,    \* chunks the feeder has yet to hand out
    pc,         \* where each actor is
    need,       \* chunks it has to load (chunksNeeded)
    range,      \* the bytes it was asked for: offset and length
    got,        \* what its last read returned, slot by slot
    failed,     \* chunks whose load failed in this process
    stale,      \* the state file is about a cache file that was removed or resized
    misled,     \* this process has taken such a state for its own
    reads, runs

config == <<idx, initState>>
vars == <<main, config, file, stateFile, saving, done, once, preload, pc, need, range, got,
          failed, stale, misled, reads, runs>>
loader == <<done, once, preload, failed, misled>>
actors == <<pc, need, range, got, reads>>

Slots == 1..Len(idx)

\* Offset of each slot, and of the end.
StartOf[i \in 1..(Len(Sizes) + 1)] == IF i = 1 THEN 0 ELSE StartOf[i - 1] + Sizes[i - 1]
Starts(i)  == StartOf[i]
Length(x)  == StartOf[Len(x) + 1]
NoState    == [bytes |-> -1, bits |-> {}]
NoRange    == [offset |-> 0, length |-> 0]

\* stateFromReader compares the length of the state with the index.
StateBytes(x) == (Len(x) + 7) \div 8
StateFits     == stateFile.bytes = StateBytes(idx)

-----------------------------------------------------------------------------
(* NewSparseFile.                                                          *)

ProcessStarts ==
    /\ done' = {} /\ preload' = {} /\ failed' = {} /\ misled' = FALSE
    /\ pc' = [a \in Actors |-> "idle"]
    /\ need' = [a \in Actors |-> {}]
    /\ range' = [a \in Actors |-> NoRange]
    /\ got' = [a \in Actors |-> <<>>]
    /\ reads' = 0
    /\ saving' = FALSE

\* The process is started for one of the indexes.
Start ==
    /\ main = "off"
    /\ runs < MaxRuns
    /\ runs' = runs + 1
    /\ main' = "new"
    /\ idx' \in Indexes /\ initState' \in InitChoices
    /\ once' = [i \in 1..Len(idx') |-> "fresh"]
    /\ ProcessStarts
    /\ UNCHANGED <<file, stateFile, stale>>

\* The size of the file is that of the index.
SizeMatches == Len(file) = Len(idx)

\* The file and the saved state match: use them as they are.
UseSavedState ==
    /\ main = "new"
    /\ SizeMatches /\ SaveState /\ StateFits
    /\ done' = stateFile.bits /\ misled' = stale
    /\ main' = "up"
    /\ UNCHANGED <<config, file, stateFile, saving, once, preload, failed, stale, actors, runs>>

\* The file at the size of the index: cut, or extended with zeros.
Truncated == [i \in Slots |-> IF i <= Len(file) THEN file[i] ELSE NullID]

\* Otherwise bring the file to its size and start loading what the initial
\* state lists; without that file, or with one that does not fit, fail.  A state
\* file of the cache file as it was stays where it is.
InitFile ==
    /\ main = "new"
    /\ ~(SizeMatches /\ SaveState /\ StateFits)
    /\ file' = Truncated /\ stale' = (stale \/ ~SizeMatches)
    /\ \/ /\ ~initState
          /\ main' = "up" /\ UNCHANGED preload
       \/ /\ initState /\ StateFits
          /\ main' = "up" /\ preload' = stateFile.bits \cap Slots
       \/ /\ initState /\ ~StateFits
          /\ main' = "failed" /\ UNCHANGED preload
    /\ UNCHANGED <<config, stateFile, saving, done, once, failed, misled, actors, runs>>

-----------------------------------------------------------------------------
(* Reading.                                                                *)

\* indexRange: the first chunk that ends after the offset, and the last one
\* that starts in the range; the last chunk for a read past the end.
IndexRange(offset, length) ==
    LET ends == {i \in Slots : offset < Starts(i) + Sizes[i]}
        f    == IF ends = {} THEN Len(idx) ELSE Min(ends)
        more == {i \in (f + 1)..Len(idx) : Starts(i) <= offset + length - 1}
    IN  f..(f + Cardinality(more))

\* loadRange under the read lock: what is neither loaded nor null.
Needed(chunks) == {i \in chunks : i \notin done /\ idx[i] # NullID}

ReadAt(r, offset, length) ==
    /\ main = "up" /\ pc[r] = "idle"
    /\ reads < MaxReads
    /\ reads' = reads + 1
    /\ need' = [need EXCEPT ![r] = Needed(IndexRange(offset, length))]
    /\ range' = [range EXCEPT ![r] = [offset |-> offset, length |-> length]]
    /\ got' = [got EXCEPT ![r] = <<>>]
    /\ pc' = [pc EXCEPT ![r] = "load"]
    /\ UNCHANGED <<main, config, file, stateFile, saving, loader, stale, runs>>

\* A preloading goroutine takes the next chunk.
Preload(p) ==
    /\ main = "up" /\ pc[p] = "idle"
    /\ preload # {}
    /\ need' = [need EXCEPT ![p] = {Min(preload)}]
    /\ preload' = preload \ {Min(preload)}
    /\ pc' = [pc EXCEPT ![p] = "load"]
    /\ UNCHANGED <<main, config, file, stateFile, saving, done, once, failed, stale, misled,
                   range, got, reads, runs>>

\* The sync.Once of chunk i for actor a: it runs the load, it skips it, or
\* it has to wait for the actor in it.  Mutant: it does not wait.
OnceSkipsRunning(a, i) == IF once[i] = "fresh" THEN "run" ELSE "skip"
OnceDo(a, i)           == CASE once[i] = "fresh" -> "run"
                            [] once[i] = "used"  -> "skip"
                            [] OTHER             -> "wait"

\* loadChunk for the next chunk of the list.
LoadChunk(a) ==
    /\ pc[a] = "load" /\ need[a] # {}
    /\ LET i == Min(need[a])
       IN  \/ /\ OnceDo(a, i) = "run"
              /\ once' = [once EXCEPT ![i] = a]
              /\ pc' = [pc EXCEPT ![a] = "fetch"]
              /\ UNCHANGED need
           \/ /\ OnceDo(a, i) = "skip"
              /\ need' = [need EXCEPT ![a] = @ \ {i}]
              /\ UNCHANGED <<once, pc>>
    /\ UNCHANGED <<main, config, file, stateFile, saving, done, preload, failed, stale, misled,
                   range, got, reads, runs>>

\* The sync.Once when its function returns with an error.  Mutant: nobody
\* notices that it has returned.
OnceLeftRunning(a) == a
OnceAfterError(a)  == "used"

\* The chunk comes from the store and is written to the file.
Fetch(a) ==
    /\ pc[a] = "fetch"
    /\ LET i == Min(need[a])
       IN  \/ /\ file' = [file EXCEPT ![i] = idx[i]]
              /\ pc' = [pc EXCEPT ![a] = "set"]
              /\ UNCHANGED <<need, range, once, failed>>
           \/ /\ MayFail
              /\ \E d \in {file[i], Junk} : file' = [file EXCEPT ![i] = d]
              /\ failed' = failed \cup {i}
              /\ once' = [once EXCEPT ![i] = OnceAfterError(a)]
              /\ need' = [need EXCEPT ![a] = {}] /\ range' = [range EXCEPT ![a] = NoRange]
              /\ pc' = [pc EXCEPT ![a] = "idle"]
    /\ UNCHANGED <<main, config, stateFile, saving, done, preload, stale, misled, got, reads,
                   runs>>

\* The bit is set under the lock, and the sync.Once is used up.
SetDone(a) ==
    /\ pc[a] = "set"
    /\ LET i == Min(need[a])
       IN  /\ done' = done \cup {i}
           /\ once' = [once EXCEPT ![i] = "used"]
           /\ need' = [need EXCEPT ![a] = @ \ {i}]
    /\ pc' = [pc EXCEPT ![a] = "load"]
    /\ UNCHANGED <<main, config, file, stateFile, saving, preload, failed, stale, misled,
                   range, got, reads, runs>>

\* The slots with a byte in the range.
Overlap(r) ==
    {i \in Slots : /\ Starts(i) < range[r].offset + range[r].length
                   /\ range[r].offset < Starts(i) + Sizes[i]}

\* Everything is loaded: read from the file.
ReadFile(r) ==
    /\ r \in Readers
    /\ pc[r] = "load" /\ need[r] = {}
    /\ got' = [got EXCEPT ![r] = [i \in Overlap(r) |-> file[i]]]
    /\ range' = [range EXCEPT ![r] = NoRange]
    /\ pc' = [pc EXCEPT ![r] = "idle"]
    /\ UNCHANGED <<main, config, file, stateFile, saving, loader, stale, need, reads, runs>>

PreloadDone(p) ==
    /\ p \in Preloaders
    /\ pc[p] = "load" /\ need[p] = {}
    /\ pc' = [pc EXCEPT ![p] = "idle"]
    /\ UNCHANGED <<main, config, file, stateFile, saving, loader, stale, need, range, got,
                   reads, runs>>

-----------------------------------------------------------------------------
(* Saving the state, and the end of the process.                           *)

\* os.Create empties the state file, which is then written under the lock.
CreateState ==
    /\ main = "up" /\ SaveState /\ ~saving
    /\ saving' = TRUE
    /\ stateFile' = [bytes |-> 0, bits |-> {}]
    /\ UNCHANGED <<main, config, file, loader, stale, actors, runs>>

\* What is saved.  Mutant: the chunks whose load has begun, too.
BitsOfBegun == done \cup {i \in Slots : once[i] # "fresh"}
SavedBits   == done

WriteState ==
    /\ main = "up" /\ saving
    /\ saving' = FALSE
    /\ stateFile' = [bytes |-> StateBytes(idx), bits |-> SavedBits] /\ stale' = misled
    /\ UNCHANGED <<main, config, file, loader, actors, runs>>

\* The slots being written, which may be torn when the process dies.
Writing == {Min(need[a]) : a \in {b \in Actors : pc[b] = "fetch"}}

\* The process ends or is killed, at any time.
Exit ==
    /\ main # "off"
    /\ runs < MaxRuns
    /\ main' = "off"
    /\ \E torn \in SUBSET Writing :
          file' = [i \in DOMAIN file |-> IF i \in torn THEN Junk ELSE file[i]]
    /\ ProcessStarts
    /\ once' = [i \in Slots |-> "fresh"]
    /\ UNCHANGED <<config, stateFile, stale, runs>>

\* Somebody removes the cache file between two processes.
RemoveFile ==
    /\ main = "off"
    /\ file # <<>>
    /\ file' = <<>>
    /\ UNCHANGED <<main, config, stateFile, saving, loader, stale, actors, runs>>

-----------------------------------------------------------------------------

Init ==
    /\ main = "off"
    /\ idx \in Indexes /\ initState \in InitChoices
    /\ file = <<>>
    /\ stateFile = NoState
    /\ saving = FALSE
    /\ done = {} /\ preload = {} /\ failed = {} /\ stale = FALSE /\ misled = FALSE
    /\ once = [i \in Slots |-> "fresh"]
    /\ pc = [a \in Actors |-> "idle"]
    /\ need = [a \in Actors |-> {}]
    /\ range = [a \in Actors |-> NoRange]
    /\ got = [a \in Actors |-> <<>>]
    /\ reads = 0 /\ runs = 0

Load(a) == LoadChunk(a) \/ Fetch(a) \/ SetDone(a) \/ ReadFile(a) \/ PreloadDone(a)

Ended == main \in {"up", "failed"} /\ runs = MaxRuns /\ UNCHANGED vars

Next ==
    \/ Start \/ UseSavedState \/ InitFile
    \/ \E r \in Readers, offset \in 0..Length(idx), length \in 1..MaxLength :
          ReadAt(r, offset, length)
    \/ \E p \in Preloaders : Preload(p)
    \/ \E a \in Actors : Load(a)
    \/ CreateState \/ WriteState \/ Exit \/ RemoveFile
    \/ Ended

\* Store requests return, and goroutines that can run do.
Fairness == \A a \in Actors : WF_vars(Load(a))

Spec == Init /\ [][Next]_vars /\ Fairness

-----------------------------------------------------------------------------
(* Properties.                                                             *)

\* A chunk that is marked as loaded is in the file, in this process and in
\* those that continue with its state file, whenever the state was saved and
\* whenever processes died: unless the process has taken the state of a cache
\* file that was removed or resized meanwhile, which NewSparseFile cannot tell.
DoneMeansWritten ==
    main = "up" /\ ~misled => \A i \in done : i \in DOMAIN file /\ file[i] = idx[i]

\* A read can only return other data after a load of that chunk has failed
\* in the same process, or with the state of another cache file: concurrent
\* reads, preloading and torn slots of a killed process do not cause it.
WrongOnlyAfterFailure ==
    \A r \in Readers : \A i \in DOMAIN got[r] :
        got[r][i] = idx[i] \/ i \in failed \/ misled

\* Every read returns: readers that wait for a load in a sync.Once get on.
ReadsReturn == \A r \in Readers : pc[r] # "idle" ~> pc[r] = "idle"

-----------------------------------------------------------------------------
(* The inductive invariant, for a cache file that is used for one index.   *)

OneIndex == \A x, y \in Indexes : x = y

\* What a slot can hold, and the chunks that are ever loaded.
Data     == {NullID, Junk} \cup UNION {{x[i] : i \in 1..Len(x)} : x \in Indexes}
Loadable == {i \in Slots : idx[i] # NullID}

TypeInv ==
    /\ main \in {"off", "new", "up", "failed"} /\ idx \in Indexes
    /\ file \in Seq(Data) /\ Len(file) \in {0, Len(idx)} /\ (main = "up" => Len(file) = Len(idx))
    /\ stateFile \in [bytes : Int, bits : SUBSET Loadable]
    /\ done \subseteq Loadable /\ preload \subseteq Loadable
    /\ stale \in BOOLEAN /\ misled \in BOOLEAN
    /\ once \in [Slots -> {"fresh", "used"} \cup Actors]
    /\ pc \in [Actors -> {"idle", "load", "fetch", "set"}]
    /\ need \in [Actors -> SUBSET Loadable]
    /\ range \in [Actors -> [offset : Nat, length : Nat]]
    /\ got = [a \in Actors |-> got[a]]

\* Outside of the life of a process nothing is under way.
RestInv ==
    main # "up" =>
        /\ done = {} /\ preload = {} /\ ~misled
        /\ \A i \in Slots : once[i] = "fresh"
        /\ \A a \in Actors : pc[a] = "idle" /\ need[a] = {} /\ got[a] = <<>>

\* A load belongs to the actor in the sync.Once, and what it has written is
\* there until it sets the bit.
OnceInv ==
    \A a \in Actors : pc[a] \in {"fetch", "set"} =>
        /\ need[a] # {} /\ once[Min(need[a])] = a
        /\ pc[a] = "set" => file[Min(need[a])] = idx[Min(need[a])]

\* A sync.Once is used by a load that was completed or failed, and nobody
\* loads again what is loaded.
UsedInv ==
    /\ \A i \in Slots : once[i] = "used" => i \in done \cup failed
    /\ \A i \in done : i \in preload \/ (\E a \in Actors : i \in need[a]) => once[i] = "used"

\* The state file says less than what is in the cache file it is about, and
\* null chunks are zeros from the start.
SavedInv ==
    /\ saving => SaveState
    /\ ~SaveState \/ ~StateFits => stateFile.bits = {}
    /\ ~stale => \A i \in stateFile.bits : i \in DOMAIN file => file[i] = idx[i]
    /\ main = "up" /\ ~stale => stateFile.bits \subseteq done
    /\ \A i \in DOMAIN file : idx[i] = NullID => file[i] = NullID

\* What a read asks for is loaded, has failed, or is still on its list.
ReadInv ==
    \A r \in Readers : pc[r] # "idle" =>
        \A i \in Overlap(r) : i \in need[r] \cup done \cup failed \/ idx[i] = NullID

SparseInv ==
    /\ TypeInv /\ RestInv /\ OnceInv /\ UsedInv /\ SavedInv /\ ReadInv
    /\ DoneMeansWritten /\ WrongOnlyAfterFailure
=============================================================================
