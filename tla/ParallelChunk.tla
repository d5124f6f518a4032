--------------------------- MODULE ParallelChunk ---------------------------
(***************************************************************************)
(* IndexFromFile (make.go) splits a file into chunks with several          *)
(* goroutines that start at different offsets.  Each one keeps its chunks  *)
(* in a bucket until the previous one arrives at a chunk that both have    *)
(* found, and stops.  The main goroutine takes the chunks from the         *)
(* buckets, in the order of the goroutines.                                *)
(*                                                                         *)
(* The content-defined chunker (chunker.go) cuts after a byte when the     *)
(* hash of the window that ends with it says so.  The window is one byte   *)
(* here: a file is a sequence of "cut" bytes, which end a chunk that is    *)
(* long enough, "zero" bytes and other ("data") bytes.  A chunk is where   *)
(* it starts, its size and whether its ID is that of the null chunk.       *)
(***************************************************************************)
EXTENDS Integers, Sequences, FiniteSets, FiniteSetsExt, SequencesExt

CONSTANTS
    N,              \* number of goroutines asked for
    MinSize, MaxSize,   \* the chunk sizes min and max
    Files,          \* the files explored
    Faulty,         \* those whose reads may fail
    Interruptible   \* those for which the context may be cancelled

Bytes == {"zero", "data", "cut"}

ASSUME SizeAssumption ==
    N \in Nat \ {0} /\ MinSize \in Nat \ {0} /\ MaxSize \in Nat /\ MinSize <= MaxSize
ASSUME FileAssumption == Files \subseteq Seq(Bytes) /\ Faulty \cup Interruptible \subseteq Files

VARIABLES
    data,       \* the file
    pos,        \* where the chunker of each goroutine is
    bucket,     \* its results channel
    last,       \* the chunk it has just found
    sync,       \* its sync field: the last chunk taken from its bucket
    next,       \* the goroutine it tries to sync with, 0 if none
    pc,         \* where it is
    eof, err,   \* its eof and err fields
    stopped,    \* its done channel is closed
    reading,    \* the goroutine the main loop takes chunks from
    index,      \* index.Chunks
    result,     \* what IndexFromFile returned: "none", "ok", "err"
    cancelled   \* the context is done

vars == <<data, pos, bucket, last, sync, next, pc, eof, err, stopped, reading, index,
          result, cancelled>>

MayFail == data \in Faulty
Size    == Len(data)
\* Fewer goroutines for a file without N*max bytes, span bytes apart.
Count   == IF Size \div MaxSize + 1 < N THEN Size \div MaxSize + 1 ELSE N
Span    == Size \div Count
Workers == 1..Count
StartPos(w) == Span * (w - 1)

\* The results channel of w is closed.  Mutant: not after an error.
ClosedIfNoError(w) == pc[w] = "end" /\ ~err[w]
Closed(w)          == pc[w] = "end"

\* What it has room for.  Mutant: for chunks of the maximum size.
CapacityOfMax(w) == (Size - StartPos(w)) \div MaxSize + 1
Capacity(w)      == (Size - StartPos(w)) \div MinSize + 1

-----------------------------------------------------------------------------
(* The chunker.                                                            *)

\* Chunker.Next: the end of the chunk that starts at p.  The bytes before
\* the minimum are not looked at; the first place to cut is one byte after.
CutAfter(p) ==
    IF Size - p <= MinSize THEN Size
    ELSE Min({q \in (p + MinSize + 1)..Size :
                 q = Size \/ q - p >= MaxSize \/ data[q] = "cut"})

IsNull(p, n) == n = MaxSize /\ \A q \in (p + 1)..(p + n) : data[q] = "zero"

NoChunk     == [start |-> 0, size |-> 0, null |-> FALSE]
ChunkAt(p)  == [start |-> p, size |-> CutAfter(p) - p, null |-> IsNull(p, CutAfter(p) - p)]
NullAt(p)   == [start |-> p, size |-> MaxSize, null |-> TRUE]

\* What a single chunker finds from p, and from the start of the file, to its
\* end.
ChunksFrom[p \in 0..Size] ==
    IF p = Size THEN <<>> ELSE <<ChunkAt(p)>> \o ChunksFrom[CutAfter(p)]
SequentialChunks == ChunksFrom[0]

-----------------------------------------------------------------------------
(* The goroutines (pChunker.start).                                        *)

Goto(w, l) == pc' = [pc EXCEPT ![w] = l]

\* The context is done, or the goroutine was told to stop.
Interrupted(w) ==
    /\ pc[w] = "run"
    /\ \/ cancelled /\ err' = [err EXCEPT ![w] = TRUE]
       \/ stopped[w] /\ UNCHANGED err
    /\ Goto(w, "stop")
    /\ UNCHANGED <<data, pos, bucket, last, sync, next, eof, stopped, reading, index,
                   result, cancelled>>

\* Next fails, or is at the end of the file.
ReadEnds(w) ==
    /\ pc[w] = "run" /\ ~cancelled /\ ~stopped[w]
    /\ \/ MayFail /\ err' = [err EXCEPT ![w] = TRUE] /\ UNCHANGED eof
       \/ pos[w] >= Size /\ eof' = [eof EXCEPT ![w] = TRUE] /\ UNCHANGED err
    /\ Goto(w, "stop")
    /\ UNCHANGED <<data, pos, bucket, last, sync, next, stopped, reading, index,
                   result, cancelled>>

\* The next chunk goes to the bucket.
Produce(w) ==
    /\ pc[w] = "run" /\ ~cancelled /\ ~stopped[w]
    /\ pos[w] < Size
    /\ last' = [last EXCEPT ![w] = ChunkAt(pos[w])]
    /\ bucket' = [bucket EXCEPT ![w] = Append(@, ChunkAt(pos[w]))]
    /\ pos' = [pos EXCEPT ![w] = CutAfter(@)]
    /\ Goto(w, IF next[w] = 0 THEN "run" ELSE "sync")
    /\ UNCHANGED <<data, sync, next, eof, err, stopped, reading, index, result, cancelled>>

\* The chunks of v from the one before its sync field on, and how many have
\* to be taken from them to be at or past chunk c.
Seen(v)     == <<sync[v]>> \o bucket[v]
Reaches(v, c) == {k \in 1..Len(Seen(v)) : Seen(v)[k].start >= c.start}

\* How many of the chunks after number k are null.
NullRun(v, k) ==
    Max({j \in 0..(Len(Seen(v)) - k) : \A i \in 1..j : Seen(v)[k + i].null})

\* Zero bytes from chunk c on that are null chunks of v: the rest of the one
\* before k, and the ones after k.  Mutant: chunk k is counted too.
ZeroesWithCurrent(v, c, k) ==
    Seen(v)[k - 1].start + Seen(v)[k - 1].size - c.start + MaxSize * (NullRun(v, k) + 1)
Zeroes(v, c, k) ==
    Seen(v)[k - 1].start + Seen(v)[k - 1].size - c.start + MaxSize * NullRun(v, k)

\* pChunker.syncWith, called with chunk c: whether v has the same chunk, how
\* many zero bytes follow, and how many of Seen(v) are passed by.  When the
\* bucket is empty the sync field stays, or is reset if the bucket is closed.
SyncWith(v, c) ==
    LET seen  == Seen(v)
        empty == IF Closed(v) THEN NoChunk ELSE Last(seen)
    IN  IF Reaches(v, c) = {}
        THEN [inSync |-> FALSE, zeroes |-> 0, sync |-> empty, bucket |-> <<>>]
        ELSE LET k    == Min(Reaches(v, c))
                 same == seen[k].start = c.start /\ seen[k].size = c.size
                 null == k > 1 /\ seen[k].null /\ seen[k - 1].null
                 stop == k + NullRun(v, k) + 1
             IN  IF same \/ ~null
                 THEN [inSync |-> same, zeroes |-> 0, sync |-> seen[k],
                       bucket |-> SubSeq(seen, k + 1, Len(seen))]
                 ELSE [inSync |-> FALSE, zeroes |-> Zeroes(v, c, k),
                       sync   |-> IF stop <= Len(seen) THEN seen[stop] ELSE empty,
                       bucket |-> SubSeq(seen, stop + 1, Len(seen))]

\* Compare with the bucket of the next goroutine: stop when in sync, put null
\* chunks in place of the zeros it has found, and advance the chunker.
Sync(w) ==
    /\ pc[w] = "sync"
    /\ LET v     == next[w]
           c     == last[w]
           s     == SyncWith(v, c)
           count == s.zeroes \div MaxSize
           nulls == [i \in 1..count |-> NullAt(c.start + c.size + (i - 1) * MaxSize)]
       IN  /\ sync' = [sync EXCEPT ![v] = s.sync]
           /\ \/ /\ s.inSync
                 /\ Goto(w, "stop")
                 /\ bucket' = [bucket EXCEPT ![v] = s.bucket]
                 /\ UNCHANGED <<pos, err>>
              \/ /\ ~s.inSync
                 /\ Goto(w, "skip")
                 /\ bucket' = [bucket EXCEPT ![v] = s.bucket, ![w] = @ \o nulls]
                 /\ pos' = [pos EXCEPT ![w] = @ + count * MaxSize]
                 /\ UNCHANGED err
              \/ /\ MayFail /\ ~s.inSync /\ count > 0
                 /\ Goto(w, "stop")
                 /\ bucket' = [bucket EXCEPT ![v] = s.bucket]
                 /\ err' = [err EXCEPT ![w] = TRUE]
                 /\ UNCHANGED pos
    /\ UNCHANGED <<data, last, next, eof, stopped, reading, index, result, cancelled>>

\* A goroutine that has stopped and whose bucket is empty is passed over.
\* Mutants: it is passed over with chunks in its bucket, and while it runs.
PassOverStopped(v) == stopped[v]
PassOverEmpty(v)   == bucket[v] = <<>>
PassOver(v)        == stopped[v] /\ bucket[v] = <<>>

Skip(w) ==
    /\ pc[w] = "skip"
    /\ next' = [next EXCEPT ![w] = IF PassOver(@) THEN next[@] ELSE @]
    /\ Goto(w, "run")
    /\ UNCHANGED <<data, pos, bucket, last, sync, eof, err, stopped, reading, index,
                   result, cancelled>>

\* The deferred calls: stop closes the done channel, then the bucket is
\* closed.
Stop(w) ==
    /\ pc[w] = "stop"
    /\ stopped' = [stopped EXCEPT ![w] = TRUE]
    /\ Goto(w, "close")
    /\ UNCHANGED <<data, pos, bucket, last, sync, next, eof, err, reading, index,
                   result, cancelled>>

Close(w) ==
    /\ pc[w] = "close"
    /\ Goto(w, "end")
    /\ UNCHANGED <<data, pos, bucket, last, sync, next, eof, err, stopped, reading, index,
                   result, cancelled>>

-----------------------------------------------------------------------------
(* The main goroutine.                                                     *)

\* Take a chunk from the bucket.
Accept ==
    /\ result = "none"
    /\ bucket[reading] # <<>>
    /\ index' = Append(index, Head(bucket[reading]))
    /\ bucket' = [bucket EXCEPT ![reading] = Tail(@)]
    /\ UNCHANGED <<data, pos, last, sync, next, pc, eof, err, stopped, reading, result,
                   cancelled>>

\* The last chunk of the file is in.  Mutant: only the last goroutine can
\* have it.
AtEndLastOnly(w) == w = Count
AtEnd(w)         == eof[w] \/ w = Count

\* The bucket is closed and empty: return an error of the goroutine, stop at
\* the end of the file, or go on with the next one.  Returning cancels the
\* context and stops all goroutines.
Advance ==
    /\ result = "none"
    /\ bucket[reading] = <<>> /\ Closed(reading)
    /\ \/ /\ err[reading] \/ AtEnd(reading)
          /\ result' = IF err[reading] THEN "err" ELSE "ok"
          /\ cancelled' = TRUE
          /\ stopped' = [w \in Workers |-> TRUE]
          /\ UNCHANGED reading
       \/ /\ ~err[reading] /\ ~AtEnd(reading)
          /\ reading' = reading + 1
          /\ UNCHANGED <<result, cancelled, stopped>>
    /\ UNCHANGED <<data, pos, bucket, last, sync, next, pc, eof, err, index>>

Cancel ==
    /\ data \in Interruptible /\ ~cancelled
    /\ cancelled' = TRUE
    /\ UNCHANGED <<data, pos, bucket, last, sync, next, pc, eof, err, stopped, reading,
                   index, result>>

-----------------------------------------------------------------------------

Init ==
    /\ data \in Files
    /\ pos = [w \in Workers |-> StartPos(w)]
    /\ bucket = [w \in Workers |-> <<>>]
    /\ last = [w \in Workers |-> NoChunk]
    /\ sync = [w \in Workers |-> NoChunk]
    /\ next = [w \in Workers |-> IF w = Count THEN 0 ELSE w + 1]
    /\ pc = [w \in Workers |-> "run"]
    /\ eof = [w \in Workers |-> FALSE]
    /\ err = [w \in Workers |-> FALSE]
    /\ stopped = [w \in Workers |-> FALSE]
    /\ reading = 1
    /\ index = <<>>
    /\ result = "none"
    /\ cancelled = FALSE

Worker(w) == Interrupted(w) \/ ReadEnds(w) \/ Produce(w) \/ Sync(w) \/ Skip(w)
             \/ Stop(w) \/ Close(w)
MainLoop  == Accept \/ Advance

Ended == result # "none" /\ (\A w \in Workers : pc[w] = "end") /\ UNCHANGED vars

Next ==
    \/ \E w \in Workers : Worker(w)
    \/ MainLoop
    \/ Cancel
    \/ Ended

\* Goroutines that can run do, and reads of the file return.
Fairness == WF_vars(MainLoop) /\ \A w \in 1..N : WF_vars(w \in Workers /\ Worker(w))

Spec == Init /\ [][Next]_vars /\ Fairness

-----------------------------------------------------------------------------
(* Properties.                                                             *)

Chunks == [start : Nat, size : Nat, null : BOOLEAN]

\* Every variable keeps its type; no chunker is sent past the end.
TypeOK ==
    /\ data \in Files
    /\ pos \in [Workers -> 0..Size]
    /\ bucket \in [Workers -> Seq(Chunks)]
    /\ last \in [Workers -> Chunks] /\ sync \in [Workers -> Chunks]
    /\ next \in [Workers -> 0..Count]
    /\ pc \in [Workers -> {"run", "sync", "skip", "stop", "close", "end"}]
    /\ eof \in [Workers -> BOOLEAN] /\ err \in [Workers -> BOOLEAN]
    /\ stopped \in [Workers -> BOOLEAN]
    /\ reading \in Workers
    /\ index \in Seq(Chunks)
    /\ result \in {"none", "ok", "err"}
    /\ cancelled \in BOOLEAN

\* However the goroutines are scheduled, the chunks taken so far are those a
\* single chunker finds, in order and without a gap, null chunks included.
PrefixOfSequential == IsPrefix(index, SequentialChunks)

\* When IndexFromFile succeeds the index is that of a single chunker, which
\* TestParallelChunking (make_test.go:77-81) asks for.
OkMeansWholeFile == result = "ok" => index = SequentialChunks

\* Some goroutine, or one it has passed over, passed u over.
After(w)      == IF next[w] = 0 THEN Count + 1 ELSE next[w]
PassedOver(u) == \E w \in Workers : w < u /\ u < After(w)

\* The same, unless the goroutine that the main loop stops at was passed over
\* by an earlier one: otherwise a goroutine that stops at the end of the file,
\* syncs or is interrupted never hides the chunks of a later one.
WholeUnlessPassedOver ==
    result = "ok" /\ ~PassedOver(reading) => index = SequentialChunks

\* No bucket is read by two goroutines: the sync field has no lock.  A
\* goroutine about to run after IndexFromFile returned only stops.
Halted(w)    == pc[w] \in {"stop", "close", "end"}
Consuming(w) == pc[w] \in {"sync", "skip"} \/ (pc[w] = "run" /\ result = "none")
OneConsumer ==
    /\ \A v, w \in Workers :
          v # w /\ next[v] = next[w] /\ next[v] # 0 => ~Consuming(v) \/ ~Consuming(w)
    /\ \A w \in Workers : next[w] = reading => Halted(w)

\* A bucket is never full ("max # of chunks this worker can produce",
\* make.go:91): a goroutine whose chunks nobody takes yet does not block.
BucketsHoldAll == \A w \in Workers : Len(bucket[w]) <= Capacity(w)

\* IndexFromFile returns, and its goroutines end.
Terminates == <>(result # "none" /\ \A w \in Workers : pc[w] = "end")

-----------------------------------------------------------------------------
(* The inductive invariant (ParallelChunkProofs).                          *)

End(c)   == c.start + c.size
Real(c)  == c.start \in 0..(Size - 1) /\ c = ChunkAt(c.start)

\* Where the chunks begin that are still to come from w, and those that are
\* still to come to the index.
Begin(w) == IF bucket[w] = <<>> THEN pos[w] ELSE bucket[w][1].start
IndexEnd == IF index = <<>> THEN 0 ELSE End(index[Len(index)])

\* A bucket holds chunks of the file, one after the other, up to where the
\* chunker is.
Chain(w) ==
    \A k \in 1..Len(bucket[w]) :
        /\ Real(bucket[w][k])
        /\ End(bucket[w][k]) = IF k < Len(bucket[w]) THEN bucket[w][k + 1].start ELSE pos[w]
ChainInv == \A w \in Workers : Chain(w)

\* The sync field, while somebody uses it, is the chunk before those in the
\* bucket; what a goroutine syncs with is the chunk it has just found.
SyncInv ==
    \A w \in Workers :
        /\ w > reading => sync[w] = NoChunk \/ (Real(sync[w]) /\ End(sync[w]) = Begin(w))
        /\ pc[w] = "sync" => Real(last[w]) /\ End(last[w]) = pos[w]
        /\ pc[w] \in {"sync", "skip"} => next[w] # 0

\* The goroutines between one and its next have stopped with nothing left, and
\* so have those the main loop has left behind.
OrderInv ==
    /\ \A w \in Workers : w < After(w)
    /\ \A w \in Workers : w < reading => pc[w] = "end"
    /\ \A w \in Workers : eof[w] => pos[w] = Size
    /\ result # "none" => cancelled
    /\ result = "none" =>
          /\ \A w \in Workers : stopped[w] <=> pc[w] \in {"close", "end"}
          /\ \A w, u \in Workers : w < u /\ u < After(w) =>
                stopped[u] /\ bucket[u] = <<>> /\ After(u) <= After(w)

\* A goroutine that stops without an error before the end of the file leaves
\* off where the next one goes on.
LinkInv ==
    result = "none" =>
        \A w \in Workers :
            w >= reading /\ ~PassedOver(w) /\ Halted(w) /\ ~err[w] /\ ~eof[w] =>
                next[w] # 0 /\ Begin(next[w]) = pos[w]

\* The index goes on with the first goroutine that is not passed over.
ReadingInv ==
    result = "none" =>
        \A u \in Workers :
            u >= reading /\ ~PassedOver(u) /\ (\A x \in reading..(u - 1) : PassedOver(x)) =>
                Begin(u) = IndexEnd

\* What is in the index, and what a single chunker would find from there on.
IndexInv ==
    /\ IndexEnd \in 0..Size
    /\ SequentialChunks = index \o ChunksFrom[IndexEnd]
    /\ result = "ok" /\ ~PassedOver(reading) => IndexEnd = Size

\* All chunks but the last have the minimum size.
RoomInv ==
    \A w \in Workers :
        /\ StartPos(w) <= pos[w]
        /\ \/ Len(bucket[w]) * MinSize <= pos[w] - StartPos(w)
           \/ pos[w] = Size /\ (Len(bucket[w]) - 1) * MinSize <= Size - StartPos(w)

ChunkInv ==
    /\ TypeOK /\ ChainInv /\ SyncInv /\ OrderInv /\ OneConsumer /\ LinkInv
    /\ ReadingInv /\ IndexInv /\ RoomInv

=============================================================================
