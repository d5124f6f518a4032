----------------------------- MODULE UnTarIndex -----------------------------
(***************************************************************************)
(* UnTarIndex (untar.go): a catar that was cut into chunks is put together *)
(* again by a pipeline of goroutines and unpacked on the fly.              *)
(*                                                                         *)
(*   feeder --req--> n workers --one data channel per chunk--> assembler   *)
(*   feeder --assemble (the data channels, in order)---------> assembler   *)
(*   assembler --io.Pipe--> UnTar: FormatDecoder, ArchiveDecoder, target   *)
(*                                                                         *)
(* The archive is the one that tar makes of a list of files (module        *)
(* Catar).  The stream consists of units: unit <<e, 0>> is the header of   *)
(* element e, <<e, 1>> its body, and <<e, j>> is byte j of a payload.  A   *)
(* chunk is a run of units, so elements may cross chunks.  The target is a *)
(* directory (LocalFS), which may hold files already, or a stream of nodes *)
(* in the format of tar (TarWriter) or mtree (MtreeFS).                    *)
(***************************************************************************)
EXTENDS Catar

CONSTANTS
    Jobs,       \* [files, oneFS, cuts, target, old]: what to pack, after which
                \* units chunks end, where to unpack, and what is there already
    N,          \* number of workers
    MaxFaults   \* failing reads from the store and failing writes to the target

ASSUME NAssumption == N \in Nat \ {0}
ASSUME MaxFaultsAssumption == MaxFaults \in Nat

VARIABLES
    job,        \* [els, chunks, target, packed]
    feeder,     \* "request", "hand" or "done"
    fed,        \* the chunk that the feeder is at
    worker,     \* worker -> Idle, Gone, or the chunk that it gets
    data,       \* chunk -> "open", "full" or "closed": its data channel
    assemble,   \* buffer of the channel assemble
    assembler,  \* "select", "receive", "write" or "done"
    awaited,    \* the chunk whose data the assembler receives
    pipe,       \* units of the Write that has not returned yet
    readerGone, \* the pipe was closed by its reader
    untar,      \* state of UnTar and the decoders, see Decoder
    tree,       \* what the target holds
    err,        \* the error that Wait returns; not "nil" means: cancelled
    interrupted,
    returned,
    faults      \* failures that happened

vars == <<job, feeder, fed, worker, data, assemble, assembler, awaited, pipe,
          readerGone, untar, tree, err, interrupted, returned, faults>>

Workers == 1..N
Idle    == 0
Gone    == -1
Chunks  == 1..Len(job.chunks)
ctxDone == interrupted \/ err # "nil"

\* errgroup keeps the first error.
Report(e) == err' = IF err = "nil" THEN e ELSE err

-----------------------------------------------------------------------------
(* The archive as a stream.                                                *)

UnitsOf(els, e) ==
    LET last == IF els[e].type = "payload" THEN Len(els[e].data) ELSE 1
    IN  [j \in 1..(last + 1) |-> <<e, j - 1>>]

Units(els) == FlattenSeq([e \in 1..Len(els) |-> UnitsOf(els, e)])

Split(units, cuts) ==
    LET ends == SetToSortSeq((cuts \cap 1..(Len(units) - 1)) \cup {Len(units)}, <)
    IN  [c \in 1..Len(ends) |-> SubSeq(units, IF c = 1 THEN 1 ELSE ends[c - 1] + 1, ends[c])]

\* The nodes that tar was given and can encode, and that are not on another
\* file system where that was asked for.
Packed(j) == SelectSeq(j.files, LAMBDA f : Supported(f) /\ ~(j.oneFS /\ f.foreign))

JobOf(j) ==
    LET els == Tar(Serialized(j.files, j.oneFS))
    IN  [els |-> els, chunks |-> Split(Units(els), j.cuts), target |-> j.target,
         packed |-> Packed(j)]

-----------------------------------------------------------------------------
(* What the decoders keep.  at: "check" (UnTar looks at the context),      *)
(* "head", "body", "data" (which part of the stream is read next),         *)
(* "garbled" (a chunk is left out in the middle of an element: the bytes   *)
(* are taken for something else, and how this ends is left open) or        *)
(* "done".  cur and got: the element that is being read, and how much of a *)
(* payload.  dir and last: the ArchiveDecoder.  next: the variables of its *)
(* Next.                                                                   *)

NoElement == [type |-> "none"]
NextVars  == [entry |-> FALSE, xattrs |-> {}, symlink |-> FALSE, device |-> FALSE, name |-> 0]
Decoder   == [at |-> "check", cur |-> 0, got |-> 0, dir |-> <<>>, last |-> NoElement, next |-> NextVars]

\* path.Join(dir, name); the root has no name.
Join(dir, name) == IF name = 0 THEN dir ELSE Append(dir, name)

\* The node that ArchiveDecoder.Next returns when it leaves its loop.
NodeOf(d, payload) ==
    [path |-> Join(d.dir, d.next.name), xattrs |-> d.next.xattrs, data |-> <<>>,
     kind |-> IF payload THEN "file" ELSE IF d.next.device THEN "device"
              ELSE IF d.next.symlink THEN "symlink" ELSE "dir"]

\* One turn of the loop of ArchiveDecoder.Next: the element el ends the loop,
\* because the node is complete (Completes), is an error (Invalid), or changes
\* the decoder (Taken).
Completes(d, el) ==
    d.next.entry /\ el.type \in {"payload", "filename", "goodbye"}
Invalid(d, el) ==
    \/ el.type = "entry" /\ d.next.entry
    \/ el.type \in {"payload", "xattr", "symlink", "device"} /\ ~d.next.entry
Taken(d, el) ==
    CASE el.type = "entry"    -> [d EXCEPT !.next.entry = TRUE]
      [] el.type = "xattr"    -> [d EXCEPT !.next.xattrs = @ \cup {el.key}]
      [] el.type = "symlink"  -> [d EXCEPT !.next.symlink = TRUE]
      [] el.type = "device"   -> [d EXCEPT !.next.device = TRUE]
      [] el.type = "filename" -> [d EXCEPT !.next.name = el.name]
      [] el.type = "goodbye"  -> [d EXCEPT !.dir = IF @ = <<>> THEN <<>> ELSE Parent(@)]

\* A node is complete: a directory becomes the current one, and a filename or
\* goodbye element is looked at again in the next call.
Left(d, el) ==
    [d EXCEPT !.at = IF el.type = "payload" THEN "data" ELSE "check",
              !.got = 0,
              !.last = IF el.type = "payload" THEN NoElement ELSE el,
              !.dir = IF NodeOf(d, el.type = "payload").kind = "dir" THEN Join(@, d.next.name) ELSE @]

-----------------------------------------------------------------------------
(* Targets.  A directory is a function from paths to nodes, a stream the   *)
(* sequence of the nodes.                                                  *)

Under(p, q) == Len(q) >= Len(p) /\ SubSeq(q, 1, Len(p)) = p
Without(t, gone) == [p \in DOMAIN t \ gone |-> t[p]]
With(t, n) == [p \in DOMAIN t \cup {n.path} |-> IF p = n.path THEN n ELSE t[p]]

\* LocalFS.CreateDir, CreateFile, CreateSymlink and CreateDevice: what is in
\* the way, and what is removed first.
InTheWay(t, n) ==
    \/ n.path # <<>> /\ (Parent(n.path) \notin DOMAIN t \/ t[Parent(n.path)].kind # "dir")
    \/ /\ n.path \in DOMAIN t
       /\ CASE n.kind = "dir" -> t[n.path].kind # "dir"
            [] n.kind = "file" -> FALSE
            [] OTHER -> t[n.path].kind = "dir"
Removed(t, n) ==
    IF n.kind = "file" THEN {p \in DOMAIN t : Under(n.path, p)} ELSE {n.path} \cap DOMAIN t

\* TarWriter and MtreeFS write the nodes one after the other.  The GNU format
\* has no attributes, which is an error; devices are not restricted to it.
\* MtreeFS leaves them out.
Stream == {"tar", "mtree"}
Encodable(n)  == n.xattrs = {} \/ n.kind = "device"
MtreeEntry(n) == [n EXCEPT !.xattrs = {}]

CanCreate(t, n) ==
    /\ job.target = "disk" => ~InTheWay(t, n)
    /\ job.target = "tar" => Encodable(n)
Created(t, n) ==
    CASE job.target = "disk"  -> With(Without(t, Removed(t, n)), n)
      [] job.target = "tar"   -> Append(t, n)
      [] job.target = "mtree" -> Append(t, MtreeEntry(n))

\* Another byte of the file that is being created.
WithByte(t, n, b) ==
    IF job.target \in Stream THEN [t EXCEPT ![Len(t)].data = Append(@, b)]
    ELSE [t EXCEPT ![n.path].data = Append(@, b)]

-----------------------------------------------------------------------------

Init ==
    \E j \in Jobs :
        /\ job = JobOf(j)
        /\ tree = IF j.target \in Stream THEN <<>> ELSE j.old
        /\ feeder = "request" /\ fed = 1
        /\ worker = [w \in Workers |-> Idle]
        /\ data = [c \in 1..Len(JobOf(j).chunks) |-> "open"]
        /\ assemble = <<>> /\ assembler = "select" /\ awaited = 1
        /\ pipe = <<>> /\ readerGone = FALSE
        /\ untar = Decoder
        /\ err = "nil" /\ interrupted = FALSE /\ returned = FALSE /\ faults = 0

Fault == faults < MaxFaults /\ faults' = faults + 1

Interrupt ==
    /\ ~interrupted /\ ~returned
    /\ interrupted' = TRUE
    /\ UNCHANGED <<job, feeder, fed, worker, data, assemble, assembler, awaited, pipe, readerGone,
                   untar, tree, err, returned, faults>>

-----------------------------------------------------------------------------
(* Feeder.                                                                 *)

feederRest == <<job, data, assembler, awaited, pipe, readerGone, untar, tree, err,
                interrupted, returned, faults>>

\* The request is handed to a worker ...
Request(w) ==
    /\ feeder = "request" /\ fed \in Chunks /\ worker[w] = Idle
    /\ worker' = [worker EXCEPT ![w] = fed]
    /\ feeder' = "hand"
    /\ UNCHANGED <<fed, assemble, feederRest>>

\* ... and the data channel to the assembler.
Hand ==
    /\ feeder = "hand" /\ Len(assemble) < N
    /\ assemble' = Append(assemble, fed)
    /\ fed' = fed + 1 /\ feeder' = "request"
    /\ UNCHANGED <<worker, feederRest>>

\* Both channels are closed at the end, and when the context is done.
FeederEnd ==
    /\ \/ feeder = "request" /\ fed \notin Chunks
       \/ feeder # "done" /\ ctxDone
    /\ feeder' = "done"
    /\ UNCHANGED <<fed, worker, assemble, feederRest>>

Feeder == (\E w \in Workers : Request(w)) \/ Hand \/ FeederEnd

-----------------------------------------------------------------------------
(* Workers.                                                                *)

workerRest == <<job, feeder, fed, assemble, assembler, awaited, pipe, readerGone, untar,
                tree, interrupted, returned>>

\* The chunk is there and has the size that the index says.
Got(w) ==
    /\ worker[w] \in Chunks
    /\ data' = [data EXCEPT ![worker[w]] = "full"]
    /\ worker' = [worker EXCEPT ![w] = Idle]
    /\ UNCHANGED <<err, faults, workerRest>>

\* It is missing, invalid or of another size: the data channel is closed with
\* nothing in it, and the worker returns the error.  Mutant: it returns none.
WorkerErrLost == UNCHANGED err
WorkerErr == Report("chunk")
NotGot(w) ==
    /\ worker[w] \in Chunks /\ Fault
    /\ data' = [data EXCEPT ![worker[w]] = "closed"]
    /\ worker' = [worker EXCEPT ![w] = Gone]
    /\ WorkerErr
    /\ UNCHANGED workerRest

WorkerEnd(w) ==
    /\ worker[w] = Idle /\ feeder = "done"
    /\ worker' = [worker EXCEPT ![w] = Gone]
    /\ UNCHANGED <<data, err, faults, workerRest>>

Worker(w) == Got(w) \/ NotGot(w) \/ WorkerEnd(w)

-----------------------------------------------------------------------------
(* Assembler.                                                              *)

assemblerRest == <<job, feeder, fed, worker, data, readerGone, untar, tree, interrupted,
                   returned, faults>>

Take ==
    /\ assembler = "select" /\ assemble # <<>>
    /\ awaited' = Head(assemble) /\ assemble' = Tail(assemble)
    /\ assembler' = "receive"
    /\ UNCHANGED <<pipe, err, assemblerRest>>

\* A channel that was closed gives nil: nothing is written for this chunk.
Receive ==
    /\ assembler = "receive" /\ data[awaited] # "open"
    /\ IF data[awaited] = "full" THEN /\ pipe' = job.chunks[awaited]
                                      /\ assembler' = "write"
       ELSE /\ assembler' = "select"
            /\ UNCHANGED pipe
    /\ UNCHANGED <<assemble, awaited, err, assemblerRest>>

\* Write returns when all is read, or with the error of the reader.
Written ==
    /\ assembler = "write" /\ (pipe = <<>> \/ readerGone)
    /\ IF pipe = <<>> THEN assembler' = "select" /\ UNCHANGED err
       ELSE assembler' = "done" /\ Report("untar")
    /\ pipe' = <<>>
    /\ UNCHANGED <<assemble, awaited, assemblerRest>>

\* The channel is closed, or the context is done: the pipe is closed.
AssemblerEnd ==
    /\ assembler = "select"
    /\ (feeder = "done" /\ assemble = <<>>) \/ ctxDone
    /\ assembler' = "done"
    /\ UNCHANGED <<assemble, awaited, pipe, err, assemblerRest>>

Assembler == Take \/ Receive \/ Written \/ AssemblerEnd

-----------------------------------------------------------------------------
(* UnTar.                                                                  *)

untarRest == <<job, feeder, fed, worker, data, assemble, assembler, awaited, interrupted, returned>>

\* UnTar returns e.  With an error it closes the pipe, or the assembler would
\* wait for ever.  Mutant: it does not.
LeaveOpen(e) == readerGone' = FALSE
CloseWithError(e) == readerGone' = (e # "nil")
Return(e) ==
    /\ untar' = [untar EXCEPT !.at = "done"]
    /\ IF e = "nil" THEN UNCHANGED err ELSE Report(e)
    /\ CloseWithError(e)

\* An element has been read, or was left from the last call.  A new node is
\* created in the target, which can fail.
Element(d, el) ==
    \/ /\ Invalid(d, el)
       /\ Return("format") /\ UNCHANGED <<tree, faults>>
    \/ /\ ~Invalid(d, el) /\ ~Completes(d, el)
       /\ untar' = [Taken(d, el) EXCEPT !.at = "head", !.last = NoElement]
       /\ UNCHANGED <<tree, err, readerGone, faults>>
    \/ /\ Completes(d, el)
       /\ LET n == NodeOf(d, el.type = "payload") IN
          \/ /\ CanCreate(tree, n)
             /\ tree' = Created(tree, n) /\ untar' = Left(d, el)
             /\ UNCHANGED <<err, readerGone, faults>>
          \/ /\ IF CanCreate(tree, n) THEN Fault ELSE UNCHANGED faults
             /\ Return("create") /\ UNCHANGED tree

\* The loop of UnTar looks at the context, then calls ArchiveDecoder.Next.
Check ==
    /\ untar.at = "check"
    /\ LET d == [untar EXCEPT !.at = "head", !.next = NextVars] IN
       \/ ctxDone /\ Return("interrupted") /\ UNCHANGED <<tree, faults>>
       \/ ~ctxDone /\ untar.last # NoElement /\ Element(d, untar.last)
       \/ /\ ~ctxDone /\ untar.last = NoElement
          /\ untar' = d
          /\ UNCHANGED <<tree, err, readerGone, faults>>
    /\ UNCHANGED <<pipe, untarRest>>

\* One unit is read from the pipe.  What should come next is the header of an
\* element, its body, or a byte of the payload.
Expected(u) ==
    CASE untar.at = "head" -> u[2] = 0
      [] untar.at = "body" -> u = <<untar.cur, 1>>
      [] untar.at = "data" -> u = <<untar.cur, untar.got + 1>>
      [] OTHER -> FALSE

Reading == untar.at \in {"head", "body", "data", "garbled"}

AllData == untar.at = "data" /\ untar.got = Len(job.els[untar.cur].data)

\* CreateFile has copied everything and sets the owner, mode and time.
FileDone ==
    /\ AllData
    /\ untar' = [untar EXCEPT !.at = "check"]
    /\ UNCHANGED <<pipe, tree, err, readerGone, faults, untarRest>>

Read ==
    /\ Reading /\ ~AllData /\ pipe # <<>>
    /\ pipe' = Tail(pipe)
    /\ LET u == Head(pipe)
           el == job.els[u[1]]
           d == [untar EXCEPT !.cur = u[1]]
       IN  \/ /\ Expected(u) /\ untar.at = "head" /\ el.type # "payload"
              /\ untar' = [d EXCEPT !.at = "body"]
              /\ UNCHANGED <<tree, err, readerGone, faults>>
           \/ /\ Expected(u) /\ (untar.at = "body" \/ (untar.at = "head" /\ el.type = "payload"))
              /\ Element(d, el)
           \/ /\ Expected(u) /\ untar.at = "data"
              /\ \/ /\ tree' = WithByte(tree, NodeOf(untar, TRUE), el.data[u[2]])
                    /\ untar' = [untar EXCEPT !.got = @ + 1]
                    /\ UNCHANGED <<err, readerGone, faults>>
                 \/ Fault /\ Return("create") /\ UNCHANGED tree
           \/ /\ ~Expected(u)
              /\ \/ untar' = [untar EXCEPT !.at = "garbled"] /\ UNCHANGED <<err, readerGone>>
                 \/ Return("format")
              /\ UNCHANGED <<tree, faults>>
    /\ UNCHANGED untarRest

\* The end of the stream: regular at a header, an error in a body, and the end
\* of the file in a payload.
EOF ==
    /\ Reading /\ ~AllData /\ pipe = <<>> /\ assembler = "done"
    /\ \/ untar.at \in {"head", "garbled"} /\ Return("nil")
       \/ untar.at \in {"body", "garbled"} /\ Return("format")
       \/ untar.at = "data" /\ untar' = [untar EXCEPT !.at = "check"] /\ UNCHANGED <<err, readerGone>>
    /\ UNCHANGED <<pipe, tree, faults, untarRest>>

UnTar == Check \/ Read \/ FileDone \/ EOF

-----------------------------------------------------------------------------

\* g.Wait
Wait ==
    /\ ~returned
    /\ feeder = "done" /\ assembler = "done" /\ untar.at = "done"
    /\ \A w \in Workers : worker[w] = Gone
    /\ returned' = TRUE
    /\ UNCHANGED <<job, feeder, fed, worker, data, assemble, assembler, awaited, pipe,
                   readerGone, untar, tree, err, interrupted, faults>>

Returned == returned /\ UNCHANGED vars

Next ==
    \/ Interrupt \/ Feeder \/ Assembler \/ UnTar \/ Wait \/ Returned
    \/ \E w \in Workers : Worker(w)

Fairness ==
    /\ WF_vars(Feeder) /\ WF_vars(Assembler) /\ WF_vars(UnTar) /\ WF_vars(Wait)
    /\ \A w \in Workers : WF_vars(Worker(w))

Spec == Init /\ [][Next]_vars /\ Fairness

-----------------------------------------------------------------------------
(* Properties.                                                             *)

Same(n, f) ==
    /\ n.path = f.path /\ n.kind = f.kind
    /\ job.target # "mtree" => n.xattrs = f.xattrs
    /\ f.kind = "file" => n.data = f.data

\* Success of an unpack that was not interrupted means the whole tree: every
\* node that was packed is in the target, of the same kind, with its
\* attributes and all of its bytes, and in a stream the nodes are in the order
\* of the walk, however the archive was cut into chunks, and whichever of them
\* could not be loaded.
NilMeansWholeTree ==
    returned /\ err = "nil" /\ ~interrupted =>
        LET packed == job.packed IN
        IF job.target \in Stream
        THEN /\ Len(tree) = Len(packed)
             /\ \A i \in DOMAIN packed : Same(tree[i], packed[i])
        ELSE \A i \in DOMAIN packed :
                 packed[i].path \in DOMAIN tree /\ Same(tree[packed[i].path], packed[i])

\* Goodbye trees are search trees for directories of any size up to MaxItems.
SearchTrees == \A n \in 0..MaxItems : SearchTree(n)

\* The goodbye elements of the archive can be used for random access: the items
\* are a complete search tree that leads to the filename elements, with names
\* whose hashes are equal, attributes, nested directories and nodes that were
\* skipped, and a larger directory would have one, too.  The archive does not
\* change: it is looked at when the feeder starts.
GoodbyeLeadsToItems ==
    feeder = "request" /\ fed = 1 =>
        /\ SearchTrees
        /\ \A g \in DOMAIN job.els :
              job.els[g].type = "goodbye" => LeadsToItems(job.els, g)

\* UnTarIndex returns: no failure of one stage leaves another one waiting on a
\* channel or on the pipe.
UntarReturns == <>returned
=============================================================================
