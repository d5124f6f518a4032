--------------------------- MODULE AssembleProofs ---------------------------
(* Proofs about Assemble, for any index, any seeds and any number of        *)
(* workers.  The inductive invariant IInv says that the segments handed out *)
(* are disjoint and that recording a segment comes after its data.          *)
EXTENDS Assemble, WellFoundedInduction, TLAPS

USE DEF SeedIDs, NullSeed, FromStore, idx, Slots

\* What the assumptions on the constants say about one invocation.
LEMMA OptType ==
    ASSUME opt \in Options
    PROVE  /\ opt.idx \in Seq(ChunkIDs) /\ opt.mode \in Modes /\ opt.action \in Actions
           /\ opt.caibx \in [1..NSeeds -> Seq(ChunkIDs)]
           /\ opt.caibx \in [1..NSeeds -> Seq(Contents)]
           /\ opt.blob \in [1..NSeeds -> Seq(Contents)]
           /\ Len(opt.idx) \in Nat
           /\ \A i \in 1..Len(opt.idx) : opt.idx[i] \in ChunkIDs
<1>1. opt \in [idx : Seq(ChunkIDs), mode : Modes, action : Actions,
               caibx : [SeedIDs -> Seq(ChunkIDs)], blob : [SeedIDs -> Seq(Contents)]]
  BY OptionsAssumption
<1>2. Seq(ChunkIDs) \subseteq Seq(Contents)
  BY DEF Contents
<1> QED
  BY <1>1, <1>2

\* The fields of a plan entry, and of the entries of a plan.
LEMMA EntryFields ==
    ASSUME NEW c \in Entries
    PROVE  /\ c.first \in Nat /\ c.last \in Nat /\ c.pos \in Nat \ {0}
           /\ c.src \in {-1, 0} \cup 1..NSeeds
BY DEF Entries

\* What stands in the plan is a plan entry.
LEMMA PlanEntry ==
    ASSUME TypeOK, NEW j \in 1..Len(plan)
    PROVE  plan[j] \in Entries /\ Len(plan) \in Nat
BY DEF TypeOK

\* The job of an idle worker is one, too.
LEMMA NoJobType == NoJob \in Entries
BY DEF NoJob, Entries

\* A plan entry chosen by Next starts at the position asked for, is not empty
\* and ends in the index, unless there is no chunk left.
LEMMA CandidateBounds ==
    ASSUME TypeOK, NEW first \in Nat, 1 <= first, NEW c \in NextCandidates(first)
    PROVE  /\ c \in Entries
           /\ c.first = first /\ first <= c.last
           /\ c.last <= Len(idx) \/ (c.last = first /\ c.src = FromStore)
<1>1. Len(idx) \in Nat /\ \A s \in 1..NSeeds : Len(seedIndex[s]) \in Nat
  BY OptType DEF TypeOK
<1>2. CASE SeedMatches(first) = {}
  BY <1>1, <1>2 DEF NextCandidates, FromStoreCandidate, Entries
<1>3. CASE SeedMatches(first) # {}
  <2>1. c \in SeedMatches(first)
    BY <1>3 DEF NextCandidates
  <2>2. CASE c \in [first : {first}, last : first..Len(idx), src : {0}, pos : {1}]
    BY <1>1, <2>2 DEF Entries
  <2>3. ASSUME NEW s \in 1..NSeeds,
               c \in [first : {first}, last : first..Len(idx), src : {s},
                      pos : 1..Len(seedIndex[s])]
        PROVE  /\ c \in Entries
               /\ c.first = first /\ first <= c.last /\ c.last <= Len(idx)
    <3>1. /\ c.first = first /\ c.last \in first..Len(idx)
          /\ c.src = s /\ c.pos \in 1..Len(seedIndex[s])
          /\ c = [first |-> c.first, last |-> c.last, src |-> c.src, pos |-> c.pos]
      BY <2>3
    <3>2. c.last \in Nat /\ c.pos \in Nat \ {0} /\ first <= c.last /\ c.last <= Len(idx)
      BY <1>1, <3>1
    <3> QED
      BY <3>1, <3>2 DEF Entries
  <2> QED
    BY <2>1, <2>2, <2>3 DEF SeedMatches
<1> QED
  BY <1>2, <1>3

-----------------------------------------------------------------------------
(* Types.                                                                   *)

\* The bytes a seed copy leaves in a slot are contents of a file.
LEMMA SeedDataType ==
    ASSUME TypeOK, NEW c \in Entries, c.src # FromStore, NEW i \in Slots, c.first <= i
    PROVE  SeedData(c, i) \in Contents \cup {NoData}
<1> USE ContentAssumption, CountAssumption
<1>1. file[i] \in Contents \cup {NoData}
  BY DEF TypeOK
<1>2. NullID \in Contents
  BY DEF Contents
<1>3. CASE c.src \in 1..NSeeds
  <2>1. seedBlob[c.src] \in Seq(Contents)
    BY <1>3 DEF TypeOK
  <2>2. ASSUME NEW k \in Int, 1 <= k, k <= Len(seedBlob[c.src])
        PROVE  seedBlob[c.src][k] \in Contents
    BY <2>1, <2>2
  <2> QED
    BY <1>1, <1>3, <2>2 DEF SeedData, Entries
<1> QED
  BY <1>1, <1>2, <1>3 DEF SeedData, Entries


\* Initially every variable has its type.
LEMMA TypeInit == Init => TypeOK
<1> SUFFICES ASSUME Init PROVE TypeOK
  OBVIOUS
<1> USE DEF Init
<1>1. /\ opt.caibx \in [1..NSeeds -> Seq(Contents)]
      /\ opt.blob \in [1..NSeeds -> Seq(Contents)]
      /\ opt.mode \in Modes /\ Len(opt.idx) \in Nat
  BY OptType
<1>2. file \in [Slots -> Contents \cup {NoData}]
  BY <1>1, InitContentsAssumption, ContentAssumption DEF Targets, Empty, Modes
<1>3. plan \in Seq(Entries) /\ toValidate \subseteq 1..Len(plan)
  OBVIOUS
<1>4. written \in 1..(Len(idx) + 1) /\ cache \subseteq [first : Nat, last : Nat]
  BY <1>1
<1>5. job \in [Workers -> Entries] /\ wpc \in [Workers -> WorkerPCs]
  BY NoJobType DEF WorkerPCs
<1>6. slot \in [Workers -> Nat] /\ from \in [Workers -> Slots \cup {0}]
  OBVIOUS
<1>7. isBlank \in BOOLEAN /\ gErr \in BOOLEAN /\ cancelled \in BOOLEAN /\ published \in BOOLEAN
  OBVIOUS
<1>8. seedExists \in [SeedIDs -> BOOLEAN] /\ seedBlob \in [SeedIDs -> Seq(Contents)]
      /\ seedIndex \in [SeedIDs -> Seq(Contents)] /\ invalid \subseteq SeedIDs
  BY <1>1
<1>9. /\ main \in MainPCs /\ result \in {"none", "nil", "err"}
      /\ current \in Nat /\ valErrs \in Nat /\ fed \in Nat \ {0}
      /\ changes \in Nat /\ runs \in Nat /\ opt \in Options
  BY DEF MainPCs
<1> QED
  BY <1>2, <1>3, <1>4, <1>5, <1>6, <1>7, <1>8, <1>9 DEF TypeOK

\* The variables of a pool at rest and of an empty plan have their types.
LEMMA RestType ==
    ASSUME TypeOK, PoolAtRest, NoPlan, opt' = opt
    PROVE  /\ plan' \in Seq(Entries) /\ current' \in Nat
           /\ toValidate' \subseteq 1..Len(plan') /\ valErrs' \in Nat
           /\ fed' \in Nat \ {0}
           /\ job' \in [Workers -> Entries] /\ slot' \in [Workers -> Nat]
           /\ from' \in [Workers -> Slots' \cup {0}]
           /\ written' \in 1..(Len(idx') + 1)
           /\ cache' \subseteq [first : Nat, last : Nat] /\ gErr' \in BOOLEAN
<1> USE DEF PoolAtRest, NoPlan
<1>1. Len(idx) \in Nat
  BY OptType DEF TypeOK
<1>2. job' \in [Workers -> Entries]
  BY NoJobType
<1>3. plan' \in Seq(Entries) /\ toValidate' \subseteq 1..Len(plan')
  OBVIOUS
<1>4. written' \in 1..(Len(idx') + 1) /\ cache' \subseteq [first : Nat, last : Nat]
  BY <1>1
<1>5. slot' \in [Workers -> Nat] /\ from' \in [Workers -> Slots' \cup {0}]
  OBVIOUS
<1>6. current' \in Nat /\ valErrs' \in Nat /\ fed' \in Nat \ {0}
  OBVIOUS
<1>7. gErr' \in BOOLEAN
  OBVIOUS
<1> HIDE DEF PoolAtRest, NoPlan, idx, Slots
<1> QED
  BY <1>2, <1>3, <1>4, <1>5, <1>6, <1>7

\* The steps of AssembleFile itself keep the types.
LEMMA TypeMain == TypeOK /\ PlanInv /\ Main => TypeOK'
<1> SUFFICES ASSUME TypeOK, PlanInv, Main PROVE TypeOK'
  OBVIOUS
<1> USE DEF MainPCs, sequencer, pool, seedFiles, outcome, Return
<1>1. CASE StatTarget
  BY <1>1 DEF StatTarget, TypeOK, TargetBlank
<1>2. CASE TruncateTarget
  BY <1>2, ContentAssumption DEF TruncateTarget, TruncatedTarget, TypeOK, Contents
<1>3. CASE Setup
  BY <1>3, RestType DEF Setup, TypeOK, WorkerPCs
<1>4. CASE PlanNext
  <2>1. PICK c \in NextCandidates(current) :
            /\ plan' = Append(plan, c) /\ current' = AfterSegment(c)
            /\ main' = IF AfterSegment(c) > Len(idx) THEN "open" ELSE "plan"
    BY <1>4 DEF PlanNext
  <2>2. current \in Nat /\ 1 <= current /\ plan \in Seq(Entries)
        /\ toValidate \subseteq 1..Len(plan)
    <3>1. plan # <<>> => Len(plan) \in 1..Len(plan)
      BY DEF TypeOK
    <3>2. plan # <<>> => plan[Len(plan)].last \in Nat
      BY <3>1, PlanEntry, EntryFields
    <3> QED
      BY <1>4, <3>2 DEF PlanNext, PlanInv, TypeOK
  <2>3. c \in Entries /\ c.last \in Nat
    BY <2>2, CandidateBounds, EntryFields
  <2>4. plan' \in Seq(Entries) /\ current' \in Nat /\ Len(plan') = Len(plan) + 1
    BY <2>1, <2>2, <2>3 DEF AfterSegment
  <2>5. toValidate' \subseteq 1..Len(plan')
    BY <1>4, <2>2, <2>4 DEF PlanNext
  <2> QED
    BY <1>4, <2>1, <2>4, <2>5 DEF PlanNext, TypeOK
<1>5. CASE OpenSeeds
  <2>1. invalid' \subseteq SeedIDs /\ toValidate' \subseteq 1..Len(plan)
    BY <1>5 DEF OpenSeeds, FileSeedEntries, TypeOK
  <2> QED
    BY <1>5, <2>1 DEF OpenSeeds, TypeOK
<1>6. CASE ValidateEntry
  <2>1. \A j \in toValidate : plan[j].src \in SeedIDs
    BY <1>6 DEF PlanInv
  <2>2. invalid \subseteq SeedIDs /\ valErrs \in Nat /\ toValidate \subseteq 1..Len(plan)
    BY DEF TypeOK
  <2>3. PICK j \in toValidate :
            /\ toValidate' = toValidate \ {j}
            /\ \/ UNCHANGED <<invalid, valErrs>>
               \/ invalid' = invalid \cup {plan[j].src} /\ valErrs' = valErrs + 1
    BY <1>6 DEF ValidateEntry
  <2>4. invalid' \subseteq SeedIDs /\ valErrs' \in Nat /\ toValidate' \subseteq 1..Len(plan)
    <3>1. toValidate' \subseteq 1..Len(plan)
      BY <2>2, <2>3
    <3>2. plan[j].src \in SeedIDs
      BY <2>1
    <3>3. CASE UNCHANGED <<invalid, valErrs>>
      BY <2>2, <3>1, <3>3
    <3>4. CASE invalid' = invalid \cup {plan[j].src} /\ valErrs' = valErrs + 1
      <4>1. valErrs' \in Nat
        BY <2>2, <3>4
      <4>2. invalid' \subseteq SeedIDs
        BY <2>2, <3>2, <3>4, Zenon
      <4> QED
        BY <3>1, <4>1, <4>2
    <3> QED
      BY <2>3, <3>3, <3>4
  <2> QED
    BY <1>6, <2>4 DEF ValidateEntry, TypeOK
<1>7. CASE ValidateEnd
  BY <1>7 DEF ValidateEnd, TypeOK
<1>8. CASE InvalidPlan
  <2>1. seedIndex' \in [SeedIDs -> Seq(Contents)] /\ invalid' \subseteq SeedIDs
    BY <1>8 DEF InvalidPlan, TypeOK, RegenerateSeeds
  <2>2. \/ UNCHANGED <<plan, current, toValidate, valErrs>>
        \/ NoPlan
    BY <1>8 DEF InvalidPlan
  <2>3. /\ plan' \in Seq(Entries) /\ current' \in Nat
        /\ toValidate' \subseteq 1..Len(plan') /\ valErrs' \in Nat
    <3>1. CASE UNCHANGED <<plan, current, toValidate, valErrs>>
      BY <3>1 DEF TypeOK
    <3>2. CASE NoPlan
      BY <3>2 DEF NoPlan
    <3> QED
      BY <2>2, <3>1, <3>2
  <2>4. main' \in MainPCs /\ result' \in {"none", "nil", "err"}
    BY <1>8 DEF InvalidPlan, TypeOK
  <2> QED
    BY <1>8, <2>1, <2>3, <2>4 DEF InvalidPlan, TypeOK
<1>9. CASE FeedEnd
  BY <1>9 DEF FeedEnd, TypeOK
<1>10. CASE WaitWorkers
  BY <1>10 DEF WaitWorkers, TypeOK
<1>11. CASE Finish
  BY <1>11 DEF Finish, MayRename, TypeOK
<1>12. ASSUME NEW w \in Workers, Feed(w) PROVE TypeOK'
  <2>1. fed \in 1..Len(plan)
    BY <1>12 DEF Feed, TypeOK
  <2>2. plan[fed] \in Entries /\ plan[fed].first \in Nat
    BY <2>1, PlanEntry, EntryFields
  <2> QED
    BY <1>12, <2>2 DEF Feed, TypeOK, WorkerPCs
<1> QED
  BY <1>1, <1>2, <1>3, <1>4, <1>5, <1>6, <1>7, <1>8, <1>9, <1>10, <1>11, <1>12 DEF Main


\* A process that dies or starts keeps the types.
LEMMA TypeDeath ==
    ASSUME TypeOK, NEW torn, ProcessDies(torn)
    PROVE  TypeOK'
<1> USE DEF ProcessDies, seedFiles, MainPCs, WorkerPCs
<1>1. file' \in [Slots -> Contents \cup {NoData}]
  BY DEF TypeOK, Contents
<1>2. seedIndex' \in [SeedIDs -> Seq(Contents)]
  BY OptType DEF TypeOK
<1> QED
  BY <1>1, <1>2, RestType DEF TypeOK

\* The environment keeps the types.
LEMMA TypeEnvironment == TypeOK /\ Environment => TypeOK'
<1> SUFFICES ASSUME TypeOK, Environment PROVE TypeOK'
  OBVIOUS
<1> USE DEF sequencer, pool, seedFiles, outcome, MainPCs, WorkerPCs
<1>1. CASE Kill
  BY <1>1, TypeDeath DEF Kill
<1>2. CASE Restart
  <2>1. file' \in [Slots -> Contents \cup {NoData}]
    BY <1>2 DEF Restart, TypeOK, Empty
  <2>2. seedIndex' \in [SeedIDs -> Seq(Contents)]
    BY <1>2, OptType DEF Restart, TypeOK
  <2>3. main' \in MainPCs /\ wpc' \in [Workers -> WorkerPCs] /\ isBlank' \in BOOLEAN
        /\ invalid' \subseteq SeedIDs /\ result' \in {"none", "nil", "err"}
        /\ cancelled' \in BOOLEAN
    BY <1>2 DEF Restart
  <2>4. runs' \in Nat
    <3>1. runs \in Nat
      BY DEF TypeOK
    <3> QED
      BY <1>2, <3>1 DEF Restart
  <2> QED
    BY <1>2, <2>1, <2>2, <2>3, <2>4, RestType DEF Restart, TypeOK
<1>3. CASE Cancel
  BY <1>3 DEF Cancel, TypeOK
<1>4. ASSUME NEW s \in SeedIDs, SeedChange(s) PROVE TypeOK'
  <2>1. seedBlob' \in [SeedIDs -> Seq(Contents)]
    BY <1>4, BlobsAssumption DEF SeedChange, TypeOK
  <2>2. seedExists' \in [SeedIDs -> BOOLEAN]
    BY <1>4 DEF SeedChange, TypeOK
  <2> QED
    BY <1>4, <2>1, <2>2 DEF SeedChange, TypeOK
<1> QED
  BY <1>1, <1>2, <1>3, <1>4 DEF Environment

\* The steps of the workers keep the types.
LEMMA TypeWorker ==
    ASSUME TypeOK, SegmentInv, WorkerDataInv, NEW w \in Workers, Worker(w)
    PROVE  TypeOK'
<1> USE DEF sequencer, seedFiles, outcome
<1>1. Len(idx) \in Nat /\ \A i \in Slots : idx[i] \in Contents
  BY OptType DEF TypeOK, Contents
<1>2. job[w] \in Entries
  BY DEF TypeOK
<1>3. /\ job[w].first \in Nat /\ job[w].last \in Nat
      /\ slot[w] \in Nat /\ wpc[w] \in WorkerPCs
  BY <1>2, EntryFields DEF TypeOK
<1>4. ASSUME ChunkDone(w)
      PROVE  slot' \in [Workers -> Nat] /\ wpc' \in [Workers -> WorkerPCs]
  <2>1. slot \in [Workers -> Nat] /\ wpc \in [Workers -> WorkerPCs]
    BY DEF TypeOK
  <2>2. slot[w] + 1 \in Nat /\ "verify" \in WorkerPCs /\ "add" \in WorkerPCs
    BY <1>3 DEF WorkerPCs
  <2> QED
    BY <1>4, <2>1, <2>2 DEF ChunkDone
<1>5. CASE CopyChunk(w)
  <2>1. slot[w] \in Slots /\ job[w].first <= slot[w] /\ job[w].src # FromStore
    BY <1>1, <1>3, <1>5 DEF CopyChunk, SegmentInv, Busy
  <2>2. SeedData(job[w], slot[w]) \in Contents \cup {NoData}
    BY <1>2, <2>1, SeedDataType
  <2>3. file' \in [Slots -> Contents \cup {NoData}]
    BY <1>5, <2>2 DEF CopyChunk, TypeOK
  <2>4. slot' \in [Workers -> Nat] /\ wpc' \in [Workers -> WorkerPCs]
    <3>1. slot \in [Workers -> Nat] /\ wpc \in [Workers -> WorkerPCs]
      BY DEF TypeOK
    <3>2. slot[w] + 1 \in Nat /\ "verify" \in WorkerPCs
      BY <1>3 DEF WorkerPCs
    <3> QED
      BY <1>3, <1>5, <3>1, <3>2 DEF CopyChunk, Copied
  <2> QED
    BY <1>5, <2>3, <2>4 DEF CopyChunk, TypeOK
<1>6. CASE VerifyChunk(w)
  <2>1. slot' \in [Workers -> Nat] /\ wpc' \in [Workers -> WorkerPCs]
    BY <1>4, <1>6 DEF VerifyChunk, TypeOK, WorkerPCs
  <2>2. gErr' \in BOOLEAN
    BY <1>6 DEF VerifyChunk, TypeOK
  <2> QED
    BY <1>6, <2>1, <2>2 DEF VerifyChunk, TypeOK
<1>7. CASE WriteChunk(w)
  <2>1. slot' \in [Workers -> Nat] /\ wpc' \in [Workers -> WorkerPCs]
    BY <1>4, <1>7 DEF WriteChunk, TypeOK, WorkerPCs
  <2>2. from' \in [Workers -> Slots \cup {0}]
    BY <1>7 DEF WriteChunk, Positions, TypeOK
  <2> QED
    BY <1>7, <2>1, <2>2 DEF WriteChunk, TypeOK
<1>8. CASE SelfCopy(w)
  <2>1. from[w] \in Slots
    BY <1>8 DEF SelfCopy, WorkerDataInv, SegmentRight
  <2>2. file' \in [Slots -> Contents \cup {NoData}] /\ from' \in [Workers -> Slots \cup {0}]
    BY <1>8, <2>1 DEF SelfCopy, TypeOK
  <2> QED
    BY <1>4, <1>8, <2>2 DEF SelfCopy, TypeOK
<1>9. CASE FetchChunk(w)
  <2>1. slot[w] \in Slots
    BY <1>1, <1>3, <1>9 DEF FetchChunk, SegmentInv, Busy
  <2>2. file' \in [Slots -> Contents \cup {NoData}]
    BY <1>1, <1>9, <2>1 DEF FetchChunk, TypeOK
  <2> QED
    BY <1>4, <1>9, <2>2 DEF FetchChunk, TypeOK
<1>10. CASE WorkerFail(w)
  <2>1. file' \in [Slots -> Contents \cup {NoData}]
    BY <1>10 DEF WorkerFail, TypeOK, Contents
  <2> QED
    BY <1>10, <2>1 DEF WorkerFail, TypeOK, WorkerPCs
<1>11. CASE Add(w)
  <2>1. /\ cache' \subseteq cache \cup {Segment(job[w])}
        /\ written' \in 1..(Len(idx) + 1)
    BY <1>1, <1>11 DEF Add, NextWritten, TypeOK
  <2>2. Segment(job[w]) \in [first : Nat, last : Nat]
    BY <1>3 DEF Segment
  <2>3. job' \in [Workers -> Entries] /\ slot' \in [Workers -> Nat] /\ wpc' \in [Workers -> WorkerPCs]
    BY <1>11, NoJobType DEF Add, TypeOK, WorkerPCs
  <2>4. cache' \subseteq [first : Nat, last : Nat]
    BY <2>1, <2>2 DEF TypeOK
  <2> QED
    BY <1>11, <2>1, <2>3, <2>4 DEF Add, TypeOK
<1>12. CASE Exit(w)
  BY <1>12 DEF Exit, TypeOK, WorkerPCs
<1>13. CASE Panic(w)
  BY <1>13, TypeDeath DEF Panic
<1> QED
  BY <1>5, <1>6, <1>7, <1>8, <1>9, <1>10, <1>11, <1>12, <1>13 DEF Worker


-----------------------------------------------------------------------------
(* Steps that leave the pool at rest or as it is.                           *)

DataInv == SegmentInv /\ SelfSeedSound /\ WorkerDataInv /\ CoverInv

\* A pool that has been handed nothing satisfies the invariants on segments.
LEMMA AtRestNext ==
    ASSUME TypeOK', fed' = 1, written' = 1, cache' = {},
           \A w \in Workers : wpc'[w] \in {"none", "idle"}
    PROVE  DataInv'
<1>1. Len(idx') \in Nat
  <2>1. opt' \in Options
    BY DEF TypeOK
  <2>2. opt' \in [idx : Seq(ChunkIDs), mode : Modes, action : Actions,
               caibx : [SeedIDs -> Seq(ChunkIDs)], blob : [SeedIDs -> Seq(Contents)]]
    BY <2>1, OptionsAssumption
  <2> QED
    BY <2>2
<1>2. FedEnd' = 0
  BY DEF FedEnd
<1>3. \A w \in Workers : ~Busy(w)'
  BY DEF Busy
<1>4. SegmentInv'
  BY <1>2, <1>3 DEF SegmentInv
<1>5. SelfSeedSound'
  BY DEF SelfSeedSound
<1>6. WorkerDataInv'
  BY DEF WorkerDataInv, SegmentRight
<1>7. CoverInv'
  BY <1>1, <1>2 DEF CoverInv
<1> QED
  BY <1>4, <1>5, <1>6, <1>7 DEF DataInv

\* Nothing about segments changes when plan, pool and file stay.
LEMMA SamePool ==
    ASSUME DataInv, UNCHANGED <<opt, file, plan, pool>>
    PROVE  DataInv'
BY DEF DataInv, pool, SegmentInv, SelfSeedSound, WorkerDataInv, SegmentRight, CoverInv,
       Covered, Busy, FedEnd


\* Appending what Next returns keeps the plan an ordered partition.
LEMMA PlanNextInv ==
    ASSUME TypeOK, PlanInv, PlanNext
    PROVE  PlanInv'
<1> DEFINE n == Len(plan)
<1>1. PICK c \in NextCandidates(current) :
          /\ plan' = Append(plan, c) /\ current' = c.last + 1
          /\ main' = IF c.last + 1 > Len(idx) THEN "open" ELSE "plan"
  BY DEF PlanNext, AfterSegment
<1>2. n \in Nat /\ Len(idx) \in Nat /\ plan \in Seq(Entries)
  BY OptType DEF TypeOK
<1>3. \A j \in 1..n : /\ plan[j].first \in Nat /\ plan[j].last \in Nat
                      /\ plan[j].src \in {-1, 0} \cup 1..NSeeds
  BY PlanEntry, EntryFields
<1>4. current = (IF plan = <<>> THEN 1 ELSE plan[n].last + 1)
  BY DEF PlanNext, PlanInv
<1>5. current \in Nat /\ 1 <= current
  BY <1>2, <1>3, <1>4
<1>6. /\ c \in Entries /\ c.first = current /\ current <= c.last
      /\ c.last <= Len(idx) \/ (c.last = current /\ c.src = -1)
  BY <1>5, CandidateBounds
<1>7. c.last \in Nat
  BY <1>6, EntryFields
<1>8. current <= Len(idx) \/ (idx = <<>> /\ plan = <<>>)
  BY DEF PlanNext, PlanInv
<1>9. /\ Len(plan') = n + 1 /\ plan'[n + 1] = c
      /\ \A j \in 1..n : plan'[j] = plan[j]
  BY <1>1, <1>2, <1>6
<1>10. c.last <= Len(idx) \/ (idx = <<>> /\ c.src = -1)
  BY <1>2, <1>5, <1>6, <1>7, <1>8
<1>11. UNCHANGED <<opt, toValidate>>
  BY DEF PlanNext
<1>12. \A i \in 1..n : plan[i].last < c.first
  BY <1>2, <1>3, <1>4, <1>6 DEF PlanInv
<1>13. \A j \in 1..Len(plan') :
          /\ 1 <= plan'[j].first /\ plan'[j].first <= plan'[j].last
          /\ plan'[j].last <= Len(idx) \/ (idx = <<>> /\ plan'[j].src = FromStore)
          /\ plan'[j].first = (IF j = 1 THEN 1 ELSE plan'[j - 1].last + 1)
  <2>1. ASSUME NEW j \in 1..n
        PROVE  /\ 1 <= plan'[j].first /\ plan'[j].first <= plan'[j].last
               /\ plan'[j].last <= Len(idx) \/ (idx = <<>> /\ plan'[j].src = FromStore)
               /\ plan'[j].first = (IF j = 1 THEN 1 ELSE plan'[j - 1].last + 1)
    <3>1. j # 1 => j - 1 \in 1..n
      BY <1>2
    <3> QED
      BY <1>9, <3>1 DEF PlanInv
  <2>2. (n + 1 = 1) <=> (plan = <<>>)
    BY <1>2
  <2>3. c.first = (IF n + 1 = 1 THEN 1 ELSE plan'[n].last + 1)
    BY <1>2, <1>4, <1>6, <1>9, <2>2
  <2> QED
    BY <1>2, <1>5, <1>6, <1>9, <1>10, <2>1, <2>3
<1>14. \A i, j \in 1..Len(plan') : i < j => plan'[i].last < plan'[j].first
  <2> SUFFICES ASSUME NEW i \in 1..(n + 1), NEW j \in 1..(n + 1), i < j
               PROVE  plan'[i].last < plan'[j].first
    BY <1>9
  <2>1. i \in 1..n
    BY <1>2
  <2>2. CASE j \in 1..n
    BY <1>9, <2>1, <2>2 DEF PlanInv
  <2>3. CASE j = n + 1
    BY <1>9, <1>12, <2>1, <2>3
  <2> QED
    BY <1>2, <2>2, <2>3
<1>15. \A j \in toValidate : plan'[j].src \in SeedIDs
  BY <1>9 DEF PlanInv, TypeOK
<1>16. plan' # <<>> /\ plan'[Len(plan')] = c
  BY <1>2, <1>9
<1>17. main' = "plan" =>
          /\ current' = (IF plan' = <<>> THEN 1 ELSE plan'[Len(plan')].last + 1)
          /\ current' <= Len(idx)
  BY <1>1, <1>2, <1>7, <1>16
<1>18. main' = "open" => c.last = Len(idx) \/ idx = <<>>
  BY <1>1, <1>2, <1>7, <1>10
<1>19. main' \in {"plan", "open"}
  BY <1>1
<1> QED
  BY <1>11, <1>13, <1>14, <1>15, <1>16, <1>17, <1>18, <1>19 DEF PlanInv


\* A new plan is trivially a partition of nothing.
LEMMA NoPlanInv ==
    ASSUME TypeOK, NoPlan, opt' = opt, main' \in {"plan", "return", "stat", "killed"}
    PROVE  PlanInv'
<1>1. Len(idx) \in Nat /\ (Len(idx) = 0 => idx = <<>>)
  BY OptType DEF TypeOK
<1>2. /\ plan' = <<>> /\ Len(plan') = 0 /\ current' = 1 /\ toValidate' = {}
  BY DEF NoPlan
<1> QED
  BY <1>1, <1>2 DEF PlanInv

\* Main's steps other than Feed preserve the invariant.
LEMMA MainStep ==
    ASSUME IInv, Main, ~ \E w \in Workers : Feed(w)
    PROVE  IInv'
<1> USE DEF IInv
<1>0. TypeOK'
  BY TypeMain
<1> USE DEF sequencer, pool, seedFiles, outcome, Return
<1>A. DataInv
  BY DEF DataInv
<1>B. ASSUME DataInv' PROVE SegmentInv' /\ SelfSeedSound' /\ WorkerDataInv' /\ CoverInv'
  BY <1>B DEF DataInv
<1>1. CASE StatTarget
  <2>1. PlanInv'
    BY <1>1 DEF StatTarget, PlanInv
  <2>2. PhaseInv'
    BY <1>1 DEF StatTarget, PhaseInv, Busy
  <2>3. DataInv'
    BY <1>1, <1>A, SamePool DEF StatTarget
  <2>4. OutcomeInv'
    BY <1>1 DEF StatTarget, OutcomeInv, NilMeansComplete, Complete
  <2> QED
    BY <1>0, <1>B, <2>1, <2>2, <2>3, <2>4
<1>2. CASE TruncateTarget
  <2>1. PlanInv'
    BY <1>2 DEF TruncateTarget, TruncatedTarget, PlanInv
  <2>2. PhaseInv'
    BY <1>2 DEF TruncateTarget, TruncatedTarget, PhaseInv, Busy
  <2>3. DataInv'
    BY <1>0, <1>2, AtRestNext DEF TruncateTarget, TruncatedTarget, PhaseInv
  <2>4. OutcomeInv'
    BY <1>2 DEF TruncateTarget, TruncatedTarget, OutcomeInv, NilMeansComplete, Complete
  <2> QED
    BY <1>0, <1>B, <2>1, <2>2, <2>3, <2>4
<1>3. CASE Setup
  <2>1. PlanInv'
    BY <1>3, NoPlanInv DEF Setup
  <2>2. PhaseInv'
    BY <1>3 DEF Setup, PhaseInv, Busy, PoolAtRest, NoPlan
  <2>3. DataInv'
    BY <1>0, <1>3, AtRestNext DEF Setup, PoolAtRest, PhaseInv
  <2>4. OutcomeInv'
    BY <1>3 DEF Setup, OutcomeInv, NilMeansComplete, Complete
  <2> QED
    BY <1>0, <1>B, <2>1, <2>2, <2>3, <2>4
<1>4. CASE PlanNext
  <2>1. PlanInv'
    BY <1>4, PlanNextInv
  <2>2. PhaseInv'
    BY <1>4 DEF PlanNext, PhaseInv, Busy, TypeOK
  <2>3. DataInv'
    BY <1>0, <1>4, AtRestNext DEF PlanNext, PhaseInv
  <2>4. OutcomeInv'
    BY <1>4 DEF PlanNext, OutcomeInv, NilMeansComplete, Complete
  <2> QED
    BY <1>0, <1>B, <2>1, <2>2, <2>3, <2>4
<1>5. CASE OpenSeeds
  <2>1. PlanInv'
    BY <1>5 DEF OpenSeeds, FileSeedEntries, PlanInv
  <2>2. PhaseInv'
    BY <1>5 DEF OpenSeeds, PhaseInv, Busy
  <2>3. DataInv'
    BY <1>5, <1>A, SamePool DEF OpenSeeds
  <2>4. OutcomeInv'
    BY <1>5 DEF OpenSeeds, OutcomeInv, NilMeansComplete, Complete
  <2> QED
    BY <1>0, <1>B, <2>1, <2>2, <2>3, <2>4
<1>6. CASE ValidateEntry
  <2>1. PlanInv'
    BY <1>6 DEF ValidateEntry, PlanInv
  <2>2. PhaseInv'
    BY <1>6 DEF ValidateEntry, PhaseInv, Busy
  <2>3. DataInv'
    BY <1>6, <1>A, SamePool DEF ValidateEntry
  <2>4. OutcomeInv'
    BY <1>6 DEF ValidateEntry, OutcomeInv, NilMeansComplete, Complete
  <2> QED
    BY <1>0, <1>B, <2>1, <2>2, <2>3, <2>4
<1>7. CASE ValidateEnd
  <2>1. PlanInv'
    BY <1>7 DEF ValidateEnd, PlanInv
  <2>2. PhaseInv'
    BY <1>7 DEF ValidateEnd, PhaseInv, Busy
  <2>3. DataInv'
    BY <1>7, <1>A, SamePool DEF ValidateEnd
  <2>4. OutcomeInv'
    BY <1>7 DEF ValidateEnd, OutcomeInv, NilMeansComplete, Complete
  <2> QED
    BY <1>0, <1>B, <2>1, <2>2, <2>3, <2>4
<1>8. CASE InvalidPlan
  <2>1. \/ main' = "return" /\ UNCHANGED <<plan, current, toValidate>>
        \/ main' = "plan" /\ NoPlan
    BY <1>8 DEF InvalidPlan
  <2>2. PlanInv'
    <3>1. CASE main' = "return" /\ UNCHANGED <<plan, current, toValidate>>
      BY <1>8, <3>1 DEF InvalidPlan, PlanInv
    <3>2. CASE main' = "plan" /\ NoPlan
      BY <1>8, <3>2, NoPlanInv DEF InvalidPlan
    <3> QED
      BY <2>1, <3>1, <3>2
  <2>3. PhaseInv'
    BY <1>8, <2>1, CountAssumption DEF InvalidPlan, PhaseInv, Busy, NoPlan
  <2>4. DataInv'
    BY <1>0, <1>8, AtRestNext DEF InvalidPlan, PhaseInv
  <2>5. OutcomeInv'
    BY <1>8 DEF InvalidPlan, OutcomeInv, NilMeansComplete, Complete
  <2> QED
    BY <1>0, <1>B, <2>2, <2>3, <2>4, <2>5
<1>9. CASE FeedEnd
  <2>1. PlanInv'
    BY <1>9 DEF FeedEnd, PlanInv
  <2>2. PhaseInv'
    BY <1>9 DEF FeedEnd, StopFeeding, ctxDone, PhaseInv, Busy
  <2>3. DataInv'
    BY <1>9, <1>A, SamePool DEF FeedEnd
  <2>4. OutcomeInv'
    BY <1>9 DEF FeedEnd, OutcomeInv, NilMeansComplete, Complete
  <2> QED
    BY <1>0, <1>B, <2>1, <2>2, <2>3, <2>4
<1>10. CASE WaitWorkers
  <2>1. PlanInv'
    BY <1>10 DEF WaitWorkers, PlanInv
  <2>2. PhaseInv'
    BY <1>10 DEF WaitWorkers, PhaseInv, Busy
  <2>3. DataInv'
    BY <1>10, <1>A, SamePool DEF WaitWorkers
  <2>4. ~gErr /\ ~cancelled => Complete
    <3> SUFFICES ASSUME ~gErr, ~cancelled, NEW i \in Slots PROVE file[i] = idx[i]
      BY DEF Complete
    <3>1. Len(idx) \in Nat /\ Len(plan) \in Nat /\ fed \in Nat
      BY OptType DEF TypeOK
    <3>2. fed = Len(plan) + 1 /\ plan # <<>> /\ plan[Len(plan)].last = Len(idx)
      BY <1>10, <3>1 DEF WaitWorkers, PhaseInv, PlanInv
    <3>3. FedEnd = Len(idx)
      BY <3>1, <3>2 DEF FedEnd, TypeOK
    <3>4. \A w \in Workers : ~Busy(w)
      BY <1>10 DEF WaitWorkers, Busy
    <3>5. i < written \/ Covered(cache, i)
      BY <3>1, <3>3, <3>4 DEF CoverInv
    <3> QED
      BY <3>5 DEF SelfSeedSound, Covered, TypeOK
  <2>5. OutcomeInv'
    BY <1>10, <2>4 DEF WaitWorkers, OutcomeInv, NilMeansComplete, Complete
  <2> QED
    BY <1>0, <1>B, <2>1, <2>2, <2>3, <2>5
<1>11. CASE Finish
  <2>1. PlanInv'
    BY <1>11 DEF Finish, PlanInv
  <2>2. PhaseInv'
    BY <1>11 DEF Finish, PhaseInv, Busy
  <2>3. DataInv'
    BY <1>11, <1>A, SamePool DEF Finish
  <2>4. OutcomeInv'
    <3>1. main = "return" /\ main' = "done" /\ UNCHANGED <<opt, file, cancelled>>
      BY <1>11 DEF Finish
    <3>2. result' = "nil" => result = "nil"
      BY <1>11 DEF Finish
    <3>3. opt.mode = "tmp" => ~published
      BY <3>1 DEF OutcomeInv
    <3>4. opt.mode = "tmp" /\ published' => result' = "nil"
      <4>1. CASE published' = (published \/ MayRename) /\ UNCHANGED result
        BY <3>3, <4>1 DEF MayRename
      <4>2. CASE UNCHANGED published
        BY <3>3, <4>2
      <4> QED
        BY <1>11, <4>1, <4>2 DEF Finish
    <3> QED
      BY <3>1, <3>2, <3>4 DEF OutcomeInv, NilMeansComplete, Complete
  <2> QED
    BY <1>0, <1>B, <2>1, <2>2, <2>3, <2>4
<1> QED
  BY <1>1, <1>2, <1>3, <1>4, <1>5, <1>6, <1>7, <1>8, <1>9, <1>10, <1>11 DEF Main


\* A process that dies leaves nothing to be proved.
LEMMA DeathStep ==
    ASSUME IInv, NEW torn, ProcessDies(torn), opt.mode = "tmp" => ~published
    PROVE  IInv'
<1> USE DEF IInv, ProcessDies
<1>1. TypeOK'
  BY TypeDeath
<1>2. PlanInv'
  BY NoPlanInv
<1>3. PhaseInv'
  BY DEF PhaseInv, PoolAtRest, NoPlan, Busy
<1>4. DataInv'
  BY <1>1, AtRestNext DEF PoolAtRest
<1>5. OutcomeInv'
  BY DEF OutcomeInv, NilMeansComplete
<1> QED
  BY <1>1, <1>2, <1>3, <1>4, <1>5 DEF DataInv

\* The environment's steps preserve the invariant.
LEMMA EnvironmentStep ==
    ASSUME IInv, Environment
    PROVE  IInv'
<1> USE DEF IInv
<1>1. TypeOK'
  BY TypeEnvironment
<1>2. DataInv
  BY DEF DataInv
<1>3. CASE Kill
  BY <1>3, DeathStep DEF Kill, Running, OutcomeInv
<1>4. CASE Restart
  <2>1. PlanInv'
    BY <1>4, NoPlanInv DEF Restart
  <2>2. PhaseInv'
    BY <1>4 DEF Restart, PhaseInv, PoolAtRest, NoPlan, Busy
  <2>3. DataInv'
    BY <1>1, <1>4, AtRestNext DEF Restart, PoolAtRest
  <2>4. OutcomeInv'
    BY <1>4 DEF Restart, OutcomeInv, NilMeansComplete
  <2> QED
    BY <1>1, <2>1, <2>2, <2>3, <2>4 DEF DataInv
<1>5. CASE Cancel
  <2> USE DEF sequencer, pool, seedFiles
  <2>1. DataInv'
    BY <1>2, <1>5, SamePool DEF Cancel
  <2>2. PlanInv' /\ PhaseInv'
    BY <1>5 DEF Cancel, PlanInv, PhaseInv, Busy
  <2>3. OutcomeInv'
    BY <1>5 DEF Cancel, OutcomeInv, NilMeansComplete
  <2> QED
    BY <1>1, <2>1, <2>2, <2>3 DEF DataInv
<1>6. ASSUME NEW s \in SeedIDs, SeedChange(s) PROVE IInv'
  <2> USE DEF sequencer, pool, outcome
  <2>1. DataInv'
    BY <1>2, <1>6, SamePool DEF SeedChange
  <2>2. PlanInv' /\ PhaseInv'
    BY <1>6 DEF SeedChange, PlanInv, PhaseInv, Busy
  <2>3. OutcomeInv'
    BY <1>6 DEF SeedChange, OutcomeInv, NilMeansComplete, Complete
  <2> QED
    BY <1>1, <2>1, <2>2, <2>3 DEF DataInv
<1> QED
  BY <1>3, <1>4, <1>5, <1>6 DEF Environment

-----------------------------------------------------------------------------
(* Steps of the pool.                                                       *)

\* The next entry of the plan starts right after what was handed out.
LEMMA FedEndNext ==
    ASSUME TypeOK, PlanInv, PhaseInv
    PROVE  /\ FedEnd \in Nat
           /\ fed <= Len(plan) => plan[fed] \in Entries /\ plan[fed].first = FedEnd + 1
<1>1. fed \in Nat /\ 1 <= fed /\ Len(plan) \in Nat /\ fed <= Len(plan) + 1
  BY DEF TypeOK, PhaseInv
<1>2. fed # 1 => fed - 1 \in 1..Len(plan)
  BY <1>1
<1>3. FedEnd \in Nat
  BY <1>2, PlanEntry, EntryFields DEF FedEnd
<1>4. ASSUME fed <= Len(plan) PROVE plan[fed] \in Entries /\ plan[fed].first = FedEnd + 1
  <2>1. fed \in 1..Len(plan)
    BY <1>1, <1>4
  <2> QED
    BY <1>1, <1>2, <2>1, PlanEntry DEF PlanInv, FedEnd
<1> QED
  BY <1>3, <1>4

\* Handing out an entry preserves the invariant.
LEMMA FeedStep ==
    ASSUME IInv, NEW w \in Workers, Feed(w)
    PROVE  IInv'
<1> DEFINE c == plan[fed]
<1> USE DEF IInv, sequencer, seedFiles, outcome
<1>1. TypeOK'
  BY TypeMain DEF Main
<1>2. /\ fed \in 1..Len(plan) /\ Len(plan) \in Nat /\ Len(idx) \in Nat
      /\ c \in Entries /\ FedEnd \in Nat /\ c.first = FedEnd + 1
  BY FedEndNext, OptType DEF Feed, TypeOK
<1>3. /\ c.first \in Nat /\ c.last \in Nat /\ c.first <= c.last
      /\ c.last <= Len(idx) \/ (idx = <<>> /\ c.src = -1)
  BY <1>2, EntryFields DEF PlanInv
<1>4. FedEnd' = c.last
  <2>1. fed' = fed + 1 /\ fed' # 1 /\ fed' - 1 = fed /\ plan' = plan
    BY <1>2 DEF Feed
  <2> QED
    BY <2>1 DEF FedEnd
<1>5. /\ job' = [job EXCEPT ![w] = c] /\ slot' = [slot EXCEPT ![w] = c.first]
      /\ wpc' = [wpc EXCEPT ![w] = IF c.src = -1 THEN "chunk" ELSE "copy"]
      /\ wpc[w] = "idle" /\ main = "feed"
      /\ fed' = fed + 1
      /\ UNCHANGED <<opt, main, file, plan, toValidate, current, written, cache, from, gErr,
                     cancelled, result, published>>
  BY DEF Feed
<1>6. /\ job'[w] = c /\ slot'[w] = c.first
      /\ wpc'[w] = (IF c.src = -1 THEN "chunk" ELSE "copy")
      /\ \A v \in Workers : v # w => /\ job'[v] = job[v] /\ slot'[v] = slot[v]
                                     /\ wpc'[v] = wpc[v]
  BY <1>5 DEF TypeOK
<1>7. /\ Busy(w)' /\ ~Busy(w)
      /\ \A v \in Workers : v # w => (Busy(v)' <=> Busy(v))
  BY <1>5, <1>6 DEF Busy
<1>8. PlanInv'
  BY <1>5 DEF PlanInv
<1>9. PhaseInv'
  BY <1>2, <1>5, <1>6 DEF PhaseInv
<1>10. SegmentInv'
  <2>1. written' <= FedEnd' + 1
    BY <1>2, <1>3, <1>4, <1>5 DEF SegmentInv, TypeOK
  <2>2. ASSUME NEW d \in cache'
        PROVE  /\ written' < d.first /\ d.first <= d.last /\ d.last <= FedEnd'
               /\ d.last <= Len(idx') /\ d.last < c.first
    <3>1. d \in cache /\ d.first \in Nat /\ d.last \in Nat
      BY <1>5 DEF TypeOK
    <3> QED
      BY <1>2, <1>3, <1>4, <1>5, <3>1 DEF SegmentInv
  <2>3. ASSUME NEW v \in Workers, Busy(v)'
        PROVE  /\ 1 <= job'[v].first /\ job'[v].first <= slot'[v] /\ slot'[v] <= job'[v].last
               /\ job'[v].last <= FedEnd' /\ written' <= job'[v].first
               /\ job'[v].last <= Len(idx') \/ (idx' = <<>> /\ wpc'[v] = "chunk")
               /\ wpc'[v] = "copy" => job'[v].src # FromStore
               /\ \A d \in cache' : d.last < job'[v].first \/ job'[v].last < d.first
    <3>1. CASE v = w
      BY <1>2, <1>3, <1>4, <1>5, <1>6, <2>2, <3>1 DEF SegmentInv, TypeOK
    <3>2. CASE v # w
      <4>1. Busy(v) /\ job[v] \in Entries
        BY <1>7, <2>3, <3>2 DEF TypeOK
      <4>2. job[v].last \in Nat /\ job[v].last <= FedEnd
        BY <4>1, EntryFields DEF SegmentInv
      <4>3. job'[v].last <= FedEnd'
        BY <1>2, <1>3, <1>4, <1>6, <3>2, <4>2
      <4> QED
        BY <1>5, <1>6, <3>2, <4>1, <4>3 DEF SegmentInv
    <3> QED
      BY <3>1, <3>2
  <2>4. ASSUME NEW v \in Workers, v # w, Busy(v)' PROVE job'[v].last < c.first
    <3>1. Busy(v) /\ job[v] \in Entries
      BY <1>7, <2>4 DEF TypeOK
    <3>2. job[v].last \in Nat /\ job[v].last <= FedEnd
      BY <3>1, EntryFields DEF SegmentInv
    <3> QED
      BY <1>2, <1>6, <2>4, <3>2
  <2>5. ASSUME NEW u \in Workers, NEW v \in Workers, Busy(u)', Busy(v)', u # v
        PROVE  job'[u].last < job'[v].first \/ job'[v].last < job'[u].first
    <3>1. CASE u = w
      BY <1>6, <2>4, <2>5, <3>1
    <3>2. CASE v = w
      BY <1>6, <2>4, <2>5, <3>2
    <3>3. CASE u # w /\ v # w
      BY <1>6, <1>7, <2>5, <3>3 DEF SegmentInv
    <3> QED
      BY <3>1, <3>2, <3>3
  <2> QED
    BY <2>1, <2>2, <2>3, <2>5 DEF SegmentInv
<1>11. SelfSeedSound'
  BY <1>5 DEF SelfSeedSound
<1>12. WorkerDataInv'
  BY <1>2, <1>3, <1>5, <1>6 DEF WorkerDataInv, SegmentRight
<1>13. CoverInv'
  <2> SUFFICES ASSUME ~gErr, NEW i \in Slots, i <= c.last
               PROVE  \/ i < written
                      \/ Covered(cache, i)
                      \/ \E v \in Workers : Busy(v)' /\ job'[v].first <= i /\ i <= job'[v].last
    BY <1>4, <1>5 DEF CoverInv, Covered
  <2>1. CASE i <= FedEnd
    <3>1. CASE \E v \in Workers : Busy(v) /\ job[v].first <= i /\ i <= job[v].last
      <4>1. PICK v \in Workers : Busy(v) /\ job[v].first <= i /\ i <= job[v].last
        BY <3>1
      <4>2. v # w
        BY <1>7, <4>1
      <4> QED
        BY <1>6, <1>7, <4>1, <4>2
    <3> QED
      BY <2>1, <3>1 DEF CoverInv
  <2>2. CASE i > FedEnd
    BY <1>2, <1>6, <1>7, <2>2
  <2> QED
    BY <1>2, <2>1, <2>2
<1>14. OutcomeInv'
  BY <1>5 DEF OutcomeInv, NilMeansComplete, Complete
<1> QED
  BY <1>1, <1>8, <1>9, <1>10, <1>11, <1>12, <1>13, <1>14


\* A worker's step that keeps the segments as they are, changes at most its
\* own slot of the file, and stays in its segment.  What is right about the
\* data of the others and of the self-seed stays right.
LEMMA KeepsSegments ==
    ASSUME IInv, TypeOK', NEW w \in Workers, Busy(w),
           UNCHANGED <<opt, main, plan, toValidate, current, fed, written, cache, cancelled,
                       result, published, job>>,
           \A v \in Workers : v # w =>
               wpc'[v] = wpc[v] /\ slot'[v] = slot[v] /\ from'[v] = from[v],
           \A i \in Slots : i # slot[w] => file'[i] = file[i],
           wpc'[w] # "copy" \/ wpc[w] = "copy",
           \/ Busy(w)' /\ gErr' = gErr /\ job[w].first <= slot'[w] /\ slot'[w] <= job[w].last
              /\ (job[w].last <= Len(idx) \/ wpc'[w] = "chunk")
           \/ wpc'[w] = "fail" /\ gErr' = TRUE
    PROVE  PlanInv' /\ PhaseInv' /\ SegmentInv' /\ SelfSeedSound' /\ CoverInv' /\ OutcomeInv'
           /\ \A v \in Workers : v # w => SegmentRight(v)'
<1> USE DEF IInv
<1>1. /\ Len(idx) \in Nat /\ slot[w] \in Nat /\ written \in Nat
      /\ job[w].first \in Nat /\ job[w].last \in Nat
      /\ \A v \in Workers : slot[v] \in Nat /\ job[v].first \in Nat /\ job[v].last \in Nat
  BY OptType, EntryFields DEF TypeOK
<1>2. /\ job[w].first <= slot[w] /\ slot[w] <= job[w].last /\ written <= job[w].first
      /\ \A c \in cache : c.last < job[w].first \/ job[w].last < c.first
      /\ job[w].last <= Len(idx) \/ idx = <<>>
  BY DEF SegmentInv
<1>3. main \in {"feed", "wait"}
  BY DEF PhaseInv
<1>4. \A v \in Workers : Busy(v)' => Busy(v)
  BY DEF Busy
<1>5. PlanInv'
  BY DEF PlanInv
<1>6. PhaseInv'
  <2>1. gErr => gErr'
    OBVIOUS
  <2>2. \A v \in Workers : wpc'[v] = "fail" => gErr'
    BY <2>1 DEF PhaseInv, Busy
  <2> QED
    BY <1>3, <2>1, <2>2 DEF PhaseInv
<1>7. FedEnd' = FedEnd
  BY DEF FedEnd
<1>8. SegmentInv'
  <2>1. ASSUME NEW v \in Workers, Busy(v)'
        PROVE  /\ 1 <= job[v].first /\ job[v].first <= slot'[v] /\ slot'[v] <= job[v].last
               /\ job[v].last <= FedEnd /\ written <= job[v].first
               /\ job[v].last <= Len(idx) \/ (idx = <<>> /\ wpc'[v] = "chunk")
               /\ wpc'[v] = "copy" => job[v].src # FromStore
               /\ \A c \in cache : c.last < job[v].first \/ job[v].last < c.first
    <3>1. CASE v = w
      BY <1>2, <2>1, <3>1 DEF SegmentInv, Busy
    <3>2. CASE v # w
      BY <1>4, <2>1, <3>2 DEF SegmentInv
    <3> QED
      BY <3>1, <3>2
  <2> QED
    BY <1>4, <1>7, <2>1 DEF SegmentInv
<1>9. SelfSeedSound'
  <2>1. \A i \in Slots : i < written => i # slot[w]
    BY <1>1, <1>2
  <2>2. ASSUME NEW c \in cache, NEW i \in c.first..c.last
        PROVE  i \in Slots /\ i # slot[w]
    <3>1. c.first \in Nat /\ c.last \in Nat
      BY DEF TypeOK
    <3> QED
      BY <1>1, <1>2, <3>1 DEF SegmentInv
  <2> QED
    BY <2>1, <2>2 DEF SelfSeedSound
<1>10. CoverInv'
  <2> SUFFICES ASSUME ~gErr', NEW i \in Slots, i <= FedEnd
               PROVE  \/ i < written
                      \/ Covered(cache, i)
                      \/ \E v \in Workers : Busy(v)' /\ job[v].first <= i /\ i <= job[v].last
    BY <1>7 DEF CoverInv, Covered
  <2>1. ~gErr /\ Busy(w)'
    OBVIOUS
  <2>2. \A v \in Workers : Busy(v) => Busy(v)'
    BY <2>1 DEF Busy
  <2> QED
    BY <2>1, <2>2 DEF CoverInv
<1>11. OutcomeInv'
  BY <1>3 DEF OutcomeInv, NilMeansComplete
<1>12. ASSUME NEW v \in Workers, v # w
       PROVE  SegmentRight(v)'
  <2>1. ASSUME Busy(v), NEW i \in Slots, job[v].first <= i, i <= job[v].last
        PROVE  i # slot[w]
    <3>1. job[v].last < job[w].first \/ job[w].last < job[v].first
      BY <1>12, <2>1 DEF SegmentInv
    <3> QED
      BY <1>1, <1>2, <2>1, <3>1
  <2>2. Busy(v) => slot[v] <= job[v].last
    BY DEF SegmentInv
  <2>3. ASSUME wpc[v] \in {"verify", "chunk", "self", "fetch", "add"}, NEW i \in Slots,
               job[v].first <= i, i < slot[v]
        PROVE  file'[i] = idx[i]
    <3>1. Busy(v)
      BY <2>3 DEF Busy
    <3>2. i # slot[w]
      BY <1>1, <2>1, <2>2, <2>3, <3>1
    <3> QED
      BY <2>3, <3>2 DEF WorkerDataInv, SegmentRight
  <2>4. ASSUME wpc[v] = "add", NEW i \in Slots, job[v].first <= i, i <= job[v].last
        PROVE  file'[i] = idx[i]
    <3>1. Busy(v)
      BY <2>4 DEF Busy
    <3> QED
      BY <2>1, <2>4, <3>1 DEF WorkerDataInv, SegmentRight
  <2> QED
    BY <1>12, <2>3, <2>4 DEF WorkerDataInv, SegmentRight
<1> QED
  BY <1>5, <1>6, <1>8, <1>9, <1>10, <1>11, <1>12


\* The steps of a worker on its segment preserve the invariant.
LEMMA WorkerStep ==
    ASSUME IInv, NEW w \in Workers,
           \/ CopyChunk(w) \/ VerifyChunk(w) \/ WriteChunk(w) \/ SelfCopy(w)
           \/ FetchChunk(w) \/ WorkerFail(w)
    PROVE  IInv'
<1> USE DEF IInv, sequencer, seedFiles, outcome
<1>1. TypeOK'
  BY TypeWorker DEF Worker
<1>2. /\ Len(idx) \in Nat /\ slot[w] \in Nat /\ written \in Nat
      /\ job[w].first \in Nat /\ job[w].last \in Nat
  BY OptType, EntryFields DEF TypeOK
<1>3. Busy(w)
  BY DEF CopyChunk, VerifyChunk, WriteChunk, SelfCopy, FetchChunk, WorkerFail, Busy
<1>4. /\ 1 <= job[w].first /\ job[w].first <= slot[w] /\ slot[w] <= job[w].last
      /\ job[w].last <= Len(idx) \/ (idx = <<>> /\ wpc[w] = "chunk")
  BY <1>3 DEF SegmentInv
<1>5. UNCHANGED <<opt, main, plan, toValidate, current, fed, written, cache, cancelled,
                  result, published, job>>
  BY DEF CopyChunk, VerifyChunk, WriteChunk, SelfCopy, FetchChunk, WorkerFail
<1>6. \A i \in Slots : i # slot[w] => file'[i] = file[i]
  BY DEF CopyChunk, VerifyChunk, WriteChunk, SelfCopy, FetchChunk, WorkerFail, TypeOK
<1>7. ASSUME ChunkDone(w), from' = from \/ from' = [from EXCEPT ![w] = 0],
             slot[w] \in Slots, file'[slot[w]] = idx[slot[w]], gErr' = gErr,
             wpc[w] # "copy"
      PROVE  IInv'
  <2>1. wpc[w] \in {"verify", "chunk", "self", "fetch", "add"} /\ job[w].last <= Len(idx)
    BY <1>2, <1>3, <1>4, <1>7 DEF Busy
  <2>2. \A i \in Slots : job[w].first <= i /\ i <= slot[w] => file'[i] = idx[i]
    BY <1>2, <1>6, <1>7, <2>1 DEF WorkerDataInv, SegmentRight
  <2>3. \/ slot[w] < job[w].last /\ slot'[w] = slot[w] + 1 /\ wpc'[w] = "verify"
        \/ slot[w] = job[w].last /\ slot'[w] = slot[w] /\ wpc'[w] = "add"
    BY <1>2, <1>4, <1>7 DEF ChunkDone, TypeOK
  <2>4. \A v \in Workers : v # w =>
            wpc'[v] = wpc[v] /\ slot'[v] = slot[v] /\ from'[v] = from[v]
    BY <1>7 DEF ChunkDone, TypeOK
  <2>5. /\ Busy(w)' /\ job[w].first <= slot'[w] /\ slot'[w] <= job[w].last
        /\ wpc'[w] # "copy"
    BY <1>2, <1>4, <2>3 DEF Busy
  <2>6. \A i \in Slots : job[w].first <= i /\ i < slot'[w] => file'[i] = idx[i]
    BY <1>2, <2>2, <2>3
  <2>7. wpc'[w] = "add" =>
            \A i \in Slots : job[w].first <= i /\ i <= job[w].last => file'[i] = idx[i]
    BY <2>2, <2>3
  <2>8. wpc'[w] # "self"
    BY <2>3
  <2>9. PlanInv' /\ PhaseInv' /\ SegmentInv' /\ SelfSeedSound' /\ CoverInv' /\ OutcomeInv'
        /\ \A v \in Workers : v # w => SegmentRight(v)'
    BY <1>1, <1>3, <1>5, <1>6, <1>7, <2>1, <2>4, <2>5, KeepsSegments
  <2>10. WorkerDataInv'
    BY <1>5, <2>6, <2>7, <2>8, <2>9 DEF WorkerDataInv, SegmentRight
  <2> QED
    BY <1>1, <2>9, <2>10
<1>8. ASSUME \A v \in Workers : v # w =>
                 wpc'[v] = wpc[v] /\ slot'[v] = slot[v] /\ from'[v] = from[v],
             wpc'[w] # "copy" \/ wpc[w] = "copy",
             \/ Busy(w)' /\ gErr' = gErr /\ job[w].first <= slot'[w] /\ slot'[w] <= job[w].last
                /\ (job[w].last <= Len(idx) \/ wpc'[w] = "chunk")
             \/ wpc'[w] = "fail" /\ gErr' = TRUE,
             SegmentRight(w)'
      PROVE  IInv'
  <2>1. PlanInv' /\ PhaseInv' /\ SegmentInv' /\ SelfSeedSound' /\ CoverInv' /\ OutcomeInv'
        /\ \A v \in Workers : v # w => SegmentRight(v)'
    BY <1>1, <1>3, <1>5, <1>6, <1>8, KeepsSegments
  <2>2. WorkerDataInv'
    BY <1>8, <2>1 DEF WorkerDataInv
  <2> QED
    BY <1>1, <2>1, <2>2
<1>9. wpc[w] # "chunk" => slot[w] \in Slots /\ job[w].last <= Len(idx)
  BY <1>2, <1>4
<1>10. CASE CopyChunk(w)
  <2>1. wpc[w] = "copy" /\ from' = from /\ gErr' = gErr
    BY <1>10 DEF CopyChunk
  <2>2. CASE slot[w] < job[w].last
    <3>1. slot' = [slot EXCEPT ![w] = slot[w] + 1] /\ wpc' = wpc
      BY <1>10, <2>2 DEF CopyChunk
    <3>2. /\ slot'[w] = slot[w] + 1 /\ wpc'[w] = "copy"
          /\ \A v \in Workers : v # w =>
                wpc'[v] = wpc[v] /\ slot'[v] = slot[v] /\ from'[v] = from[v]
      BY <2>1, <3>1 DEF TypeOK
    <3>3. SegmentRight(w)'
      BY <3>2 DEF SegmentRight
    <3>4. Busy(w)' /\ job[w].first <= slot'[w] /\ slot'[w] <= job[w].last
      BY <1>2, <1>4, <2>2, <3>2 DEF Busy
    <3> QED
      BY <1>8, <1>9, <2>1, <3>2, <3>3, <3>4
  <2>3. CASE ~(slot[w] < job[w].last)
    <3>1. slot' = [slot EXCEPT ![w] = job[w].first] /\ wpc' = [wpc EXCEPT ![w] = "verify"]
      BY <1>10, <2>3 DEF CopyChunk, Copied
    <3>2. /\ slot'[w] = job[w].first /\ wpc'[w] = "verify"
          /\ \A v \in Workers : v # w =>
                wpc'[v] = wpc[v] /\ slot'[v] = slot[v] /\ from'[v] = from[v]
      BY <2>1, <3>1 DEF TypeOK
    <3>3. SegmentRight(w)'
      BY <1>2, <1>5, <3>2 DEF SegmentRight
    <3>4. Busy(w)' /\ job[w].first <= slot'[w] /\ slot'[w] <= job[w].last
      BY <1>2, <1>4, <3>2 DEF Busy
    <3> QED
      BY <1>8, <1>9, <2>1, <3>2, <3>3, <3>4
  <2> QED
    BY <2>2, <2>3
<1>11. CASE VerifyChunk(w)
  <2>1. wpc[w] = "verify" /\ file' = file /\ from' = from
    BY <1>11 DEF VerifyChunk
  <2>2. CASE file[slot[w]] = idx[slot[w]] /\ ChunkDone(w) /\ gErr' = gErr
    BY <1>7, <1>9, <2>1, <2>2
  <2>3. CASE wpc' = [wpc EXCEPT ![w] = "chunk"] /\ UNCHANGED <<slot, gErr>>
    <3>1. wpc'[w] = "chunk" /\ \A v \in Workers : v # w => wpc'[v] = wpc[v]
      BY <2>3 DEF TypeOK
    <3>2. SegmentRight(w)'
      BY <1>5, <2>1, <2>3, <3>1 DEF WorkerDataInv, SegmentRight
    <3>3. Busy(w)'
      BY <3>1 DEF Busy
    <3> QED
      BY <1>4, <1>8, <2>1, <2>3, <3>1, <3>2, <3>3
  <2>4. CASE wpc' = [wpc EXCEPT ![w] = "fail"] /\ gErr' = TRUE /\ UNCHANGED slot
    <3>1. wpc'[w] = "fail" /\ \A v \in Workers : v # w => wpc'[v] = wpc[v]
      BY <2>4 DEF TypeOK
    <3>2. SegmentRight(w)'
      BY <3>1 DEF SegmentRight
    <3> QED
      BY <1>8, <2>1, <2>4, <3>1, <3>2
  <2> QED
    BY <1>11, <2>2, <2>3, <2>4 DEF VerifyChunk
<1>12. CASE WriteChunk(w)
  <2>1. wpc[w] = "chunk" /\ file' = file /\ gErr' = gErr /\ slot[w] \in Slots
    BY <1>12 DEF WriteChunk
  <2>2. job[w].last <= Len(idx)
    BY <1>2, <1>4, <2>1
  <2>3. CASE file[slot[w]] = idx[slot[w]] /\ ChunkDone(w) /\ UNCHANGED from
    BY <1>7, <2>1, <2>3
  <2>4. ASSUME NEW p \in Positions(idx[slot[w]]), from' = [from EXCEPT ![w] = p],
               wpc' = [wpc EXCEPT ![w] = "self"], UNCHANGED slot
        PROVE  IInv'
    <3>1. /\ wpc'[w] = "self" /\ from'[w] = p
          /\ \A v \in Workers : v # w => wpc'[v] = wpc[v] /\ from'[v] = from[v]
      BY <2>4 DEF TypeOK
    <3>2. SegmentRight(w)'
      BY <1>5, <2>1, <2>4, <3>1 DEF WorkerDataInv, SegmentRight, Positions
    <3>3. Busy(w)'
      BY <3>1 DEF Busy
    <3> QED
      BY <1>4, <1>8, <2>1, <2>2, <2>4, <3>1, <3>2, <3>3
  <2>5. CASE wpc' = [wpc EXCEPT ![w] = "fetch"] /\ UNCHANGED <<from, slot>>
    <3>1. wpc'[w] = "fetch" /\ \A v \in Workers : v # w => wpc'[v] = wpc[v]
      BY <2>5 DEF TypeOK
    <3>2. SegmentRight(w)'
      BY <1>5, <2>1, <2>5, <3>1 DEF WorkerDataInv, SegmentRight
    <3>3. Busy(w)'
      BY <3>1 DEF Busy
    <3> QED
      BY <1>4, <1>8, <2>1, <2>2, <2>5, <3>1, <3>2, <3>3
  <2> QED
    BY <1>12, <2>3, <2>4, <2>5 DEF WriteChunk
<1>13. CASE SelfCopy(w)
  <2>1. /\ wpc[w] = "self" /\ ChunkDone(w) /\ gErr' = gErr
        /\ from' = [from EXCEPT ![w] = 0]
        /\ file' = [file EXCEPT ![slot[w]] = file[from[w]]]
    BY <1>13 DEF SelfCopy
  <2>2. from[w] \in Slots /\ from[w] < written /\ idx[from[w]] = idx[slot[w]]
    BY <2>1 DEF WorkerDataInv, SegmentRight
  <2>3. file[from[w]] = idx[slot[w]]
    BY <2>2 DEF SelfSeedSound
  <2>4. file'[slot[w]] = idx[slot[w]]
    BY <1>9, <2>1, <2>3 DEF TypeOK
  <2> QED
    BY <1>7, <1>9, <2>1, <2>4
<1>14. CASE FetchChunk(w)
  <2>1. wpc[w] = "fetch" /\ ChunkDone(w) /\ gErr' = gErr /\ from' = from
    BY <1>14 DEF FetchChunk
  <2>2. file'[slot[w]] = idx[slot[w]]
    BY <1>9, <1>14, <2>1 DEF FetchChunk, TypeOK
  <2> QED
    BY <1>7, <1>9, <2>1, <2>2
<1>15. CASE WorkerFail(w)
  <2>1. wpc' = [wpc EXCEPT ![w] = "fail"] /\ gErr' = TRUE /\ UNCHANGED <<slot, from>>
    BY <1>15 DEF WorkerFail
  <2>2. wpc'[w] = "fail" /\ \A v \in Workers : v # w => wpc'[v] = wpc[v]
    BY <2>1 DEF TypeOK
  <2>3. SegmentRight(w)'
    BY <2>2 DEF SegmentRight
  <2> QED
    BY <1>8, <2>1, <2>2, <2>3
<1> QED
  BY <1>10, <1>11, <1>12, <1>13, <1>14, <1>15


\* Recording a finished segment in the self-seed preserves the invariant.
LEMMA AddStep ==
    ASSUME IInv, NEW w \in Workers, Add(w)
    PROVE  IInv'
<1> DEFINE seg  == Segment(job[w])
           segs == cache \cup {seg}
<1> USE DEF IInv, sequencer, seedFiles, outcome
<1>1. TypeOK'
  BY TypeWorker DEF Worker
<1>2. PICK n \in NextWritten(segs) : written' = n /\ cache' = {c \in segs : c.first >= n}
  BY DEF Add
<1>3. /\ Len(idx) \in Nat /\ written \in Nat /\ 1 <= written /\ FedEnd \in Nat
      /\ \A v \in Workers : slot[v] \in Nat /\ job[v].first \in Nat /\ job[v].last \in Nat
  BY OptType, EntryFields, FedEndNext DEF TypeOK
<1>4. /\ n \in Nat /\ written <= n /\ n <= Len(idx) + 1
      /\ ~Covered(segs, n) /\ \A i \in written..(n - 1) : Covered(segs, i)
  <2>1. n \in written..(Len(idx) + 1)
    BY <1>2, Zenon DEF NextWritten
  <2>2. ~Covered(segs, n) /\ \A i \in written..(n - 1) : Covered(segs, i)
    BY <1>2, Zenon DEF NextWritten
  <2>3. n \in Nat /\ written <= n /\ n <= Len(idx) + 1
    BY <1>3, <2>1
  <2> QED
    BY <2>2, <2>3
<1>5. /\ wpc[w] = "add" /\ wpc' = [wpc EXCEPT ![w] = "idle"]
      /\ job' = [job EXCEPT ![w] = NoJob] /\ slot' = [slot EXCEPT ![w] = 0]
      /\ UNCHANGED <<opt, main, file, plan, toValidate, current, fed, from, gErr,
                     cancelled, result, published>>
  BY DEF Add
<1>6. /\ wpc'[w] = "idle"
      /\ \A v \in Workers : v # w => wpc'[v] = wpc[v] /\ job'[v] = job[v] /\ slot'[v] = slot[v]
  BY <1>5 DEF TypeOK
<1>7. Busy(w) /\ ~Busy(w)' /\ \A v \in Workers : v # w => (Busy(v)' <=> Busy(v))
  BY <1>5, <1>6 DEF Busy
<1>8. seg.first = job[w].first /\ seg.last = job[w].last
  BY DEF Segment
<1>9. ASSUME NEW c \in segs
      PROVE  /\ c.first \in Nat /\ c.last \in Nat /\ c.first <= c.last
             /\ c.last <= FedEnd /\ c.last <= Len(idx) /\ 1 <= c.first
             /\ \A i \in c.first..c.last : i \in Slots /\ file[i] = idx[i]
             /\ \A v \in Workers : v # w /\ Busy(v) =>
                   c.last < job[v].first \/ job[v].last < c.first
  <2>1. CASE c = seg
    <3>1. /\ c.first \in Nat /\ c.last \in Nat /\ c.first <= c.last
          /\ c.last <= FedEnd /\ c.last <= Len(idx) /\ 1 <= c.first
      BY <1>3, <1>5, <1>7, <1>8, <2>1 DEF SegmentInv
    <3>2. \A i \in c.first..c.last : i \in Slots /\ file[i] = idx[i]
      BY <1>3, <1>5, <1>8, <2>1, <3>1 DEF WorkerDataInv, SegmentRight
    <3> QED
      BY <1>7, <1>8, <2>1, <3>1, <3>2 DEF SegmentInv
  <2>2. CASE c \in cache
    <3>1. c.first \in Nat /\ c.last \in Nat
      BY <2>2 DEF TypeOK
    <3> QED
      BY <1>3, <2>2, <3>1 DEF SegmentInv, SelfSeedSound
  <2> QED
    BY <2>1, <2>2
<1>10. ASSUME NEW c \in segs PROVE c.first < n => c.last < n
  BY <1>4, <1>9 DEF Covered
<1>11. ASSUME NEW c \in segs, c.first >= n PROVE n < c.first
  <2>1. c.first # n
    BY <1>4, <1>9 DEF Covered
  <2> QED
    BY <1>4, <1>9, <1>11, <2>1
<1>12. n <= FedEnd + 1
  <2>1. SUFFICES ASSUME n > FedEnd + 1 PROVE FALSE
    BY <1>3, <1>4
  <2>2. written <= FedEnd + 1
    BY DEF SegmentInv
  <2>3. FedEnd + 1 \in written..(n - 1)
    BY <1>3, <1>4, <2>1, <2>2
  <2>4. Covered(segs, FedEnd + 1)
    BY <1>4, <2>3, Zenon
  <2> QED
    BY <1>3, <1>9, <2>4 DEF Covered
<1>13. ASSUME NEW v \in Workers, v # w, Busy(v) PROVE n <= job[v].first
  <2>1. SUFFICES ASSUME n > job[v].first PROVE FALSE
    BY <1>3, <1>4
  <2>2. written <= job[v].first /\ job[v].first <= job[v].last
    BY <1>3, <1>13 DEF SegmentInv
  <2>3. job[v].first \in written..(n - 1)
    BY <1>3, <1>4, <2>1, <2>2
  <2>4. Covered(segs, job[v].first)
    BY <1>4, <2>3, Zenon
  <2> QED
    BY <1>3, <1>9, <1>13, <2>2, <2>4 DEF Covered
<1>14. FedEnd' = FedEnd
  BY <1>5 DEF FedEnd
<1>15. PlanInv' /\ PhaseInv'
  BY <1>5, <1>6, <1>7 DEF PlanInv, PhaseInv
<1>16. SegmentInv'
  <2>1. \A c \in cache' : written' < c.first /\ c.first <= c.last /\ c.last <= FedEnd
                          /\ c.last <= Len(idx)
    BY <1>2, <1>9, <1>11
  <2>2. ASSUME NEW v \in Workers, Busy(v)'
        PROVE  /\ 1 <= job'[v].first /\ job'[v].first <= slot'[v] /\ slot'[v] <= job'[v].last
               /\ job'[v].last <= FedEnd /\ written' <= job'[v].first
               /\ job'[v].last <= Len(idx) \/ (idx = <<>> /\ wpc'[v] = "chunk")
               /\ wpc'[v] = "copy" => job'[v].src # FromStore
               /\ \A c \in cache' : c.last < job'[v].first \/ job'[v].last < c.first
    <3>1. v # w /\ Busy(v)
      BY <1>7, <2>2
    <3>2. written' <= job'[v].first
      BY <1>2, <1>6, <1>13, <3>1
    <3>3. \A c \in cache' : c.last < job'[v].first \/ job'[v].last < c.first
      BY <1>2, <1>6, <1>9, <3>1
    <3> QED
      BY <1>6, <3>1, <3>2, <3>3 DEF SegmentInv
  <2>3. ASSUME NEW u \in Workers, NEW v \in Workers, Busy(u)', Busy(v)', u # v
        PROVE  job'[u].last < job'[v].first \/ job'[v].last < job'[u].first
    BY <1>6, <1>7, <2>3 DEF SegmentInv
  <2> QED
    BY <1>2, <1>5, <1>12, <1>14, <2>1, <2>2, <2>3 DEF SegmentInv
<1>17. SelfSeedSound'
  <2>1. ASSUME NEW i \in Slots, i < n PROVE file[i] = idx[i]
    <3>1. CASE i < written
      BY <3>1 DEF SelfSeedSound
    <3>2. CASE i >= written
      <4>1. i \in written..(n - 1)
        BY <1>3, <1>4, <2>1, <3>2
      <4>2. Covered(segs, i)
        BY <1>4, <4>1, Zenon
      <4> QED
        BY <1>3, <1>9, <4>2 DEF Covered
    <3> QED
      BY <1>3, <3>1, <3>2
  <2>2. \A c \in cache' : \A i \in c.first..c.last : file[i] = idx[i]
    BY <1>2, <1>9
  <2> QED
    BY <1>2, <1>5, <2>1, <2>2 DEF SelfSeedSound
<1>18. WorkerDataInv'
  <2> SUFFICES ASSUME NEW v \in Workers PROVE SegmentRight(v)'
    BY DEF WorkerDataInv
  <2>1. CASE v = w
    BY <1>6, <2>1 DEF SegmentRight
  <2>2. CASE v # w
    <3>1. SegmentRight(v)
      BY DEF WorkerDataInv
    <3>2. ASSUME NEW i \in Slots, i < written PROVE i < n
      BY <1>3, <1>4, <3>2
    <3> QED
      BY <1>2, <1>5, <1>6, <2>2, <3>1, <3>2 DEF SegmentRight
  <2> QED
    BY <2>1, <2>2
<1>19. CoverInv'
  <2> SUFFICES ASSUME ~gErr, NEW i \in Slots, i <= FedEnd
               PROVE  \/ i < n
                      \/ \E c \in cache' : c.first <= i /\ i <= c.last
                      \/ \E v \in Workers : Busy(v)' /\ job'[v].first <= i /\ i <= job'[v].last
    BY <1>2, <1>5, <1>14 DEF CoverInv, Covered
  <2>1. CASE i < written
    BY <1>3, <1>4, <2>1
  <2>2. ASSUME NEW c \in segs, c.first <= i, i <= c.last
        PROVE  i < n \/ \E d \in cache' : d.first <= i /\ i <= d.last
    <3>1. CASE c.first < n
      BY <1>3, <1>4, <1>9, <1>10, <2>2, <3>1
    <3>2. CASE c.first >= n
      BY <1>2, <2>2, <3>2
    <3> QED
      BY <1>4, <1>9, <3>1, <3>2
  <2>3. CASE Covered(cache, i)
    BY <2>2, <2>3 DEF Covered
  <2>4. ASSUME NEW v \in Workers, Busy(v), job[v].first <= i, i <= job[v].last
        PROVE  \/ i < n
               \/ \E c \in cache' : c.first <= i /\ i <= c.last
               \/ Busy(v)' /\ job'[v].first <= i /\ i <= job'[v].last
    <3>1. CASE v = w
      BY <1>8, <2>2, <2>4, <3>1
    <3>2. CASE v # w
      BY <1>6, <1>7, <2>4, <3>2
    <3> QED
      BY <3>1, <3>2
  <2> QED
    BY <2>1, <2>3, <2>4 DEF CoverInv
<1>20. OutcomeInv'
  BY <1>5 DEF OutcomeInv, NilMeansComplete, Complete
<1> QED
  BY <1>1, <1>15, <1>16, <1>17, <1>18, <1>19, <1>20

\* A worker that leaves preserves the invariant.
LEMMA ExitStep ==
    ASSUME IInv, NEW w \in Workers, Exit(w)
    PROVE  IInv'
<1> USE DEF IInv, sequencer, seedFiles, outcome
<1>1. TypeOK'
  BY TypeWorker DEF Worker
<1>2. /\ wpc[w] = "idle" /\ wpc' = [wpc EXCEPT ![w] = "exit"]
      /\ UNCHANGED <<opt, main, file, plan, toValidate, current, fed, job, slot, from, written,
                     cache, gErr, cancelled, result, published>>
  BY DEF Exit
<1>3. wpc'[w] = "exit" /\ \A v \in Workers : v # w => wpc'[v] = wpc[v]
  BY <1>2 DEF TypeOK
<1>4. \A v \in Workers : Busy(v)' <=> Busy(v)
  BY <1>2, <1>3 DEF Busy
<1>5. FedEnd' = FedEnd
  BY <1>2 DEF FedEnd
<1>6. PlanInv' /\ OutcomeInv' /\ SelfSeedSound'
  BY <1>2 DEF PlanInv, OutcomeInv, NilMeansComplete, Complete, SelfSeedSound
<1>7. PhaseInv'
  BY <1>2, <1>3, <1>4 DEF PhaseInv, Exit
<1>8. SegmentInv'
  <2>1. \A v \in Workers : Busy(v) => wpc'[v] = wpc[v]
    BY <1>2, <1>3 DEF Busy
  <2> QED
    BY <1>2, <1>4, <1>5, <2>1 DEF SegmentInv
<1>9. WorkerDataInv'
  BY <1>2, <1>3 DEF WorkerDataInv, SegmentRight
<1>10. CoverInv'
  BY <1>2, <1>4, <1>5 DEF CoverInv, Covered
<1> QED
  BY <1>1, <1>6, <1>7, <1>8, <1>9, <1>10

-----------------------------------------------------------------------------
(* The theorems.                                                            *)

\* The invariant holds in the initial states.
LEMMA InitInv == Init => IInv
<1> SUFFICES ASSUME Init PROVE IInv
  OBVIOUS
<1>1. TypeOK
  BY TypeInit
<1>2. Len(idx) \in Nat /\ (Len(idx) = 0 => idx = <<>>) /\ FedEnd = 0
  BY OptType DEF Init, FedEnd
<1>3. \A w \in Workers : wpc[w] = "none" /\ ~Busy(w)
  BY DEF Init, Busy
<1>4. PlanInv
  BY DEF Init, PlanInv
<1>5. PhaseInv
  BY <1>3 DEF Init, PhaseInv
<1>6. SegmentInv
  BY <1>2, <1>3 DEF Init, SegmentInv
<1>7. SelfSeedSound
  BY DEF Init, SelfSeedSound
<1>8. WorkerDataInv
  BY <1>3 DEF WorkerDataInv, SegmentRight
<1>9. CoverInv
  BY <1>2 DEF CoverInv
<1>10. OutcomeInv
  BY DEF Init, OutcomeInv, NilMeansComplete
<1> QED
  BY <1>1, <1>4, <1>5, <1>6, <1>7, <1>8, <1>9, <1>10 DEF IInv

\* Every step preserves it.
LEMMA NextInv == IInv /\ [Next]_vars => IInv'
<1> SUFFICES ASSUME IInv, [Next]_vars PROVE IInv'
  OBVIOUS
<1>1. CASE Main
  BY <1>1, MainStep, FeedStep
<1>2. ASSUME NEW w \in Workers, Worker(w) PROVE IInv'
  <2>1. CASE Panic(w)
    <3>1. opt.mode = "tmp" => ~published
      BY <2>1 DEF Panic, IInv, OutcomeInv, PhaseInv, Busy
    <3> QED
      BY <2>1, <3>1, DeathStep DEF Panic
  <2> QED
    BY <1>2, <2>1, WorkerStep, AddStep, ExitStep DEF Worker
<1>3. CASE Environment
  BY <1>3, EnvironmentStep
<1>4. CASE UNCHANGED vars
  BY <1>4 DEF vars, sequencer, pool, seedFiles, outcome, IInv, TypeOK, PlanInv, PhaseInv,
     SegmentInv, SelfSeedSound, WorkerDataInv, SegmentRight, CoverInv, Covered, OutcomeInv,
     NilMeansComplete, Complete, Busy, FedEnd
<1> QED
  BY <1>1, <1>2, <1>3, <1>4 DEF Next, Ended

\* IInv is an invariant of AssembleFile, for every index, pool and seed.
THEOREM Invariance == Spec => []IInv
BY InitInv, NextInv, PTL DEF Spec

\* Every variable keeps its type.
THEOREM TypeCorrect == Spec => []TypeOK
<1>1. IInv => TypeOK
  BY DEF IInv
<1> QED
  BY <1>1, Invariance, PTL

\* The plan covers an index that has a chunk, once and in order.
THEOREM PlanPartition == Spec => []PlanCoversNonEmptyIndex
<1>1. IInv => PlanCoversNonEmptyIndex
  BY DEF IInv, PlanInv, PlanCoversNonEmptyIndex, PlanCoversIndex
<1> QED
  BY <1>1, Invariance, PTL

\* What the self-seed offers is written, whatever order the workers finish in.
THEOREM SelfSeedCorrect == Spec => []SelfSeedSound
<1>1. IInv => SelfSeedSound
  BY DEF IInv
<1> QED
  BY <1>1, Invariance, PTL

\* AssembleFile returns no error only for a complete file, unless cancelled.
THEOREM AssembleCorrect == Spec => []NilMeansComplete
<1>1. IInv => NilMeansComplete
  BY DEF IInv, OutcomeInv
<1> QED
  BY <1>1, Invariance, PTL

\* If nobody interrupts it, extract never replaces the output by less.
THEOREM PublishSafe ==
    ASSUME ~MayCancel
    PROVE  Spec => []PublishedComplete
<1>1. IInv => PublishedComplete
  BY BooleanAssumption DEF IInv, OutcomeInv, NilMeansComplete, PublishedComplete, TypeOK
<1> QED
  BY <1>1, Invariance, PTL

\* Slots recorded in the self-seed do not change while the run lasts.
THEOREM RecordedStable == Spec => RecordedSlotsStable
<1>1. ASSUME IInv, [Next]_vars
      PROVE  [main' \notin {"stat", "killed"} =>
                 \A i \in Slots : i < written => file'[i] = file[i]]_vars
  <2> SUFFICES ASSUME main' \notin {"stat", "killed"}, NEW i \in Slots, i < written
               PROVE  file'[i] = file[i]
    OBVIOUS
  <2>1. IInv'
    BY <1>1, NextInv
  <2>2. file[i] = idx[i]
    BY <1>1 DEF IInv, SelfSeedSound
  <2>3. ASSUME UNCHANGED file PROVE file'[i] = file[i]
    BY <2>3
  <2>4. CASE TruncateTarget
    BY <1>1, <2>4 DEF TruncateTarget, TruncatedTarget, IInv, PhaseInv
  <2>5. CASE Setup
    BY <2>3, <2>5 DEF Setup
  <2>6. ASSUME opt' = opt, i < written' PROVE file'[i] = file[i]
    BY <2>1, <2>2, <2>6 DEF IInv, SelfSeedSound
  <2>7. CASE Main
    <3>1. TruncateTarget \/ UNCHANGED file
      BY <2>7 DEF Main, StatTarget, Setup, PlanNext, OpenSeeds, ValidateEntry, ValidateEnd,
         InvalidPlan, FeedEnd, WaitWorkers, Finish, Feed
    <3> QED
      BY <2>3, <2>4, <3>1
  <2>8. ASSUME NEW w \in Workers, Worker(w) PROVE file'[i] = file[i]
    <3>1. CASE Add(w)
      BY <2>3, <3>1 DEF Add
    <3>2. CASE Panic(w)
      BY <3>2 DEF Panic, ProcessDies
    <3>3. CASE ~Add(w) /\ ~Panic(w)
      <4>1. opt' = opt /\ written' = written
        BY <2>8, <3>3 DEF Worker, CopyChunk, VerifyChunk, WriteChunk, SelfCopy, FetchChunk,
           WorkerFail, Exit
      <4> QED
        BY <2>6, <4>1
    <3> QED
      BY <3>1, <3>2, <3>3
  <2>9. CASE Environment
    BY <2>3, <2>9 DEF Environment, Kill, ProcessDies, Restart, Cancel, SeedChange
  <2>10. CASE UNCHANGED vars
    BY <2>3, <2>10 DEF vars
  <2> QED
    BY <1>1, <2>7, <2>8, <2>9, <2>10 DEF Next, Ended
<1> QED
  BY <1>1, Invariance, PTL DEF RecordedSlotsStable, Spec

-----------------------------------------------------------------------------
(* Seeds that are invalid, and the self-seed at the end.                    *)

\* Next takes no segment from a seed that is marked invalid.
LEMMA CandidateValid ==
    ASSUME TypeOK, NEW first, NEW c \in NextCandidates(first)
    PROVE  c.src \notin invalid
<1>1. invalid \subseteq 1..NSeeds /\ NSeeds \in Nat
  BY CountAssumption DEF TypeOK
<1>2. CASE SeedMatches(first) = {}
  BY <1>1, <1>2 DEF NextCandidates, FromStoreCandidate
<1>3. CASE SeedMatches(first) # {}
  <2>1. c \in SeedMatches(first)
    BY <1>3 DEF NextCandidates
  <2>2. Matches(c.src, c.pos, c.first, c.last)
    BY <2>1 DEF SeedMatches
  <2> QED
    BY <2>2 DEF Matches
<1> QED
  BY <1>2, <1>3

\* The steps of AssembleFile keep the plan free of invalid seeds, or reject it.
LEMMA ValidMain == IInv /\ ValidInv /\ Main => ValidInv'
<1> SUFFICES ASSUME IInv, ValidInv, Main PROVE ValidInv'
  OBVIOUS
<1> USE DEF sequencer, pool, seedFiles, outcome, Return
<1>0. TypeOK /\ plan \in Seq(Entries) /\ Len(plan) \in Nat /\ valErrs \in Nat
  BY DEF IInv, TypeOK
<1>1. CASE StatTarget
  BY <1>1 DEF StatTarget, ValidInv
<1>2. CASE TruncateTarget
  BY <1>2 DEF TruncateTarget, ValidInv
<1>3. ASSUME NoPlan PROVE ValidInv'
  BY <1>3 DEF NoPlan, ValidInv, PlanValid
<1>4. CASE PlanNext
  <2>1. PICK c \in NextCandidates(current) : plan' = Append(plan, c)
    BY <1>4 DEF PlanNext
  <2>2. c.src \notin invalid /\ invalid' = invalid /\ PlanValid
    BY <1>0, <1>4, <2>1, CandidateValid DEF PlanNext, ValidInv
  <2>3. ASSUME NEW j \in 1..Len(plan')
        PROVE  plan'[j].src \notin invalid
    <3>1. Len(plan') = Len(plan) + 1
      BY <1>0, <2>1
    <3>2. CASE j \in 1..Len(plan)
      BY <1>0, <2>1, <2>2, <3>2 DEF PlanValid
    <3>3. CASE j = Len(plan) + 1
      BY <1>0, <2>1, <2>2, <3>3
    <3> QED
      BY <1>0, <3>1, <3>2, <3>3
  <2> QED
    BY <2>2, <2>3 DEF ValidInv, PlanValid
<1>5. CASE OpenSeeds
  <2>1. PlanValid /\ plan' = plan
    BY <1>5 DEF OpenSeeds, ValidInv
  <2>2. main' = "invalid" \/ invalid' = invalid
    BY <1>5 DEF OpenSeeds
  <2> QED
    BY <2>1, <2>2 DEF ValidInv, PlanValid
<1>6. CASE ValidateEntry
  <2>1. main = "validate" /\ UNCHANGED <<main, plan>>
    BY <1>6 DEF ValidateEntry
  <2>2. UNCHANGED <<invalid, valErrs>> \/ valErrs' = valErrs + 1
    BY <1>6 DEF ValidateEntry
  <2> QED
    BY <1>0, <2>1, <2>2 DEF ValidInv, PlanValid
<1>7. CASE ValidateEnd
  <2>1. main' = "feed" => valErrs = 0
    BY <1>0, <1>7 DEF ValidateEnd, PlanRejected
  <2>2. main = "validate" /\ main' \in {"invalid", "feed"} /\ UNCHANGED <<plan, invalid>>
    BY <1>7 DEF ValidateEnd
  <2> QED
    BY <2>1, <2>2 DEF ValidInv, PlanValid
<1>8. CASE InvalidPlan
  <2>1. NoPlan \/ main' = "return"
    BY <1>8 DEF InvalidPlan
  <2> QED
    BY <1>3, <2>1 DEF ValidInv
<1>9. CASE FeedEnd
  BY <1>9 DEF FeedEnd, ValidInv, PlanValid
<1>10. CASE WaitWorkers \/ Finish
  BY <1>10 DEF WaitWorkers, Finish, ValidInv
<1>11. ASSUME NEW w \in Workers, Feed(w) PROVE ValidInv'
  BY <1>11 DEF Feed, ValidInv, PlanValid
<1>12. CASE Setup
  BY <1>3, <1>12 DEF Setup
<1> QED
  BY <1>1, <1>2, <1>4, <1>5, <1>6, <1>7, <1>8, <1>9, <1>10, <1>11, <1>12 DEF Main

\* So does everything else: only AssembleFile plans and validates.
LEMMA ValidNext == IInv /\ ValidInv /\ [Next]_vars => ValidInv'
<1> SUFFICES ASSUME IInv, ValidInv, [Next]_vars PROVE ValidInv'
  OBVIOUS
<1> USE DEF sequencer, pool, seedFiles, outcome
<1>1. ASSUME UNCHANGED <<main, plan, invalid, valErrs>> PROVE ValidInv'
  BY <1>1 DEF ValidInv, PlanValid
<1>2. ASSUME NoPlan PROVE ValidInv'
  BY <1>2 DEF NoPlan, ValidInv, PlanValid
<1>3. ASSUME NEW w \in Workers, Worker(w) PROVE ValidInv'
  <2>1. CASE Panic(w)
    BY <1>2, <2>1 DEF Panic, ProcessDies
  <2>2. CASE ~Panic(w)
    BY <1>1, <1>3, <2>2 DEF Worker, CopyChunk, VerifyChunk, WriteChunk, SelfCopy, FetchChunk,
       WorkerFail, Add, Exit
  <2> QED
    BY <2>1, <2>2
<1>4. CASE Environment
  BY <1>1, <1>2, <1>4 DEF Environment, Kill, ProcessDies, Restart, Cancel, SeedChange
<1>5. CASE UNCHANGED vars
  BY <1>1, <1>5 DEF vars
<1> QED
  BY <1>3, <1>4, <1>5, ValidMain DEF Next, Ended

\* The workers are never given a segment of a seed that is known to be invalid.
THEOREM InvalidSeedsNeverUsed == Spec => []InvalidSeedsUnused
<1>1. Init => ValidInv
  BY DEF Init, ValidInv, PlanValid
<1>2. ValidInv => InvalidSeedsUnused
  BY DEF ValidInv, InvalidSeedsUnused
<1> QED
  BY <1>1, <1>2, ValidNext, Invariance, PTL DEF Spec

\* When the workers are gone and nothing failed, selfSeed.written has passed
\* the last chunk and no segment is left behind a gap.
LEMMA DrainedAtEnd ==
    ASSUME IInv, main = "wait", ~gErr, ~cancelled, \A w \in Workers : ~Busy(w)
    PROVE  written = Len(idx) + 1 /\ cache = {}
<1> USE DEF IInv
<1>1. Len(idx) \in Nat /\ Len(plan) \in Nat /\ fed \in Nat /\ written \in 1..(Len(idx) + 1)
  BY OptType DEF TypeOK
<1>2. fed = Len(plan) + 1 /\ plan # <<>> /\ (plan[Len(plan)].last = Len(idx) \/ idx = <<>>)
  BY <1>1 DEF PhaseInv, PlanInv
<1>3. cache \subseteq [first : Nat, last : Nat]
  BY DEF TypeOK
<1>4. ASSUME written <= Len(idx) PROVE FALSE
  <2>1. idx # <<>> /\ FedEnd = Len(idx)
    BY <1>1, <1>2, <1>4 DEF FedEnd, TypeOK
  <2>2. written < written \/ Covered(cache, written)
    BY <1>1, <1>4, <2>1 DEF CoverInv
  <2>3. PICK c \in cache : c.first <= written
    BY <1>1, <2>2 DEF Covered
  <2>4. written < c.first /\ c.first \in Nat
    BY <1>3 DEF SegmentInv
  <2> QED
    BY <1>1, <2>3, <2>4
<1>5. written = Len(idx) + 1
  BY <1>1, <1>4
<1>6. ASSUME NEW c \in cache PROVE FALSE
  <2>1. written < c.first /\ c.first <= c.last /\ c.last <= Len(idx)
    BY DEF SegmentInv
  <2>2. c.first \in Nat /\ c.last \in Nat
    BY <1>3
  <2> QED
    BY <1>1, <1>5, <2>1, <2>2
<1> QED
  BY <1>5, <1>6

\* A run that succeeds leaves the self-seed with the whole index written.
THEOREM SelfSeedComplete == Spec => []SelfSeedDrained
<1>1. Init => SelfSeedDrained
  BY DEF Init, SelfSeedDrained
<1>2. ASSUME IInv, SelfSeedDrained, [Next]_vars PROVE SelfSeedDrained'
  <2> SUFFICES ASSUME result' = "nil", ~cancelled', main' = "return"
               PROVE  written' = Len(idx') + 1 /\ cache' = {}
    BY DEF SelfSeedDrained
  <2> USE DEF sequencer, pool, seedFiles, outcome, Return
  <2>1. CASE WaitWorkers
    <3>1. main = "wait" /\ ~gErr /\ ~cancelled /\ UNCHANGED <<written, cache, opt>>
      BY <2>1 DEF WaitWorkers
    <3>2. \A w \in Workers : ~Busy(w)
      BY <2>1 DEF WaitWorkers, Busy
    <3> QED
      BY <1>2, <3>1, <3>2, DrainedAtEnd
  <2>2. ASSUME main = "return", UNCHANGED <<written, cache, opt, result>>, ~cancelled
        PROVE  written' = Len(idx') + 1 /\ cache' = {}
    BY <1>2, <2>2 DEF SelfSeedDrained
  <2>3. CASE Main /\ ~WaitWorkers
    <3>1. result # "nil" \/ main \in {"return", "done"}
      BY <1>2 DEF IInv, OutcomeInv
    <3> QED
      BY <2>3, <3>1 DEF Main, StatTarget, TruncateTarget, Setup, PlanNext, OpenSeeds,
         ValidateEntry, ValidateEnd, InvalidPlan, FeedEnd, Finish, Feed
  <2>4. ASSUME NEW w \in Workers, Worker(w) PROVE FALSE
    <3>1. \A v \in Workers : main = "return" => ~Busy(v)
      BY <1>2 DEF IInv, PhaseInv
    <3> QED
      BY <2>4, <3>1 DEF Busy, Worker, CopyChunk, VerifyChunk, WriteChunk, SelfCopy, FetchChunk,
         WorkerFail, Add, Exit, Panic, ProcessDies
  <2>5. CASE Environment
    BY <2>2, <2>5 DEF Environment, Kill, ProcessDies, Restart, Cancel, SeedChange
  <2>6. CASE UNCHANGED vars
    BY <2>2, <2>6 DEF vars
  <2> QED
    BY <1>2, <2>1, <2>3, <2>4, <2>5, <2>6 DEF Next, Ended
<1> QED
  BY <1>1, <1>2, Invariance, PTL DEF Spec

-----------------------------------------------------------------------------
(* Chunks that are in their place already.                                  *)

\* What a worker outside WriteInto is about to put into its slot is the chunk
\* of the index: it comes from a verified slot or from the store.
LEMMA IncomingRight ==
    ASSUME IInv, NEW w \in Workers, wpc[w] \in {"self", "fetch"}, slot[w] \in Slots
    PROVE  /\ Incoming(w) = idx[slot[w]]
           /\ wpc[w] = "self" => file[from[w]] = idx[slot[w]]
<1>1. CASE wpc[w] = "self"
  <2>1. from[w] \in Slots /\ from[w] < written /\ idx[from[w]] = idx[slot[w]]
    BY <1>1 DEF IInv, WorkerDataInv, SegmentRight
  <2>2. file[from[w]] = idx[from[w]]
    BY <2>1 DEF IInv, SelfSeedSound
  <2> QED
    BY <1>1, <2>1, <2>2 DEF Incoming
<1>2. CASE wpc[w] = "fetch"
  BY <1>2 DEF Incoming
<1> QED
  BY <1>1, <1>2

\* A write that is torn damages only a slot that has to change.
LEMMA TornIsWrong ==
    ASSUME IInv, NEW w \in Workers, Tearing(w), wpc[w] # "copy"
    PROVE  slot[w] \in Slots /\ file[slot[w]] # idx[slot[w]]
BY IncomingRight DEF Tearing

\* A chunk that is in its place stays there, except under a seed copy: also
\* when a write fails, the process is killed, and extract is started again.
THEOREM CorrectKept == Spec => CorrectChunksKept
<1>1. ASSUME IInv, [Next]_vars
      PROVE  [opt.mode # "tmp" =>
                 \A i \in Slots :
                     file[i] = idx[i] /\ (\A w \in Workers : wpc[w] = "copy" => slot[w] # i)
                         => file'[i] = idx[i]]_vars
  <2> SUFFICES ASSUME opt.mode # "tmp", NEW i \in Slots, file[i] = idx[i],
                      \A w \in Workers : wpc[w] = "copy" => slot[w] # i
               PROVE  file'[i] = idx[i]
    OBVIOUS
  <2>1. file \in [Slots -> Contents \cup {NoData}]
    BY <1>1 DEF IInv, TypeOK
  <2>2. idx[i] # NoData
    BY <1>1, OptType, ContentAssumption DEF IInv, TypeOK, Contents
  <2>3. CASE Main
    <3>1. TruncateTarget \/ UNCHANGED file
      BY <2>3 DEF Main, StatTarget, Setup, PlanNext, OpenSeeds, ValidateEntry, ValidateEnd,
         InvalidPlan, FeedEnd, WaitWorkers, Finish, Feed
    <3> QED
      BY <2>2, <3>1 DEF TruncateTarget, TruncatedTarget
  <2>4. ASSUME NEW w \in Workers, Worker(w) PROVE file'[i] = idx[i]
    <3>1. CASE CopyChunk(w)
      BY <2>1, <3>1 DEF CopyChunk
    <3>2. CASE SelfCopy(w)
      BY <1>1, <2>1, <3>2, IncomingRight DEF SelfCopy
    <3>3. CASE FetchChunk(w)
      BY <2>1, <3>3 DEF FetchChunk
    <3>4. CASE WorkerFail(w)
      <4>1. CASE UNCHANGED file
        BY <4>1
      <4>2. CASE Tearing(w) /\ file' = [file EXCEPT ![slot[w]] = Junk]
        <5>1. slot[w] # i
          BY <1>1, <4>2, TornIsWrong
        <5> QED
          BY <2>1, <4>2, <5>1
      <4> QED
        BY <3>4, <4>1, <4>2 DEF WorkerFail
    <3>5. CASE Panic(w)
      BY <3>5 DEF Panic, ProcessDies
    <3>6. CASE VerifyChunk(w) \/ WriteChunk(w) \/ Add(w) \/ Exit(w)
      BY <3>6 DEF VerifyChunk, WriteChunk, Add, Exit
    <3> QED
      BY <2>4, <3>1, <3>2, <3>3, <3>4, <3>5, <3>6 DEF Worker
  <2>5. CASE Environment
    <3>1. CASE Kill
      <4>1. PICK torn \in SUBSET {slot[w] : w \in {v \in Workers : Tearing(v)}} :
                ProcessDies(torn)
        BY <3>1 DEF Kill
      <4>2. i \notin torn
        BY <1>1, <4>1, TornIsWrong
      <4> QED
        BY <4>1, <4>2 DEF ProcessDies
    <3>2. CASE Restart
      BY <3>2 DEF Restart
    <3>3. CASE Cancel \/ \E s \in SeedIDs : SeedChange(s)
      BY <3>3 DEF Cancel, SeedChange
    <3> QED
      BY <2>5, <3>1, <3>2, <3>3 DEF Environment
  <2>6. CASE UNCHANGED vars
    BY <2>6 DEF vars
  <2> QED
    BY <1>1, <2>3, <2>4, <2>5, <2>6 DEF Next, Ended
<1> QED
  BY <1>1, Invariance, PTL DEF CorrectChunksKept, Spec

-----------------------------------------------------------------------------
(* The refinement of Extract.                                               *)

\* In place nothing takes the name of the output away from the file.
LEMMA InPlaceNext == InPlaceInv /\ [Next]_vars => InPlaceInv'
<1> SUFFICES ASSUME InPlaceInv, [Next]_vars PROVE InPlaceInv'
  OBVIOUS
<1>1. opt' = opt /\ (published' = published \/ published' = (published \/ MayRename))
  <2>1. CASE Main
    BY <2>1 DEF Main, StatTarget, TruncateTarget, Setup, PlanNext, OpenSeeds, ValidateEntry,
       ValidateEnd, InvalidPlan, FeedEnd, WaitWorkers, Finish, Feed, outcome
  <2>2. ASSUME NEW w \in Workers, Worker(w) PROVE opt' = opt /\ published' = published
    BY <2>2 DEF Worker, CopyChunk, VerifyChunk, WriteChunk, SelfCopy, FetchChunk, WorkerFail,
       Add, Exit, Panic, ProcessDies, outcome
  <2>3. CASE Environment
    BY <2>3 DEF Environment, Kill, ProcessDies, Restart, Cancel, SeedChange, outcome
  <2>4. CASE UNCHANGED vars
    BY <2>4 DEF vars, outcome
  <2> QED
    BY <2>1, <2>2, <2>3, <2>4 DEF Next, Ended
<1> QED
  BY <1>1 DEF InPlaceInv

\* What runs has not replaced an output that it writes to a temporary file.
LEMMA RunningOutput ==
    ASSUME IInv, InPlaceInv, Running
    PROVE  /\ ExtractPhase = "running"
           /\ opt.mode = "tmp" => Output = "old"
           /\ opt.mode # "tmp" => Output = (IF Complete THEN "blob" ELSE "other")
<1>1. main # "killed" /\ main # "done"
  BY DEF Running
<1>2. ExtractPhase = "running"
  BY <1>1 DEF ExtractPhase
<1>3. opt.mode = "tmp" => ~published
  BY <1>1 DEF IInv, OutcomeInv
<1> QED
  BY <1>2, <1>3 DEF Output, InPlaceInv

\* The program starts where Extract does.
LEMMA ExtractInit == Init => Promise!Init
<1> SUFFICES ASSUME Init PROVE Promise!Init
  OBVIOUS
<1>1. ExtractPhase = "running" /\ cancelled = FALSE
  BY DEF Init, ExtractPhase
<1>2. Output \in IF opt.mode # "tmp" THEN {"blob", "other"} ELSE {"old"}
  BY DEF Init, Output
<1> QED
  BY <1>1, <1>2 DEF Promise!Init

\* While the program goes on, data is written in place or nothing is seen.
LEMMA GoingOn ==
    ASSUME IInv, InPlaceInv, IInv', InPlaceInv', Running, Running',
           opt' = opt, cancelled' = cancelled
    PROVE  Promise!Write \/ UNCHANGED Promise!vars
<1>1. ExtractPhase = "running" /\ ExtractPhase' = "running"
  BY RunningOutput DEF ExtractPhase, Running
<1>2. CASE opt.mode = "tmp"
  <2>1. ~published'
    BY <1>2 DEF IInv, OutcomeInv, Running
  <2>2. Output = "old" /\ Output' = "old"
    BY <1>2, <2>1, RunningOutput DEF Output
  <2> QED
    BY <1>1, <2>2 DEF Promise!vars
<1>3. CASE opt.mode # "tmp"
  <2>1. Output' \in {"blob", "other"}
    BY <1>3 DEF Output, InPlaceInv
  <2> QED
    BY <1>1, <1>3, <2>1 DEF Promise!Write
<1> QED
  BY <1>2, <1>3

\* The end of a run: the output is replaced in it, or not at all.
LEMMA FinishIsEnd ==
    ASSUME IInv, InPlaceInv, IInv', Finish
    PROVE  Promise!Succeed \/ Promise!Fail
<1>1. /\ opt' = opt /\ cancelled' = cancelled /\ file' = file
      /\ main = "return" /\ main' = "done" /\ Running
  BY DEF Finish, Running
<1>2. ExtractPhase = "running"
  BY <1>1, RunningOutput
<1>3. Complete' = Complete
  BY <1>1 DEF Complete, Slots, idx
<1>4. CASE result' = "nil"
  <2>1. ExtractPhase' = "ok"
    BY <1>1, <1>4 DEF ExtractPhase
  <2>2. result = "nil" /\ published'
    BY <1>4 DEF Finish, MayRename
  <2>3. Output' = IF Complete THEN "blob" ELSE "other"
    BY <1>3, <2>2 DEF Output
  <2>4. opt.mode # "tmp" => Output' = Output
    BY <1>1, <2>3, RunningOutput
  <2>5. ~cancelled => Complete
    BY <2>2 DEF IInv, OutcomeInv, NilMeansComplete
  <2>6. Output' = "blob" \/ cancelled
    BY <2>3, <2>5
  <2>7. Output' \in IF opt.mode # "tmp" THEN {Output} ELSE {"blob", "other"}
    BY <2>3, <2>4
  <2> QED
    BY <1>1, <1>2, <2>1, <2>6, <2>7 DEF Promise!Succeed
<1>5. CASE result' # "nil"
  <2>1. ExtractPhase' = "failed"
    BY <1>1, <1>5 DEF ExtractPhase
  <2>2. published' = published
    BY <1>5, <1>1 DEF Finish, MayRename, IInv, TypeOK
  <2>3. Output' = Output
    BY <1>3, <2>2 DEF Output
  <2> QED
    BY <1>1, <1>2, <2>1, <2>3 DEF Promise!Fail
<1> QED
  BY <1>4, <1>5

\* A death: torn writes are seen only in place, and never make the blob.
LEMMA DeathIsDie ==
    ASSUME IInv, InPlaceInv, Running, NEW torn, ProcessDies(torn)
    PROVE  Promise!Die
<1>1. /\ opt' = opt /\ cancelled' = cancelled /\ published' = published
      /\ main' = "killed" /\ file' = [i \in Slots |-> IF i \in torn THEN Junk ELSE file[i]]
  BY DEF ProcessDies
<1>2. ExtractPhase = "running" /\ ExtractPhase' = "killed"
  BY <1>1, RunningOutput DEF ExtractPhase
<1>3. Complete' => Complete
  <2> SUFFICES ASSUME Complete', NEW i \in Slots PROVE file[i] = idx[i]
    BY DEF Complete
  <2>1. file'[i] = idx[i]
    BY <1>1 DEF Complete, Slots, idx
  <2>2. idx[i] # Junk
    BY OptType, ContentAssumption DEF IInv, TypeOK, Slots
  <2> QED
    BY <1>1, <2>1, <2>2
<1>4. CASE opt.mode = "tmp"
  <2>1. Output = "old" /\ ~published
    BY <1>4, RunningOutput DEF Output
  <2>2. Output' = Output
    BY <1>1, <2>1 DEF Output
  <2> QED
    BY <1>1, <1>2, <2>2 DEF Promise!Die
<1>5. CASE opt.mode # "tmp"
  <2>1. published /\ Output = IF Complete THEN "blob" ELSE "other"
    BY <1>5, RunningOutput DEF InPlaceInv
  <2>2. Output' = IF Complete' THEN "blob" ELSE "other"
    BY <1>1, <2>1 DEF Output
  <2>3. Output' = Output \/ Output' = "other"
    BY <1>3, <2>1, <2>2
  <2> QED
    BY <1>1, <1>2, <1>5, <2>3 DEF Promise!Die
<1> QED
  BY <1>4, <1>5

\* Another run begins with the output as the last one left it.
LEMMA RestartIsRestart ==
    ASSUME IInv, InPlaceInv, Restart
    PROVE  Promise!Restart
<1>1. /\ opt' = opt /\ published' = published /\ cancelled' = FALSE
      /\ result # "nil" \/ main = "killed"
      /\ main' = "stat" /\ main \in {"killed", "done"}
      /\ file' = IF opt.mode = "tmp" THEN Empty ELSE file
  BY DEF Restart
<1>2. ExtractPhase \in {"failed", "killed"} /\ ExtractPhase' = "running"
  BY <1>1 DEF ExtractPhase
<1>3. opt.mode = "tmp" => ~published
  BY <1>1 DEF IInv, OutcomeInv
<1>4. CASE opt.mode = "tmp"
  BY <1>1, <1>2, <1>3, <1>4 DEF Output, Promise!Restart
<1>5. CASE opt.mode # "tmp"
  <2>1. Complete' = Complete
    BY <1>1, <1>5 DEF Complete, Slots, idx
  <2>2. Output' = Output
    BY <1>1, <2>1 DEF Output
  <2> QED
    BY <1>1, <1>2, <2>2 DEF Promise!Restart
<1> QED
  BY <1>4, <1>5

\* Every step of the program is a step of Extract, or nothing is seen of it.
LEMMA ExtractStep ==
    IInv /\ InPlaceInv /\ IInv' /\ InPlaceInv' /\ [Next]_vars => [Promise!Next]_Promise!vars
<1> SUFFICES ASSUME IInv, InPlaceInv, IInv', InPlaceInv', [Next]_vars
             PROVE  [Promise!Next]_Promise!vars
  OBVIOUS
<1>1. CASE Main
  <2>1. CASE Finish
    BY <2>1, FinishIsEnd DEF Promise!Next
  <2>2. CASE ~Finish
    <3>1. opt' = opt /\ cancelled' = cancelled /\ Running /\ Running'
      BY <1>1, <2>2 DEF Main, StatTarget, TruncateTarget, Setup, PlanNext, OpenSeeds,
         ValidateEntry, ValidateEnd, InvalidPlan, FeedEnd, WaitWorkers, Feed, Return, outcome,
         Running
    <3> QED
      BY <3>1, GoingOn DEF Promise!Next
  <2> QED
    BY <2>1, <2>2
<1>2. ASSUME NEW w \in Workers, Worker(w) PROVE [Promise!Next]_Promise!vars
  <2>1. main \in {"feed", "wait"} \/ Exit(w)
    BY <1>2 DEF Worker, CopyChunk, VerifyChunk, WriteChunk, SelfCopy, FetchChunk, WorkerFail,
       Add, Panic, IInv, PhaseInv, Busy
  <2>2. Running
    BY <2>1 DEF Running, Exit
  <2>3. CASE Panic(w)
    BY <2>2, <2>3, DeathIsDie DEF Panic, Promise!Next
  <2>4. CASE ~Panic(w)
    <3>1. opt' = opt /\ cancelled' = cancelled /\ main' = main
      BY <1>2, <2>4 DEF Worker, CopyChunk, VerifyChunk, WriteChunk, SelfCopy, FetchChunk,
         WorkerFail, Add, Exit, outcome
    <3> QED
      BY <2>2, <3>1, GoingOn DEF Promise!Next, Running
  <2> QED
    BY <2>3, <2>4
<1>3. CASE Environment
  <2>1. CASE Kill
    BY <2>1, DeathIsDie DEF Kill, Promise!Next
  <2>2. CASE Restart
    BY <2>2, RestartIsRestart DEF Promise!Next
  <2>3. CASE Cancel
    <3>1. /\ opt' = opt /\ main' = main /\ file' = file /\ cancelled' = TRUE
          /\ published' = published /\ result' = result /\ Running
      BY <2>3 DEF Cancel
    <3>2. ExtractPhase = "running" /\ ExtractPhase' = ExtractPhase
      BY <3>1, RunningOutput DEF ExtractPhase
    <3>3. Output' = Output
      BY <3>1 DEF Output, Complete, Slots, idx
    <3> QED
      BY <3>1, <3>2, <3>3 DEF Promise!Interrupt, Promise!Next
  <2>4. ASSUME NEW s \in SeedIDs, SeedChange(s) PROVE [Promise!Next]_Promise!vars
    <3>1. opt' = opt /\ main' = main /\ cancelled' = cancelled /\ Running
      BY <2>4 DEF SeedChange, outcome
    <3> QED
      BY <3>1, GoingOn DEF Promise!Next, Running
  <2> QED
    BY <1>3, <2>1, <2>2, <2>3, <2>4 DEF Environment
<1>4. CASE UNCHANGED vars
  BY <1>4 DEF vars, outcome, Promise!vars, ExtractPhase, Output, Complete, Slots, idx
<1> QED
  BY <1>1, <1>2, <1>3, <1>4 DEF Next, Ended

\* AssembleFile with writeWithTmpFile is Extract, for every index and pool, with
\* seeds that change, failures, deaths, restarts and interrupts: the output is
\* replaced at once and by the whole blob, or it is left as it was.
THEOREM AssembleIsExtract == Spec => ImplementsExtract
<1>1. Init => InPlaceInv
  BY DEF Init, InPlaceInv
<1>2. Spec => []InPlaceInv
  BY <1>1, InPlaceNext, PTL DEF Spec
<1> QED
  BY <1>2, Invariance, ExtractInit, ExtractStep, PTL DEF Spec, ImplementsExtract, Promise!Spec

-----------------------------------------------------------------------------
(* The sequencer and the self-seed never have to wait, and choose one way.  *)

Less == {ss \in Nat \X Nat : ss[1] < ss[2]}

\* Every set of natural numbers that is not empty has a least element.
LEMMA LeastElement ==
    ASSUME NEW S \in SUBSET Nat, S # {}
    PROVE  \E m \in S : \A y \in S : m <= y
<1>1. IsWellFoundedOn(Less, Nat)
  BY NatLessThanWellFounded DEF OpToRel, Less
<1>2. PICK m \in S : \A y \in S : ~(<<y, m>> \in Less)
  BY <1>1, WFMin
<1>3. ASSUME NEW y \in S PROVE m <= y
  <2>1. <<y, m>> \in Nat \X Nat /\ ~(y < m)
    BY <1>2 DEF Less
  <2> QED
    BY <2>1
<1> QED
  BY <1>3

\* The fields of a match with a seed.
LEMMA MatchFields ==
    ASSUME TypeOK, NEW first \in Nat, NEW c \in SeedMatches(first)
    PROVE  /\ c = [first |-> first, last |-> c.last, src |-> c.src, pos |-> c.pos]
           /\ c.last \in Nat /\ first <= c.last /\ c.last <= Len(idx)
           /\ c.src \in Nat /\ c.pos \in Nat
<1>1. Len(idx) \in Nat /\ \A s \in 1..NSeeds : Len(seedIndex[s]) \in Nat
  BY OptType DEF TypeOK
<1>2. CASE c \in [first : {first}, last : first..Len(idx), src : {0}, pos : {1}]
  BY <1>1, <1>2
<1>3. ASSUME NEW s \in 1..NSeeds,
             c \in [first : {first}, last : first..Len(idx), src : {s},
                    pos : 1..Len(seedIndex[s])]
      PROVE  /\ c = [first |-> first, last |-> c.last, src |-> c.src, pos |-> c.pos]
             /\ c.last \in Nat /\ first <= c.last /\ c.last <= Len(idx)
             /\ c.src \in Nat /\ c.pos \in Nat
  <2>1. /\ c.first = first /\ c.last \in first..Len(idx)
        /\ c.src = s /\ c.pos \in 1..Len(seedIndex[s])
        /\ c = [first |-> c.first, last |-> c.last, src |-> c.src, pos |-> c.pos]
    BY <1>3
  <2>2. c.last \in Nat /\ c.pos \in Nat /\ first <= c.last /\ c.last <= Len(idx)
    BY <1>1, <2>1
  <2> QED
    BY <2>1, <2>2, CountAssumption
<1> QED
  BY <1>2, <1>3 DEF SeedMatches

\* One of the matches is preferred to all: the longest, of the first seed that
\* has one as long, at its first position.
LEMMA PreferredExists ==
    ASSUME TypeOK, NEW first \in Nat, SeedMatches(first) # {}
    PROVE  \E c \in SeedMatches(first) : \A d \in SeedMatches(first) : Preferred(c, d)
<1> DEFINE S    == SeedMatches(first)
           Rest == {Len(idx) - c.last : c \in S}
<1>0. Len(idx) \in Nat
  BY OptType DEF TypeOK
<1>1. \A c \in S : /\ c.last \in Nat /\ c.last <= Len(idx)
                   /\ c.src \in Nat /\ c.pos \in Nat
  BY MatchFields
<1>2. Rest \in SUBSET Nat /\ Rest # {}
  BY <1>0, <1>1
<1>3. PICK r \in Rest : \A y \in Rest : r <= y
  <2> HIDE DEF Rest
  <2> QED
    BY <1>2, LeastElement
<1>4. PICK a \in S : r = Len(idx) - a.last
  BY <1>3
<1>5. ASSUME NEW d \in S PROVE d.last <= a.last
  <2>1. Len(idx) - d.last \in Rest
    OBVIOUS
  <2>2. Len(idx) - a.last <= Len(idx) - d.last
    BY <1>3, <1>4, <2>1
  <2>3. a.last \in Nat /\ d.last \in Nat
    BY <1>1
  <2> QED
    BY <1>0, <2>2, <2>3
<1> DEFINE Longest == {c \in S : c.last = a.last}
           Seeds   == {c.src : c \in Longest}
<1>6. Seeds \in SUBSET Nat /\ Seeds # {}
  BY <1>1, <1>4
<1>7. PICK s \in Seeds : \A y \in Seeds : s <= y
  <2> HIDE DEF Seeds
  <2> QED
    BY <1>6, LeastElement
<1> DEFINE First   == {c \in Longest : c.src = s}
           Places  == {c.pos : c \in First}
<1>8. Places \in SUBSET Nat /\ Places # {}
  BY <1>1, <1>7
<1>9. PICK p \in Places : \A y \in Places : p <= y
  <2> HIDE DEF Places
  <2> QED
    BY <1>8, LeastElement
<1>10. PICK c \in First : c.pos = p
  BY <1>9
<1>11. c \in S /\ c.last = a.last /\ c.src = s
  BY <1>10
<1>12. ASSUME NEW d \in S PROVE Preferred(c, d)
  <2>1. d.last < a.last \/ d.last = a.last
    BY <1>1, <1>4, <1>5
  <2>2. d.last = a.last => s <= d.src
    BY <1>7
  <2>3. d.last = a.last /\ d.src = s => p <= d.pos
    BY <1>9
  <2>4. d.src \in Nat /\ s \in Nat
    BY <1>1, <1>11
  <2> HIDE DEF S, Rest, Longest, Seeds, First, Places
  <2> QED
    BY <1>10, <1>11, <2>1, <2>2, <2>3, <2>4 DEF Preferred
<1> QED
  BY <1>11, <1>12

\* Two matches that are each preferred to the other are the same.
LEMMA PreferredUnique ==
    ASSUME TypeOK, NEW first \in Nat, NEW c \in SeedMatches(first), NEW d \in SeedMatches(first),
           Preferred(c, d), Preferred(d, c)
    PROVE  c = d
<1>1. /\ c.last \in Nat /\ c.src \in Nat /\ c.pos \in Nat
      /\ d.last \in Nat /\ d.src \in Nat /\ d.pos \in Nat
  BY MatchFields
<1>2. c.last = d.last /\ c.src = d.src /\ c.pos = d.pos
  BY <1>1 DEF Preferred
<1>3. /\ c = [first |-> first, last |-> c.last, src |-> c.src, pos |-> c.pos]
      /\ d = [first |-> first, last |-> d.last, src |-> d.src, pos |-> d.pos]
  BY MatchFields, Zenon
<1> QED
  BY <1>2, <1>3, Zenon

\* SeedSequencer.Next has one answer, whatever the seeds are.
LEMMA NextDetermined ==
    ASSUME TypeOK, NEW first \in Nat
    PROVE  \E c : NextCandidates(first) = {c}
<1>1. CASE SeedMatches(first) = {}
  BY <1>1 DEF NextCandidates
<1>2. CASE SeedMatches(first) # {}
  <2>1. PICK c \in SeedMatches(first) : \A d \in SeedMatches(first) : Preferred(c, d)
    BY <1>2, PreferredExists
  <2>2. c \in NextCandidates(first)
    BY <1>2, <2>1 DEF NextCandidates
  <2>3. ASSUME NEW d \in NextCandidates(first) PROVE d = c
    <3>1. d \in SeedMatches(first) /\ Preferred(d, c)
      BY <1>2, <2>3 DEF NextCandidates
    <3> QED
      BY <2>1, <3>1, PreferredUnique
  <2> QED
    BY <2>2, <2>3
<1> QED
  BY <1>1, <1>2

\* selfSeed.add has one place to advance to: the end of what is recorded
\* without a gap.
LEMMA AdvanceDetermined ==
    ASSUME IInv, NEW w \in Workers, wpc[w] = "add"
    PROVE  \E n : NextWritten(cache \cup {Segment(job[w])}) = {n}
<1> DEFINE segs == cache \cup {Segment(job[w])}
           Open == {n \in written..(Len(idx) + 1) : ~Covered(segs, n)}
<1>1. Len(idx) \in Nat /\ written \in Nat /\ written <= Len(idx) + 1
  BY OptType DEF IInv, TypeOK
<1>2. \A c \in segs : c.last \in Nat /\ c.last <= Len(idx)
  <2>1. \A c \in cache : c.last \in Nat /\ c.last <= Len(idx)
    BY DEF IInv, TypeOK, SegmentInv
  <2>2. job[w].last \in Nat /\ job[w].last <= Len(idx)
    BY EntryFields DEF IInv, TypeOK, SegmentInv, Busy
  <2>3. Segment(job[w]).last = job[w].last
    BY DEF Segment
  <2> QED
    BY <2>1, <2>2, <2>3
<1>3. Len(idx) + 1 \in Open
  <2>1. ~Covered(segs, Len(idx) + 1)
    BY <1>1, <1>2 DEF Covered
  <2> QED
    BY <1>1, <2>1
<1>4. Open \in SUBSET Nat
  BY <1>1
<1>5. PICK n \in Open : \A y \in Open : n <= y
  <2> HIDE DEF Open
  <2> QED
    BY <1>3, <1>4, LeastElement
<1>6. n \in Nat /\ n \in written..(Len(idx) + 1) /\ ~Covered(segs, n)
  BY <1>4, <1>5
<1>7. ASSUME NEW i \in written..(n - 1) PROVE Covered(segs, i)
  <2>1. i \in written..(Len(idx) + 1) /\ i < n
    BY <1>1, <1>6
  <2>2. i \in Nat
    BY <1>1
  <2>3. i \in Open => n <= i
    BY <1>5
  <2>4. i \notin Open
    BY <1>6, <2>1, <2>2, <2>3
  <2> QED
    BY <2>1, <2>4
<1> HIDE DEF segs, Open
<1>8. n \in NextWritten(segs)
  BY <1>6, <1>7, Zenon DEF NextWritten
<1>9. ASSUME NEW m \in NextWritten(segs) PROVE m = n
  <2>1. m \in written..(Len(idx) + 1) /\ ~Covered(segs, m)
    BY <1>9, Zenon DEF NextWritten
  <2>2. \A i \in written..(m - 1) : Covered(segs, i)
    BY <1>9, Zenon DEF NextWritten
  <2>3. ~(m < n)
    <3>1. m < n => m \in written..(n - 1)
      BY <1>1, <1>6, <2>1
    <3> QED
      BY <1>7, <2>1, <3>1
  <2>4. ~(n < m)
    <3>1. n < m => n \in written..(m - 1)
      BY <1>1, <1>6, <2>1
    <3> QED
      BY <1>6, <2>2, <3>1
  <2> QED
    BY <1>1, <1>6, <2>1, <2>3, <2>4
<1>10. NextWritten(segs) = {n}
  BY <1>8, <1>9
<1> QED
  BY <1>10 DEF segs

\* The loop of SeedSequencer.Plan advances with every call of Next: there is
\* exactly one segment to take, and it is not empty.
THEOREM PlanAdvances ==
    Spec => [](main = "plan" => \E c : NextCandidates(current) = {c} /\ AfterSegment(c) > current)
<1>1. IInv => (main = "plan" => \E c : NextCandidates(current) = {c} /\ AfterSegment(c) > current)
  <2> SUFFICES ASSUME IInv, main = "plan"
               PROVE  \E c : NextCandidates(current) = {c} /\ AfterSegment(c) > current
    OBVIOUS
  <2>1. TypeOK /\ current \in Nat /\ 1 <= current
    <3>1. TypeOK /\ current \in Nat
      BY DEF IInv, TypeOK
    <3>2. plan # <<>> => Len(plan) \in 1..Len(plan)
      BY <3>1 DEF TypeOK
    <3>3. plan # <<>> => plan[Len(plan)].last \in Nat
      BY <3>1, <3>2, PlanEntry, EntryFields
    <3> QED
      BY <3>1, <3>3 DEF IInv, PlanInv
  <2>2. PICK c : NextCandidates(current) = {c}
    BY <2>1, NextDetermined
  <2>3. c \in Entries /\ current <= c.last
    BY <2>1, <2>2, CandidateBounds
  <2>4. AfterSegment(c) > current
    BY <2>1, <2>3, EntryFields DEF AfterSegment
  <2> QED
    BY <2>2, <2>4
<1> QED
  BY <1>1, Invariance, PTL

\* A worker that has finished a segment can always record it in the self-seed,
\* and where selfSeed.written gets to depends only on what is recorded.
THEOREM RecordingNeverWaits ==
    Spec => [](\A w \in Workers : wpc[w] = "add" =>
                  \E n : NextWritten(cache \cup {Segment(job[w])}) = {n})
<1>1. IInv => \A w \in Workers : wpc[w] = "add" =>
                 \E n : NextWritten(cache \cup {Segment(job[w])}) = {n}
  BY AdvanceDetermined
<1> QED
  BY <1>1, Invariance, PTL

=============================================================================
