------------------------ MODULE ParallelChunkProofs ------------------------
(* Proofs about ParallelChunk, for any file, chunk sizes and number of      *)
(* goroutines.  The inductive invariant ChunkInv says how the buckets of    *)
(* goroutines that stop, are passed over or are left behind fit together.   *)
EXTENDS ParallelChunk, SequenceTheorems, WellFoundedInduction, TLAPS

-----------------------------------------------------------------------------
(* Numbers.                                                                *)

Below == {ss \in Nat \X Nat : ss[1] < ss[2]}

\* Every set of natural numbers that is not empty has a least element; this
\* takes the place of induction.
LEMMA LeastElement ==
    ASSUME NEW S \in SUBSET Nat, S # {}
    PROVE  \E m \in S : \A y \in S : m <= y
<1>1. IsWellFoundedOn(Below, Nat)
  BY NatLessThanWellFounded DEF OpToRel, Below
<1>2. PICK m \in S : \A y \in S : ~(<<y, m>> \in Below)
  BY <1>1, WFMin
<1>3. ASSUME NEW y \in S PROVE m <= y
  <2>1. <<y, m>> \in Nat \X Nat /\ ~(y < m)
    BY <1>2 DEF Below
  <2> QED
    BY <2>1
<1> QED
  BY <1>3

\* Min is that element.
LEMMA MinIn ==
    ASSUME NEW S \in SUBSET Nat, S # {}
    PROVE  Min(S) \in S /\ \A y \in S : Min(S) <= y
BY LeastElement DEF Min

\* A set of natural numbers with a bound has a greatest element, Max.
LEMMA MaxIn ==
    ASSUME NEW b \in Nat, NEW S \in SUBSET (0..b), S # {}
    PROVE  Max(S) \in S /\ \A y \in S : y <= Max(S)
<1> DEFINE T == {b - y : y \in S}
<1>0. \A y \in S : y \in 0..b /\ b - y \in Nat
  OBVIOUS
<1>1. T \in SUBSET Nat /\ T # {}
  BY <1>0
<1>2. PICK m \in T : \A y \in T : m <= y
  BY <1>1, LeastElement
<1>3. PICK x \in S : m = b - x
  BY <1>2
<1>4. \A y \in S : b - y \in T
  OBVIOUS
<1>5. \A y \in S : x >= y
  BY <1>0, <1>2, <1>3, <1>4
<1> QED
  BY <1>5 DEF Max

\* Products of natural numbers grow with their factors.
LEMMA TimesMonotone ==
    ASSUME NEW a \in Nat, NEW b \in Nat, NEW n \in Nat, a <= b
    PROVE  a * n <= b * n /\ a * n \in Nat
<1>1. (b - a) * n >= 0 /\ (b - a) * n = b * n - a * n /\ a * n \in Nat
  OBVIOUS
<1> QED
  BY <1>1

\* What is left by a division.
LEMMA DivFacts ==
    ASSUME NEW a \in Nat, NEW n \in Nat \ {0}
    PROVE  a \div n \in Nat /\ (a \div n) * n <= a /\ a < (a \div n) * n + n
OBVIOUS

\* A product that is not above a number is not above its quotient.
LEMMA DivBound ==
    ASSUME NEW a \in Nat, NEW n \in Nat \ {0}, NEW b \in Nat, b * n <= a
    PROVE  b <= a \div n
<1> DEFINE q == a \div n
<1>1. q \in Nat /\ a < q * n + n
  BY DivFacts
<1> HIDE DEF q
<1>2. ASSUME b > q PROVE FALSE
  <2>1. (q + 1) * n <= b * n
    BY <1>1, <1>2, TimesMonotone
  <2>2. (q + 1) * n = q * n + n
    BY <1>1
  <2> QED
    BY <1>1, <2>1, <2>2
<1> QED
  BY <1>1, <1>2 DEF q

-----------------------------------------------------------------------------
(* The file and the chunker.                                               *)

\* The size of the file, and where the goroutines start.
LEMMA FileFacts ==
    ASSUME data \in Files
    PROVE  /\ data \in Seq(Bytes) /\ Size \in Nat
           /\ Count \in Nat \ {0} /\ Workers = 1..Count
           /\ \A w \in Workers : StartPos(w) \in 0..Size
           /\ StartPos(1) = 0
<1>1. data \in Seq(Bytes) /\ Size \in Nat /\ MaxSize \in Nat \ {0} /\ N \in Nat \ {0}
  BY FileAssumption, SizeAssumption DEF Size
<1>2. Size \div MaxSize \in Nat
  BY <1>1, DivFacts
<1>3. Count \in Nat \ {0}
  BY <1>1, <1>2 DEF Count
<1>4. Span \in Nat /\ Span * Count <= Size
  BY <1>1, <1>3, DivFacts DEF Span
<1>5. ASSUME NEW w \in 1..Count PROVE StartPos(w) \in 0..Size
  <2>1. (w - 1) * Span <= Count * Span /\ (w - 1) * Span \in Nat
    BY <1>3, <1>4, TimesMonotone
  <2>2. Count * Span = Span * Count /\ (w - 1) * Span = Span * (w - 1)
    BY <1>3, <1>4
  <2> DEFINE x == (w - 1) * Span
             y == Count * Span
  <2>3. y \in Nat /\ y <= Size
    BY <1>3, <1>4, <2>2
  <2>4. StartPos(w) = x /\ x \in Nat /\ x <= y
    BY <2>1, <2>2 DEF StartPos
  <2> HIDE DEF x, y
  <2> QED
    BY <1>1, <2>3, <2>4
<1>6. StartPos(1) = 0
  BY <1>4 DEF StartPos
<1> QED
  BY <1>1, <1>3, <1>5, <1>6 DEF Workers

\* A chunk ends after it starts, and all but the last have the minimum size.
LEMMA CutFacts ==
    ASSUME data \in Files, NEW p \in 0..(Size - 1)
    PROVE  /\ CutAfter(p) \in (p + 1)..Size
           /\ CutAfter(p) = Size \/ CutAfter(p) > p + MinSize
<1>0. Size \in Nat /\ MinSize \in Nat \ {0} /\ p \in Nat /\ p < Size
  BY FileFacts, SizeAssumption
<1>1. CASE Size - p <= MinSize
  BY <1>0, <1>1 DEF CutAfter
<1>2. CASE ~(Size - p <= MinSize)
  <2> DEFINE S == {q \in (p + MinSize + 1)..Size :
                      q = Size \/ q - p >= MaxSize \/ data[q] = "cut"}
  <2>1. S \in SUBSET Nat /\ Size \in S
    BY <1>0, <1>2
  <2>2. Min(S) \in S
    BY <2>1, MinIn
  <2>3. CutAfter(p) = Min(S)
    BY <1>2 DEF CutAfter
  <2> HIDE DEF S
  <2>4. CutAfter(p) \in (p + MinSize + 1)..Size
    BY <2>2, <2>3 DEF S
  <2> QED
    BY <1>0, <2>4
<1> QED
  BY <1>1, <1>2

\* Zeros of the maximum size are a null chunk.
LEMMA NullFacts ==
    ASSUME data \in Files, MinSize < MaxSize, NEW p \in 0..Size, p + MaxSize <= Size,
           \A q \in (p + 1)..(p + MaxSize) : data[q] = "zero"
    PROVE  p \in 0..(Size - 1) /\ CutAfter(p) = p + MaxSize /\ ChunkAt(p) = NullAt(p)
<1>0. Size \in Nat /\ MinSize \in Nat \ {0} /\ MaxSize \in Nat /\ p \in Nat
  BY FileFacts, SizeAssumption
<1> DEFINE S == {q \in (p + MinSize + 1)..Size :
                    q = Size \/ q - p >= MaxSize \/ data[q] = "cut"}
<1>1. S \in SUBSET Nat /\ p + MaxSize \in S
  BY <1>0
<1>2. Min(S) \in S /\ Min(S) <= p + MaxSize
  BY <1>1, MinIn
<1>3. CutAfter(p) = Min(S)
  BY <1>0 DEF CutAfter
<1> DEFINE m == Min(S)
<1>4. /\ m \in (p + MinSize + 1)..Size /\ m <= p + MaxSize
      /\ m = Size \/ m - p >= MaxSize \/ data[m] = "cut"
  BY <1>2
<1> HIDE DEF m, S
<1>5. m = p + MaxSize
  <2>1. CASE m \in (p + 1)..(p + MaxSize) /\ data[m] = "cut"
    BY <2>1
  <2> QED
    BY <1>0, <1>4, <2>1
<1>6. CutAfter(p) = p + MaxSize
  BY <1>3, <1>5 DEF m
<1>7. CutAfter(p) - p = MaxSize
  BY <1>0, <1>6
<1>8. IsNull(p, MaxSize)
  BY <1>0 DEF IsNull
<1> QED
  BY <1>0, <1>6, <1>7, <1>8 DEF ChunkAt, NullAt

\* The chunks of the file have their type.
LEMMA RealFacts ==
    ASSUME data \in Files, NEW c, Real(c)
    PROVE  /\ c \in Chunks /\ c = ChunkAt(c.start) /\ c.start \in 0..(Size - 1)
           /\ End(c) = CutAfter(c.start) /\ End(c) \in (c.start + 1)..Size
           /\ End(c) = Size \/ End(c) > c.start + MinSize
           /\ c.null <=> IsNull(c.start, c.size)
<1>1. c.start \in 0..(Size - 1) /\ c = ChunkAt(c.start) /\ Size \in Nat
  BY FileFacts DEF Real
<1>2. /\ CutAfter(c.start) \in (c.start + 1)..Size
      /\ CutAfter(c.start) = Size \/ CutAfter(c.start) > c.start + MinSize
  BY <1>1, CutFacts
<1>3. /\ c.size = CutAfter(c.start) - c.start
      /\ c.null = IsNull(c.start, CutAfter(c.start) - c.start)
      /\ c = [start |-> c.start, size |-> c.size, null |-> c.null]
  BY <1>1 DEF ChunkAt
<1>4. c.null \in BOOLEAN
  BY <1>3 DEF IsNull
<1>5. c.start \in Nat /\ c.size \in Nat
  BY <1>1, <1>2, <1>3
<1>6. c \in Chunks
  BY <1>3, <1>4, <1>5 DEF Chunks
<1>7. End(c) = CutAfter(c.start)
  BY <1>1, <1>2, <1>3 DEF End
<1> QED
  BY <1>1, <1>2, <1>3, <1>6, <1>7

\* What the chunker finds is a chunk of the file.
LEMMA ChunkAtReal ==
    ASSUME data \in Files, NEW p \in 0..(Size - 1)
    PROVE  Real(ChunkAt(p)) /\ ChunkAt(p).start = p /\ End(ChunkAt(p)) = CutAfter(p)
<1>1. ChunkAt(p).start = p
  BY DEF ChunkAt
<1>2. Real(ChunkAt(p))
  BY <1>1 DEF Real
<1> QED
  BY <1>1, <1>2, RealFacts

-----------------------------------------------------------------------------
(* What a single chunker finds.                                            *)

\* g has the chunks from each place at or after m.
ChunkTails(g, m) ==
    g = [p \in m..Size |-> IF p = Size THEN <<>> ELSE <<ChunkAt(p)>> \o g[CutAfter(p)]]

\* There are such sequences, so the recursive function ChunksFrom is what its
\* equation says.
LEMMA ChunksFromDef ==
    ASSUME data \in Files
    PROVE  ChunkTails(ChunksFrom, 0)
<1> DEFINE Bad == {n \in 0..Size : ~\E g : ChunkTails(g, Size - n)}
<1>0. Size \in Nat
  BY FileFacts
<1>1. ASSUME Bad # {} PROVE FALSE
  <2>1. Bad \in SUBSET Nat
    BY <1>0
  <2>2. PICK n \in Bad : \A y \in Bad : n <= y
    BY <1>1, <2>1, LeastElement
  <2>3. CASE n = 0
    <3>1. ChunkTails([p \in Size..Size |-> <<>>], Size)
      BY <1>0 DEF ChunkTails
    <3> QED
      BY <1>0, <2>3, <3>1
  <2>4. CASE n # 0
    <3> DEFINE m == Size - n
    <3>0. n \in Nat /\ n > 0 /\ m \in 0..(Size - 1) /\ m = Size - n
      BY <1>0, <2>4
    <3>1. n - 1 \in 0..Size /\ n - 1 \notin Bad /\ Size - (n - 1) = m + 1
      BY <1>0, <2>2, <3>0
    <3> HIDE DEF m
    <3>2. PICK g : ChunkTails(g, m + 1)
      BY <3>1
    <3> DEFINE h == [p \in m..Size |-> IF p = m THEN <<ChunkAt(m)>> \o g[CutAfter(m)]
                                       ELSE g[p]]
    <3>3. \A p \in (m + 1)..Size :
             g[p] = IF p = Size THEN <<>> ELSE <<ChunkAt(p)>> \o g[CutAfter(p)]
      BY <3>2 DEF ChunkTails
    <3>4. \A p \in (m + 1)..Size : h[p] = g[p]
      BY <1>0, <3>0
    <3>5. h[m] = <<ChunkAt(m)>> \o g[CutAfter(m)]
      BY <1>0, <3>0
    <3>6. \A p \in m..Size : p # Size => CutAfter(p) \in (p + 1)..Size
      BY <1>0, <3>0, CutFacts
    <3> HIDE DEF h
    <3>7. ASSUME NEW p \in m..Size
          PROVE  h[p] = IF p = Size THEN <<>> ELSE <<ChunkAt(p)>> \o h[CutAfter(p)]
      <4>1. CASE p = m
        <5>1. CutAfter(m) \in (m + 1)..Size /\ p # Size
          BY <1>0, <3>0, <3>6, <4>1
        <5>2. h[CutAfter(m)] = g[CutAfter(m)]
          BY <3>4, <5>1
        <5> QED
          BY <3>5, <4>1, <5>1, <5>2
      <4>2. CASE p # m
        <5>1. p \in (m + 1)..Size
          BY <1>0, <3>0, <4>2
        <5>2. p # Size => CutAfter(p) \in (m + 1)..Size
          BY <1>0, <3>0, <3>6, <5>1
        <5> QED
          BY <3>3, <3>4, <5>1, <5>2
      <4> QED
        BY <4>1, <4>2
    <3>8. h = [p \in m..Size |-> IF p = Size THEN <<>> ELSE <<ChunkAt(p)>> \o h[CutAfter(p)]]
      BY <3>7 DEF h
    <3>9. ChunkTails(h, m)
      BY <3>8 DEF ChunkTails
    <3> QED
      BY <3>0, <3>9
  <2> QED
    BY <2>3, <2>4
<1>2. Size \in 0..Size /\ Size \notin Bad /\ Size - Size = 0
  BY <1>0, <1>1
<1>3. \E g : ChunkTails(g, 0)
  BY <1>2
<1> QED
  BY <1>3 DEF ChunkTails, ChunksFrom

\* The chunks from p are the one at p and those from its end.
LEMMA ChunksFromFacts ==
    ASSUME data \in Files
    PROVE  /\ ChunksFrom[Size] = <<>>
           /\ \A p \in 0..(Size - 1) : ChunksFrom[p] = <<ChunkAt(p)>> \o ChunksFrom[CutAfter(p)]
           /\ \A p \in 0..Size : ChunksFrom[p] \in Seq(Chunks)
<1>0. Size \in Nat
  BY FileFacts
<1>1. \A p \in 0..Size : ChunksFrom[p] = IF p = Size THEN <<>>
                                         ELSE <<ChunkAt(p)>> \o ChunksFrom[CutAfter(p)]
  BY ChunksFromDef, Zenon DEF ChunkTails
<1>2. ChunksFrom[Size] = <<>>
  <2>1. Size \in 0..Size
    BY <1>0
  <2> QED
    BY <1>1, <2>1, Zenon
<1>3. ASSUME NEW p \in 0..(Size - 1)
      PROVE  ChunksFrom[p] = <<ChunkAt(p)>> \o ChunksFrom[CutAfter(p)]
  <2>1. p \in 0..Size /\ p # Size
    BY <1>0
  <2> QED
    BY <1>1, <2>1
<1> DEFINE Bad == {n \in 0..Size : ChunksFrom[Size - n] \notin Seq(Chunks)}
<1>4. ASSUME Bad # {} PROVE FALSE
  <2>1. Bad \in SUBSET Nat
    BY <1>0
  <2>2. PICK n \in Bad : \A y \in Bad : n <= y
    BY <1>4, <2>1, LeastElement
  <2>3. n # 0
    <3>1. ASSUME n = 0 PROVE FALSE
      <4>1. Size - n = Size /\ <<>> \in Seq(Chunks)
        BY <1>0, <3>1
      <4>2. ChunksFrom[Size - n] \in Seq(Chunks)
        BY <1>2, <4>1
      <4> QED
        BY <2>2, <4>2
    <3> QED
      BY <3>1
  <2> DEFINE m == Size - n
  <2>4. n \in Nat /\ m \in 0..(Size - 1) /\ m = Size - n
    BY <1>0, <2>3
  <2> HIDE DEF m
  <2>5. CutAfter(m) \in (m + 1)..Size /\ ChunkAt(m) \in Chunks
    BY <2>4, CutFacts, ChunkAtReal, RealFacts
  <2> DEFINE k == Size - CutAfter(m)
  <2>6. k \in 0..Size /\ k < n /\ Size - k = CutAfter(m)
    BY <1>0, <2>4, <2>5
  <2>7. k \notin Bad
    BY <2>2, <2>4, <2>6
  <2>8. ChunksFrom[CutAfter(m)] \in Seq(Chunks)
    BY <2>6, <2>7
  <2>9. <<ChunkAt(m)>> \in Seq(Chunks)
    BY <2>5
  <2>10. ChunksFrom[m] \in Seq(Chunks)
    BY <1>3, <2>4, <2>8, <2>9, ConcatProperties
  <2> QED
    BY <2>2, <2>4, <2>10
<1>5. ASSUME NEW p \in 0..Size PROVE ChunksFrom[p] \in Seq(Chunks)
  <2>1. Size - p \in 0..Size /\ Size - (Size - p) = p
    BY <1>0
  <2>2. Size - p \notin Bad
    BY <1>4, Zenon
  <2> QED
    BY <2>1, <2>2
<1> QED
  BY <1>2, <1>3, <1>5

\* A step does not change the file, or what depends on it alone.
LEMMA DataSame ==
    ASSUME data' = data
    PROVE  /\ Size' = Size /\ Count' = Count /\ Workers' = Workers
           /\ \A w : StartPos(w)' = StartPos(w)
           /\ \A c : Real(c)' = Real(c)
           /\ ChunksFrom' = ChunksFrom
<1>1. Size' = Size /\ Count' = Count /\ Workers' = Workers
  BY DEF Size, Count, Workers
<1>2. \A w : StartPos(w)' = StartPos(w)
  BY DEF StartPos, Span, Count, Size
<1>3. \A c : Real(c)' = Real(c)
  BY DEF Real, ChunkAt, CutAfter, IsNull, Size
<1>4. ChunksFrom' = ChunksFrom
  BY DEF ChunksFrom, ChunkAt, IsNull, CutAfter, Size
<1> QED
  BY <1>1, <1>2, <1>3, <1>4

-----------------------------------------------------------------------------
(* Steps that move no chunk.                                               *)

\* Where chunks begin and who is passed over depend on these variables only.
LEMMA PartsSame ==
    ASSUME data' = data
    PROVE  /\ UNCHANGED <<bucket, pos>> => \A w : Begin(w)' = Begin(w)
           /\ UNCHANGED index => IndexEnd' = IndexEnd
           /\ UNCHANGED next => \A w : After(w)' = After(w) /\ PassedOver(w)' = PassedOver(w)
<1>1. Count' = Count /\ Workers' = Workers
  BY DataSame
<1>2. UNCHANGED <<bucket, pos>> => \A w : Begin(w)' = Begin(w)
  BY DEF Begin
<1>3. UNCHANGED index => IndexEnd' = IndexEnd
  BY DEF IndexEnd, End
<1>4. UNCHANGED next => \A w : After(w)' = After(w)
  BY <1>1 DEF After
<1>5. UNCHANGED next => \A w : PassedOver(w)' = PassedOver(w)
  BY <1>1, <1>4 DEF PassedOver
<1> QED
  BY <1>2, <1>3, <1>4, <1>5

\* A step that leaves the chunks alone, and only makes goroutines stop.
LEMMA QuietKeeps ==
    ASSUME ChunkInv, TypeOK',
           UNCHANGED <<data, pos, bucket, last, sync, next, reading, index, result>>,
           cancelled => cancelled',
           \A x \in Workers :
              /\ pc'[x] \in {"run", "sync", "skip"} => pc'[x] = pc[x]
              /\ pc[x] = "end" => pc'[x] = "end"
              /\ Halted(x) => Halted(x)'
              /\ stopped[x] => stopped'[x]
              /\ eof'[x] => eof[x] \/ pos[x] = Size
              /\ result = "none" => (stopped'[x] <=> pc'[x] \in {"close", "end"})
              /\ result = "none" /\ Halted(x)' /\ ~err'[x] /\ ~eof'[x] =>
                    Halted(x) /\ ~err[x] /\ ~eof[x]
    PROVE  ChunkInv'
<1>0. /\ TypeOK /\ ChainInv /\ SyncInv /\ OrderInv /\ OneConsumer /\ LinkInv
      /\ ReadingInv /\ IndexInv /\ RoomInv
  BY DEF ChunkInv
<1>1. /\ Size' = Size /\ Count' = Count /\ Workers' = Workers /\ ChunksFrom' = ChunksFrom
      /\ (\A w : StartPos(w)' = StartPos(w)) /\ (\A c : Real(c)' = Real(c))
  BY DataSame
<1>2. /\ \A w : Begin(w)' = Begin(w) /\ After(w)' = After(w) /\ PassedOver(w)' = PassedOver(w)
      /\ IndexEnd' = IndexEnd
  BY PartsSame
<1>3. ChainInv'
  BY <1>0, <1>1 DEF ChainInv, Chain, End
<1>4. SyncInv'
  BY <1>0, <1>1, <1>2 DEF SyncInv, End
<1>5. OrderInv'
  BY <1>0, <1>1, <1>2 DEF OrderInv, TypeOK
<1>6. OneConsumer'
  <2>1. \A x \in Workers : Consuming(x)' => Consuming(x)
    BY DEF Consuming
  <2> QED
    BY <1>0, <1>1, <2>1 DEF OneConsumer
<1>7. LinkInv'
  BY <1>0, <1>1, <1>2 DEF LinkInv
<1>8. ReadingInv'
  BY <1>0, <1>1, <1>2 DEF ReadingInv
<1>9. IndexInv'
  <2>1. SequentialChunks' = SequentialChunks
    BY <1>1 DEF SequentialChunks
  <2> QED
    BY <1>0, <1>1, <1>2, <2>1 DEF IndexInv, TypeOK
<1>10. RoomInv'
  BY <1>0, <1>1 DEF RoomInv
<1> QED
  BY <1>3, <1>4, <1>5, <1>6, <1>7, <1>8, <1>9, <1>10 DEF ChunkInv

\* A goroutine that is told to stop, and one at the end of the file or with an
\* error.
LEMMA HaltKeeps ==
    ASSUME ChunkInv, NEW w \in Workers, Interrupted(w) \/ ReadEnds(w)
    PROVE  ChunkInv'
<1>0. TypeOK /\ OrderInv /\ pc[w] = "run" /\ Workers' = Workers /\ Size' = Size /\ Count' = Count
  BY DataSame DEF ChunkInv, Interrupted, ReadEnds
<1>1. /\ pc' = [pc EXCEPT ![w] = "stop"]
      /\ UNCHANGED <<data, pos, bucket, last, sync, next, reading, index, result, cancelled, stopped>>
  BY DEF Interrupted, ReadEnds, Goto
<1>2. /\ pc'[w] = "stop" /\ \A x \in Workers \ {w} : pc'[x] = pc[x]
      /\ pc' \in [Workers -> {"run", "sync", "skip", "stop", "close", "end"}]
  BY <1>0, <1>1 DEF TypeOK
<1>3. /\ eof' \in [Workers -> BOOLEAN] /\ err' \in [Workers -> BOOLEAN]
      /\ \A x \in Workers \ {w} : eof'[x] = eof[x] /\ err'[x] = err[x]
  BY <1>0 DEF TypeOK, Interrupted, ReadEnds
<1>4. eof'[w] => eof[w] \/ pos[w] = Size
  <2>1. pos[w] \in 0..Size /\ Size \in Nat
    BY <1>0, FileFacts DEF TypeOK
  <2> QED
    BY <1>0, <2>1 DEF Interrupted, ReadEnds, TypeOK
<1>5. result = "none" => eof'[w] \/ err'[w]
  BY <1>0 DEF Interrupted, ReadEnds, TypeOK, OrderInv
<1>6. TypeOK'
  BY <1>0, <1>1, <1>2, <1>3 DEF TypeOK
<1>7. ASSUME NEW x \in Workers
      PROVE  /\ pc'[x] \in {"run", "sync", "skip"} => pc'[x] = pc[x]
             /\ pc[x] = "end" => pc'[x] = "end"
             /\ Halted(x) => Halted(x)'
             /\ stopped[x] => stopped'[x]
             /\ eof'[x] => eof[x] \/ pos[x] = Size
             /\ result = "none" => (stopped'[x] <=> pc'[x] \in {"close", "end"})
             /\ result = "none" /\ Halted(x)' /\ ~err'[x] /\ ~eof'[x] =>
                   Halted(x) /\ ~err[x] /\ ~eof[x]
  <2>1. CASE x = w
    BY <1>0, <1>1, <1>2, <1>4, <1>5, <2>1 DEF Halted, OrderInv
  <2>2. CASE x # w
    BY <1>0, <1>1, <1>2, <1>3, <2>2 DEF Halted, OrderInv
  <2> QED
    BY <2>1, <2>2
<1> QED
  BY <1>1, <1>6, <1>7, QuietKeeps

\* The deferred calls of a goroutine.
LEMMA CloseKeeps ==
    ASSUME ChunkInv, NEW w \in Workers, Stop(w) \/ Close(w)
    PROVE  ChunkInv'
<1>0. TypeOK /\ OrderInv /\ Workers' = Workers /\ Size' = Size /\ Count' = Count
  BY DataSame DEF ChunkInv, Stop, Close
<1>1. /\ UNCHANGED <<data, pos, bucket, last, sync, next, reading, index, result, cancelled,
                     eof, err>>
      /\ pc[w] \in {"stop", "close"}
  BY DEF Stop, Close
<1>2. /\ pc'[w] = IF pc[w] = "stop" THEN "close" ELSE "end"
      /\ \A x \in Workers \ {w} : pc'[x] = pc[x]
      /\ pc' \in [Workers -> {"run", "sync", "skip", "stop", "close", "end"}]
  BY <1>0, <1>1 DEF TypeOK, Stop, Close, Goto
<1>3. /\ stopped' \in [Workers -> BOOLEAN] /\ \A x \in Workers : stopped[x] => stopped'[x]
      /\ \A x \in Workers \ {w} : stopped'[x] = stopped[x]
  BY <1>0 DEF TypeOK, Stop, Close
<1>4. result = "none" => stopped'[w]
  BY <1>0 DEF TypeOK, Stop, Close, OrderInv
<1>5. TypeOK'
  BY <1>0, <1>1, <1>2, <1>3 DEF TypeOK
<1>6. ASSUME NEW x \in Workers
      PROVE  /\ pc'[x] \in {"run", "sync", "skip"} => pc'[x] = pc[x]
             /\ pc[x] = "end" => pc'[x] = "end"
             /\ Halted(x) <=> Halted(x)'
             /\ result = "none" => (stopped'[x] <=> pc'[x] \in {"close", "end"})
  <2>1. CASE x = w
    BY <1>1, <1>2, <1>4, <2>1 DEF Halted
  <2>2. CASE x # w
    BY <1>0, <1>2, <1>3, <2>2 DEF Halted, OrderInv
  <2> QED
    BY <2>1, <2>2
<1> QED
  BY <1>1, <1>3, <1>5, <1>6, QuietKeeps

\* An interrupt.
LEMMA CancelKeeps ==
    ASSUME ChunkInv, Cancel
    PROVE  ChunkInv'
<1>0. TypeOK /\ OrderInv /\ Workers' = Workers /\ Size' = Size /\ Count' = Count
  BY DataSame DEF ChunkInv, Cancel
<1>1. /\ UNCHANGED <<data, pos, bucket, last, sync, next, pc, eof, err, stopped, reading, index,
                     result>>
      /\ cancelled'
  BY DEF Cancel
<1>2. TypeOK'
  BY <1>0, <1>1 DEF TypeOK, Cancel
<1>3. \A x \in Workers : /\ Halted(x) <=> Halted(x)'
                         /\ result = "none" => (stopped'[x] <=> pc'[x] \in {"close", "end"})
  BY <1>0, <1>1 DEF Halted, OrderInv
<1> QED
  BY <1>1, <1>2, <1>3, QuietKeeps

\* No step at all.
LEMMA StutterKeeps ==
    ASSUME ChunkInv, UNCHANGED vars
    PROVE  ChunkInv'
<1>0. TypeOK /\ OrderInv /\ Workers' = Workers /\ Size' = Size /\ Count' = Count
  BY DataSame DEF ChunkInv, vars
<1>1. UNCHANGED <<data, pos, bucket, last, sync, next, pc, eof, err, stopped, reading, index,
                  result, cancelled>>
  BY DEF vars
<1>2. TypeOK'
  BY <1>0, <1>1 DEF TypeOK
<1>3. \A x \in Workers : /\ Halted(x) <=> Halted(x)'
                         /\ result = "none" => (stopped'[x] <=> pc'[x] \in {"close", "end"})
  BY <1>0, <1>1 DEF Halted, OrderInv
<1> QED
  BY <1>1, <1>2, <1>3, QuietKeeps

-----------------------------------------------------------------------------
(* A goroutine finds a chunk.                                              *)

\* While IndexFromFile runs, the order of the goroutines leaves one consumer.
LEMMA OrderGivesConsumer ==
    ASSUME data \in Files, data' = data, TypeOK', OrderInv', result' = "none"
    PROVE  OneConsumer'
<1>0. Workers' = Workers /\ Count' = Count /\ Workers = 1..Count /\ Count \in Nat
  BY DataSame, FileFacts
<1>1. reading' \in Workers /\ next' \in [Workers -> 0..Count]
  BY <1>0 DEF TypeOK
<1>2. ASSUME NEW v \in Workers, NEW w \in Workers, v < w, next'[v] = next'[w], next'[v] # 0
      PROVE  ~Consuming(w)'
  <2>1. After(v)' = next'[v] /\ After(w)' = next'[w]
    BY <1>2 DEF After
  <2>2. w < After(v)'
    BY <1>0, <1>2, <2>1 DEF OrderInv
  <2>3. stopped'[w]
    BY <1>0, <1>2, <2>2 DEF OrderInv
  <2> QED
    BY <1>0, <2>3 DEF OrderInv, Consuming
<1>3. ASSUME NEW w \in Workers, next'[w] = reading' PROVE Halted(w)'
  <2>1. reading' # 0 /\ After(w)' = reading'
    BY <1>0, <1>1, <1>3 DEF After
  <2>2. w < reading'
    BY <1>0, <2>1 DEF OrderInv
  <2> QED
    BY <1>0, <2>2 DEF OrderInv, Halted
<1>4. ASSUME NEW v \in Workers, NEW w \in Workers, v # w, next'[v] = next'[w], next'[v] # 0
      PROVE  ~Consuming(v)' \/ ~Consuming(w)'
  <2>1. v < w \/ w < v
    BY <1>0, <1>4
  <2> QED
    BY <1>2, <1>4, <2>1
<1> QED
  BY <1>0, <1>3, <1>4 DEF OneConsumer

\* A chunk in the bucket takes the place of the position of the chunker.
LEMMA ProduceKeeps ==
    ASSUME ChunkInv, NEW w \in Workers, Produce(w)
    PROVE  ChunkInv'
<1>0. /\ TypeOK /\ ChainInv /\ SyncInv /\ OrderInv /\ OneConsumer /\ LinkInv
      /\ ReadingInv /\ IndexInv /\ RoomInv
  BY DEF ChunkInv
<1> DEFINE p == pos[w]
           c == ChunkAt(p)
<1>1. /\ pc[w] = "run" /\ ~cancelled /\ ~stopped[w] /\ p < Size
      /\ UNCHANGED <<data, sync, next, eof, err, stopped, reading, index, result, cancelled>>
      /\ last' = [last EXCEPT ![w] = c]
      /\ bucket' = [bucket EXCEPT ![w] = Append(@, c)]
      /\ pos' = [pos EXCEPT ![w] = CutAfter(p)]
      /\ pc' = [pc EXCEPT ![w] = IF next[w] = 0 THEN "run" ELSE "sync"]
  BY DEF Produce, Goto
<1>2. /\ Size' = Size /\ Count' = Count /\ Workers' = Workers /\ ChunksFrom' = ChunksFrom
      /\ (\A x : StartPos(x)' = StartPos(x)) /\ (\A x : Real(x)' = Real(x))
      /\ \A x : After(x)' = After(x) /\ PassedOver(x)' = PassedOver(x)
      /\ IndexEnd' = IndexEnd
  BY <1>1, DataSame, PartsSame
<1>3. data \in Files /\ Size \in Nat /\ p \in 0..(Size - 1)
  BY <1>0, <1>1, FileFacts DEF TypeOK
<1>4. /\ Real(c) /\ c.start = p /\ End(c) = CutAfter(p) /\ c \in Chunks
      /\ CutAfter(p) \in (p + 1)..Size /\ (CutAfter(p) = Size \/ CutAfter(p) > p + MinSize)
  BY <1>3, CutFacts, ChunkAtReal, RealFacts
<1> HIDE DEF p, c
<1>5. result = "none"
  BY <1>0, <1>1 DEF OrderInv
<1>6. /\ \A x \in Workers \ {w} : /\ bucket'[x] = bucket[x] /\ pos'[x] = pos[x]
                                  /\ last'[x] = last[x] /\ pc'[x] = pc[x]
      /\ bucket'[w] = Append(bucket[w], c) /\ pos'[w] = CutAfter(p) /\ last'[w] = c
      /\ pc'[w] = IF next[w] = 0 THEN "run" ELSE "sync"
      /\ bucket[w] \in Seq(Chunks)
  BY <1>0, <1>1 DEF TypeOK
<1>7. TypeOK'
  <2>1. bucket' \in [Workers -> Seq(Chunks)]
    BY <1>0, <1>1, <1>4 DEF TypeOK
  <2>2. pos' \in [Workers -> 0..Size]
    BY <1>0, <1>1, <1>3, <1>4 DEF TypeOK
  <2> QED
    BY <1>0, <1>1, <1>2, <1>4, <2>1, <2>2 DEF TypeOK
<1>8. /\ Len(bucket'[w]) = Len(bucket[w]) + 1 /\ Len(bucket[w]) \in Nat
      /\ \A k \in 1..Len(bucket[w]) : bucket'[w][k] = bucket[w][k]
      /\ bucket'[w][Len(bucket[w]) + 1] = c
  BY <1>6
<1>9. ASSUME NEW x \in Workers PROVE Begin(x)' = Begin(x)
  <2>1. CASE x = w
    <3>1. bucket'[w] # <<>> /\ Begin(w)' = bucket'[w][1].start
      BY <1>6, <1>8 DEF Begin
    <3>2. CASE bucket[w] = <<>>
      BY <1>4, <1>8, <2>1, <3>1, <3>2 DEF Begin, p
    <3>3. CASE bucket[w] # <<>>
      <4>1. 1 \in 1..Len(bucket[w])
        BY <1>6, <1>8, <3>3
      <4> QED
        BY <1>8, <2>1, <3>1, <3>3, <4>1 DEF Begin
    <3> QED
      BY <3>2, <3>3
  <2>2. CASE x # w
    BY <1>6, <2>2 DEF Begin
  <2> QED
    BY <2>1, <2>2
<1>10. ChainInv'
  <2>1. ASSUME NEW x \in Workers, NEW k \in 1..Len(bucket'[x])
        PROVE  /\ Real(bucket'[x][k])
               /\ End(bucket'[x][k]) =
                     IF k < Len(bucket'[x]) THEN bucket'[x][k + 1].start ELSE pos'[x]
    <3>1. CASE x # w
      BY <1>0, <1>6, <2>1, <3>1 DEF ChainInv, Chain
    <3>2. CASE x = w /\ k = Len(bucket[w]) + 1
      BY <1>4, <1>6, <1>8, <3>2
    <3>3. CASE x = w /\ k # Len(bucket[w]) + 1
      <4>1. k \in 1..Len(bucket[w]) /\ k < Len(bucket'[w])
        BY <1>8, <2>1, <3>3
      <4>2. /\ Real(bucket[w][k])
            /\ End(bucket[w][k]) = IF k < Len(bucket[w]) THEN bucket[w][k + 1].start ELSE p
        BY <1>0, <4>1 DEF ChainInv, Chain, p
      <4>3. bucket'[w][k + 1].start = IF k < Len(bucket[w]) THEN bucket[w][k + 1].start ELSE p
        <5>1. CASE k < Len(bucket[w])
          <6>1. k + 1 \in 1..Len(bucket[w])
            BY <1>8, <4>1, <5>1
          <6> QED
            BY <1>8, <5>1, <6>1
        <5>2. CASE k = Len(bucket[w])
          BY <1>4, <1>8, <5>2
        <5> QED
          BY <1>8, <4>1, <5>1, <5>2
      <4> QED
        BY <1>8, <3>3, <4>1, <4>2, <4>3
    <3> QED
      BY <3>1, <3>2, <3>3
  <2> QED
    BY <1>2, <2>1 DEF ChainInv, Chain, End
<1>11. SyncInv'
  <2>1. ASSUME NEW x \in Workers
        PROVE  /\ pc'[x] = "sync" => Real(last'[x]) /\ End(last'[x]) = pos'[x]
               /\ pc'[x] \in {"sync", "skip"} => next'[x] # 0
    <3>1. CASE x = w
      BY <1>1, <1>4, <1>6, <3>1
    <3>2. CASE x # w
      BY <1>0, <1>1, <1>6, <3>2 DEF SyncInv
    <3> QED
      BY <3>1, <3>2
  <2> QED
    BY <1>0, <1>1, <1>2, <1>9, <2>1 DEF SyncInv, End
<1>12. OrderInv'
  <2>1. \A x \in Workers : x < reading => pc'[x] = "end"
    BY <1>0, <1>1, <1>6 DEF OrderInv
  <2>2. \A x \in Workers : eof[x] => pos'[x] = Size
    BY <1>0, <1>1, <1>3, <1>6 DEF OrderInv, p
  <2>3. \A x \in Workers : stopped[x] <=> pc'[x] \in {"close", "end"}
    BY <1>0, <1>1, <1>5, <1>6 DEF OrderInv
  <2>4. \A x, u \in Workers : x < u /\ u < After(x) =>
           stopped[u] /\ bucket'[u] = <<>> /\ After(u) <= After(x)
    BY <1>0, <1>1, <1>5, <1>6 DEF OrderInv
  <2> QED
    BY <1>0, <1>1, <1>2, <2>1, <2>2, <2>3, <2>4 DEF OrderInv
<1>13. OneConsumer'
  BY <1>1, <1>3, <1>5, <1>7, <1>12, OrderGivesConsumer
<1>14. LinkInv'
  <2>1. ~Halted(w)' /\ \A x \in Workers \ {w} : Halted(x)' => Halted(x) /\ pos'[x] = pos[x]
    BY <1>6 DEF Halted
  <2>2. ASSUME NEW x \in Workers, x >= reading, ~PassedOver(x), Halted(x)', ~err[x], ~eof[x]
        PROVE  next[x] # 0 /\ Begin(next[x])' = pos'[x]
    <3>1. next[x] # 0 /\ Begin(next[x]) = pos'[x] /\ next[x] \in Workers
      <4>1. next[x] # 0 /\ Begin(next[x]) = pos'[x]
        BY <1>0, <1>5, <2>1, <2>2 DEF LinkInv
      <4>2. next[x] \in 0..Count /\ Workers = 1..Count /\ Count \in Nat
        BY <1>0, FileFacts DEF TypeOK
      <4> QED
        BY <4>1, <4>2
    <3> QED
      BY <1>1, <1>9, <3>1
  <2> QED
    BY <1>1, <1>2, <2>2 DEF LinkInv
<1>15. ReadingInv'
  BY <1>0, <1>1, <1>2, <1>9 DEF ReadingInv
<1>16. IndexInv'
  <2>1. SequentialChunks' = SequentialChunks
    BY <1>2 DEF SequentialChunks
  <2> QED
    BY <1>0, <1>1, <1>2, <2>1 DEF IndexInv, TypeOK
<1>17. RoomInv'
  <2>1. ASSUME NEW x \in Workers
        PROVE  /\ StartPos(x) <= pos'[x]
               /\ \/ Len(bucket'[x]) * MinSize <= pos'[x] - StartPos(x)
                  \/ pos'[x] = Size /\ (Len(bucket'[x]) - 1) * MinSize <= Size - StartPos(x)
    <3>1. CASE x # w
      BY <1>0, <1>6, <3>1 DEF RoomInv
    <3>2. CASE x = w
      <4> DEFINE n == Len(bucket[w])
      <4>1. n \in Nat /\ MinSize \in Nat /\ StartPos(w) \in 0..Size
        BY <1>3, <1>8, FileFacts, SizeAssumption
      <4>2. StartPos(w) <= p /\ n * MinSize <= p - StartPos(w)
        BY <1>0, <1>3 DEF RoomInv, p
      <4>3. (n + 1) * MinSize = n * MinSize + MinSize /\ n + 1 - 1 = n
        BY <4>1
      <4>4. Len(bucket'[w]) = n + 1
        BY <1>8
      <4> DEFINE m == n * MinSize
      <4>5. m \in Int
        BY <4>1
      <4> HIDE DEF n, m
      <4>6. CASE CutAfter(p) = Size
        <5>1. m <= Size - StartPos(w) /\ StartPos(w) <= Size
          BY <1>3, <4>1, <4>2, <4>5 DEF m
        <5>2. Len(bucket'[w]) - 1 = n /\ pos'[w] = Size
          BY <1>6, <4>1, <4>4, <4>6
        <5>3. (Len(bucket'[w]) - 1) * MinSize <= Size - StartPos(w)
          BY <5>1, <5>2 DEF m
        <5> QED
          BY <3>2, <5>1, <5>2, <5>3
      <4>7. CASE CutAfter(p) > p + MinSize
        <5>1. m + MinSize <= CutAfter(p) - StartPos(w) /\ StartPos(w) <= CutAfter(p)
          BY <1>3, <1>4, <4>1, <4>2, <4>5, <4>7 DEF m
        <5> QED
          BY <1>6, <3>2, <4>3, <4>4, <5>1 DEF m
      <4> QED
        BY <1>4, <4>6, <4>7
    <3> QED
      BY <3>1, <3>2
  <2> QED
    BY <1>2, <2>1 DEF RoomInv
<1> QED
  BY <1>7, <1>10, <1>11, <1>12, <1>13, <1>14, <1>15, <1>16, <1>17 DEF ChunkInv

-----------------------------------------------------------------------------
(* A goroutine passes over the next one.                                   *)

\* The goroutines passed over by one that is passed over are so already.
LEMMA SkipKeeps ==
    ASSUME ChunkInv, NEW w \in Workers, Skip(w)
    PROVE  ChunkInv'
<1>0. /\ TypeOK /\ ChainInv /\ SyncInv /\ OrderInv /\ OneConsumer /\ LinkInv
      /\ ReadingInv /\ IndexInv /\ RoomInv
  BY DEF ChunkInv
<1> DEFINE v == next[w]
           n == IF PassOver(v) THEN next[v] ELSE v
<1>1. /\ pc[w] = "skip" /\ next' = [next EXCEPT ![w] = n] /\ pc' = [pc EXCEPT ![w] = "run"]
      /\ UNCHANGED <<data, pos, bucket, last, sync, eof, err, stopped, reading, index,
                     result, cancelled>>
  BY DEF Skip, Goto
<1>2. /\ Size' = Size /\ Count' = Count /\ Workers' = Workers /\ ChunksFrom' = ChunksFrom
      /\ (\A x : StartPos(x)' = StartPos(x)) /\ (\A x : Real(x)' = Real(x))
      /\ \A x : Begin(x)' = Begin(x)
      /\ IndexEnd' = IndexEnd
  BY <1>1, DataSame, PartsSame
<1>3. /\ data \in Files /\ Count \in Nat \ {0} /\ Workers = 1..Count
      /\ next \in [Workers -> 0..Count] /\ reading \in Workers
  BY <1>0, FileFacts DEF TypeOK
<1>4. v \in Workers /\ v # 0
  BY <1>0, <1>1, <1>3 DEF SyncInv
<1>5. n \in 0..Count
  BY <1>3, <1>4
<1>6. /\ next'[w] = n /\ \A x \in Workers \ {w} : next'[x] = next[x]
      /\ pc'[w] = "run" /\ \A x \in Workers \ {w} : pc'[x] = pc[x]
  BY <1>0, <1>1 DEF TypeOK
<1>7. TypeOK'
  BY <1>0, <1>1, <1>2, <1>5 DEF TypeOK
<1>8. /\ \A x \in Workers \ {w} : After(x)' = After(x)
      /\ After(w) = v /\ After(w)' = IF PassOver(v) THEN After(v) ELSE v
      /\ \A x \in Workers : After(x) \in 1..(Count + 1) /\ x < After(x)
  <2>1. \A x \in Workers \ {w} : After(x)' = After(x)
    BY <1>2, <1>6 DEF After
  <2>2. After(w) = v /\ After(w)' = IF PassOver(v) THEN After(v) ELSE v
    BY <1>2, <1>4, <1>6 DEF After
  <2>3. \A x \in Workers : After(x) \in 1..(Count + 1) /\ x < After(x)
    BY <1>0, <1>3 DEF After, OrderInv
  <2> QED
    BY <2>1, <2>2, <2>3
<1> HIDE DEF v, n
<1>9. After(w)' \in 1..(Count + 1) /\ After(w) <= After(w)' /\ w < After(w)'
  BY <1>3, <1>4, <1>8
<1>10. \A x \in Workers : /\ PassedOver(x) => PassedOver(x)'
                          /\ x <= w /\ PassedOver(x)' => PassedOver(x)
  <2>1. ASSUME NEW y \in Workers
        PROVE  After(y)' \in Int /\ After(y) \in Int /\ After(y) <= After(y)'
    <3>1. After(y) \in Int
      BY <1>3, <1>8
    <3>2. CASE y = w
      BY <1>3, <1>9, <3>1, <3>2
    <3>3. CASE y # w
      BY <1>8, <3>1, <3>3
    <3> QED
      BY <3>2, <3>3
  <2>2. ASSUME NEW x \in Workers, PassedOver(x) PROVE PassedOver(x)'
    <3>1. PICK y \in Workers : y < x /\ x < After(y)
      BY <2>2 DEF PassedOver
    <3>2. x < After(y)'
      <4>1. x \in Int
        BY <1>3
      <4>2. After(y)' \in Int /\ After(y) \in Int /\ After(y) <= After(y)' /\ x < After(y)
        BY <2>1, <3>1
      <4> QED
        BY <4>1, <4>2
    <3>3. \E z \in Workers : z < x /\ x < After(z)'
      BY <3>1, <3>2
    <3>4. Workers' = Workers
      BY <1>2
    <3> QED
      BY <3>3, <3>4 DEF PassedOver
  <2>3. ASSUME NEW x \in Workers, x <= w, PassedOver(x)' PROVE PassedOver(x)
    <3>1. PICK y \in Workers : y < x /\ x < After(y)'
      BY <1>2, <2>3 DEF PassedOver
    <3>2. After(y)' = After(y)
      BY <1>3, <1>8, <2>3, <3>1
    <3> QED
      BY <3>1, <3>2 DEF PassedOver
  <2> QED
    BY <2>2, <2>3
<1>11. /\ w >= reading
       /\ result = "none" => ~stopped[w] /\ ~PassedOver(w)
  <2>1. ~(w < reading)
    BY <1>0, <1>1 DEF OrderInv
  <2>2. w >= reading
    BY <1>3, <2>1
  <2>3. result = "none" => ~stopped[w]
    BY <1>0, <1>1 DEF OrderInv
  <2>4. result = "none" => \A x \in Workers : ~(x < w /\ w < After(x))
    BY <1>0, <2>3 DEF OrderInv
  <2> QED
    BY <2>2, <2>3, <2>4, Zenon DEF PassedOver
<1>12. ChainInv'
  BY <1>0, <1>1, <1>2 DEF ChainInv, Chain, End
<1>13. SyncInv'
  BY <1>0, <1>1, <1>2, <1>6 DEF SyncInv, End
<1>14. OrderInv'
  <2>1. \A x \in Workers : x < After(x)' /\ (x < reading => pc'[x] = "end")
    BY <1>0, <1>6, <1>8, <1>9, <1>1 DEF OrderInv
  <2>2. result = "none" => \A x \in Workers : stopped[x] <=> pc'[x] \in {"close", "end"}
    BY <1>0, <1>6, <1>11 DEF OrderInv
  <2>3. ASSUME result = "none", NEW x \in Workers, NEW u \in Workers, x < u, u < After(x)'
        PROVE  stopped[u] /\ bucket[u] = <<>> /\ After(u)' <= After(x)'
    <3>1. CASE x # w
      <4>1. stopped[u] /\ bucket[u] = <<>> /\ After(u) <= After(x) /\ u # w
        BY <1>0, <1>8, <1>11, <2>3, <3>1 DEF OrderInv
      <4> QED
        BY <1>8, <3>1, <4>1
    <3>2. CASE x = w /\ u < After(w)
      <4>1. stopped[u] /\ bucket[u] = <<>> /\ After(u) <= After(w) /\ u # w
        BY <1>0, <1>3, <2>3, <3>2 DEF OrderInv
      <4> QED
        BY <1>8, <1>9, <3>2, <4>1
    <3>3. CASE x = w /\ ~(u < After(w))
      <4>1. PassOver(v) /\ After(w)' = After(v) /\ v <= u /\ u < After(v)
        BY <1>3, <1>4, <1>8, <2>3, <3>3
      <4>2. stopped[u] /\ bucket[u] = <<>> /\ After(u) <= After(v) /\ u # w
        <5>1. CASE u = v
          BY <1>3, <1>4, <1>8, <4>1, <5>1 DEF PassOver
        <5>2. CASE u # v
          BY <1>0, <1>3, <1>4, <2>3, <3>3, <4>1, <5>2 DEF OrderInv
        <5> QED
          BY <5>1, <5>2
      <4> QED
        BY <1>8, <3>3, <4>1, <4>2
    <3> QED
      BY <3>1, <3>2, <3>3
  <2> QED
    BY <1>0, <1>1, <1>2, <2>1, <2>2, <2>3 DEF OrderInv
<1>15. OneConsumer'
  <2>1. CASE result = "none"
    BY <1>1, <1>3, <1>7, <1>14, <2>1, OrderGivesConsumer
  <2>2. CASE result # "none"
    <3>1. ~Consuming(w)' /\ \A x \in Workers \ {w} : Consuming(x)' => Consuming(x)
      BY <1>1, <1>6, <2>2 DEF Consuming
    <3>2. next'[w] # reading
      <4>1. next'[w] # 0 => After(w)' = next'[w]
        BY DEF After
      <4> QED
        BY <1>3, <1>9, <1>11, <4>1
    <3>3. \A x \in Workers : next'[x] = reading => Halted(x)'
      BY <1>0, <1>6, <3>2 DEF OneConsumer, Halted
    <3> QED
      BY <1>0, <1>1, <1>2, <1>6, <3>1, <3>3 DEF OneConsumer
  <2> QED
    BY <2>1, <2>2
<1>16. LinkInv'
  <2>1. ~Halted(w)' /\ \A x \in Workers \ {w} : Halted(x)' => Halted(x)
    BY <1>6 DEF Halted
  <2> QED
    BY <1>0, <1>1, <1>2, <1>6, <1>10, <2>1 DEF LinkInv
<1>17. ReadingInv'
  <2>1. ASSUME result = "none", NEW u \in Workers, u >= reading, ~PassedOver(u)',
               \A x \in reading..(u - 1) : PassedOver(x)'
        PROVE  Begin(u) = IndexEnd
    <3>1. ~PassedOver(w)' /\ w >= reading
      BY <1>10, <1>11, <1>3, <2>1
    <3>2. u <= w
      BY <1>3, <2>1, <3>1
    <3>3. ~PassedOver(u) /\ \A x \in reading..(u - 1) : PassedOver(x)
      <4>1. \A x \in reading..(u - 1) : x \in Workers /\ x <= w
        BY <1>3, <3>2
      <4> QED
        BY <1>10, <2>1, <4>1
    <3> QED
      BY <1>0, <2>1, <3>3 DEF ReadingInv
  <2> QED
    BY <1>1, <1>2, <2>1 DEF ReadingInv
<1>18. IndexInv'
  <2>1. SequentialChunks' = SequentialChunks
    BY <1>2 DEF SequentialChunks
  <2> QED
    BY <1>0, <1>1, <1>2, <1>3, <1>10, <2>1 DEF IndexInv
<1>19. RoomInv'
  BY <1>0, <1>1, <1>2 DEF RoomInv
<1> QED
  BY <1>7, <1>12, <1>13, <1>14, <1>15, <1>16, <1>17, <1>18, <1>19 DEF ChunkInv

-----------------------------------------------------------------------------
(* Chunks are taken from a bucket.                                         *)

\* What is left when the first m chunks are taken.
Left(b, w, m) ==
    /\ m \in 0..Len(bucket[w]) /\ b \in Seq(Chunks)
    /\ Len(b) = Len(bucket[w]) - m
    /\ \A k \in 1..Len(b) : b[k] = bucket[w][k + m]

\* The chunks that are left still follow one another, from the end of the last
\* one taken, and need no more room.
LEMMA LeftFacts ==
    ASSUME TypeOK, ChainInv, RoomInv, NEW w \in Workers, NEW b, NEW m, Left(b, w, m)
    PROVE  /\ \A k \in 1..Len(b) :
                 /\ Real(b[k])
                 /\ End(b[k]) = IF k < Len(b) THEN b[k + 1].start ELSE pos[w]
           /\ (IF b = <<>> THEN pos[w] ELSE b[1].start) =
                 IF m = 0 THEN Begin(w) ELSE End(bucket[w][m])
           /\ \/ Len(b) * MinSize <= pos[w] - StartPos(w)
              \/ pos[w] = Size /\ (Len(b) - 1) * MinSize <= Size - StartPos(w)
<1> DEFINE n == Len(bucket[w])
<1>0. /\ n \in Nat /\ m \in 0..n /\ b \in Seq(Chunks) /\ Len(b) = n - m /\ Len(b) \in Nat
      /\ data \in Files /\ Size \in Nat /\ MinSize \in Nat
      /\ StartPos(w) \in 0..Size /\ pos[w] \in 0..Size /\ bucket[w] \in Seq(Chunks)
  BY FileFacts, SizeAssumption DEF TypeOK, Left
<1>1. \A k \in 1..Len(b) : b[k] = bucket[w][k + m] /\ k + m \in 1..n
  BY <1>0 DEF Left
<1>2. \A k \in 1..n : /\ Real(bucket[w][k])
                      /\ End(bucket[w][k]) = IF k < n THEN bucket[w][k + 1].start ELSE pos[w]
  BY DEF ChainInv, Chain
<1> HIDE DEF n
<1>3. ASSUME NEW k \in 1..Len(b)
      PROVE  /\ Real(b[k])
             /\ End(b[k]) = IF k < Len(b) THEN b[k + 1].start ELSE pos[w]
  <2>1. Real(b[k]) /\ End(b[k]) = IF k + m < n THEN bucket[w][k + m + 1].start ELSE pos[w]
    BY <1>1, <1>2
  <2>2. CASE k < Len(b)
    <3>1. k + 1 \in 1..Len(b) /\ k + m < n /\ k + 1 + m = k + m + 1
      BY <1>0, <2>2
    <3>2. b[k + 1] = bucket[w][k + m + 1]
      BY <1>1, <3>1
    <3> QED
      BY <2>1, <2>2, <3>1, <3>2
  <2>3. CASE ~(k < Len(b))
    <3>1. ~(k + m < n)
      BY <1>0, <2>3
    <3> QED
      BY <2>1, <2>3, <3>1
  <2> QED
    BY <2>2, <2>3
<1>4. (IF b = <<>> THEN pos[w] ELSE b[1].start) = IF m = 0 THEN Begin(w) ELSE End(bucket[w][m])
  <2>1. CASE b = <<>>
    <3>1. m = n
      BY <1>0, <2>1
    <3>2. CASE m = 0
      <4>1. bucket[w] = <<>>
        BY <1>0, <3>1, <3>2, EmptySeq DEF n
      <4> QED
        BY <2>1, <3>2, <4>1 DEF Begin
    <3>3. CASE m # 0
      BY <1>0, <1>2, <2>1, <3>1, <3>3
    <3> QED
      BY <3>2, <3>3
  <2>2. CASE b # <<>>
    <3>1. 1 \in 1..Len(b) /\ m < n
      BY <1>0, <2>2
    <3>2. b[1] = bucket[w][1 + m]
      BY <1>1, <3>1
    <3>3. CASE m = 0
      <4>1. bucket[w] # <<>> /\ 1 + m = 1
        BY <1>0, <3>1, <3>3 DEF n
      <4> QED
        BY <2>2, <3>2, <3>3, <4>1 DEF Begin
    <3>4. CASE m # 0
      <4>1. m \in 1..n /\ 1 + m = m + 1
        BY <1>0, <3>4
      <4> QED
        BY <1>2, <2>2, <3>1, <3>2, <3>4, <4>1
    <3> QED
      BY <3>3, <3>4
  <2> QED
    BY <2>1, <2>2
<1>5. \/ Len(b) * MinSize <= pos[w] - StartPos(w)
      \/ pos[w] = Size /\ (Len(b) - 1) * MinSize <= Size - StartPos(w)
  <2>1. CASE n * MinSize <= pos[w] - StartPos(w)
    <3>1. Len(b) * MinSize <= n * MinSize
      BY <1>0, TimesMonotone
    <3>2. Len(b) * MinSize \in Int /\ n * MinSize \in Int
      BY <1>0
    <3> QED
      BY <1>0, <2>1, <3>1, <3>2
  <2>2. CASE pos[w] = Size /\ (n - 1) * MinSize <= Size - StartPos(w)
    <3>1. CASE Len(b) = 0
      <4>1. (Len(b) - 1) * MinSize = -MinSize
        BY <1>0, <3>1
      <4> QED
        BY <1>0, <2>2, <4>1
    <3>2. CASE Len(b) # 0
      <4>1. (Len(b) - 1) * MinSize <= (n - 1) * MinSize
        BY <1>0, <3>2, TimesMonotone
      <4>2. (Len(b) - 1) * MinSize \in Int /\ (n - 1) * MinSize \in Int
        BY <1>0
      <4> QED
        BY <1>0, <2>2, <4>1, <4>2
    <3> QED
      BY <3>1, <3>2
  <2> QED
    BY <2>1, <2>2 DEF RoomInv, n
<1> QED
  BY <1>3, <1>4, <1>5

\* The main loop takes a chunk.
LEMMA AcceptKeeps ==
    ASSUME ChunkInv, Accept
    PROVE  ChunkInv'
<1>0. /\ TypeOK /\ ChainInv /\ SyncInv /\ OrderInv /\ OneConsumer /\ LinkInv
      /\ ReadingInv /\ IndexInv /\ RoomInv
  BY DEF ChunkInv
<1> DEFINE r == reading
           c == bucket[r][1]
<1>1. /\ result = "none" /\ bucket[r] # <<>> /\ index' = Append(index, Head(bucket[r]))
      /\ bucket' = [bucket EXCEPT ![r] = Tail(@)]
      /\ UNCHANGED <<data, pos, last, sync, next, pc, eof, err, stopped, reading, result,
                     cancelled>>
  BY DEF Accept
<1>2. /\ Size' = Size /\ Count' = Count /\ Workers' = Workers /\ ChunksFrom' = ChunksFrom
      /\ (\A x : StartPos(x)' = StartPos(x)) /\ (\A x : Real(x)' = Real(x))
      /\ \A x : After(x)' = After(x) /\ PassedOver(x)' = PassedOver(x)
  BY <1>1, DataSame, PartsSame
<1>3. /\ data \in Files /\ Count \in Nat \ {0} /\ Workers = 1..Count /\ r \in Workers
      /\ bucket[r] \in Seq(Chunks) /\ index \in Seq(Chunks) /\ Size \in Nat
  BY <1>0, FileFacts DEF TypeOK
<1>4. /\ \A x \in Workers \ {r} : bucket'[x] = bucket[x]
      /\ bucket'[r] = Tail(bucket[r]) /\ bucket' \in [Workers -> Seq(Chunks)]
  BY <1>0, <1>1, <1>3 DEF TypeOK
<1>5. Head(bucket[r]) = c /\ c \in Chunks /\ index' = Append(index, c) /\ 1 \in 1..Len(bucket[r])
  BY <1>1, <1>3
<1>6. Left(bucket'[r], r, 1)
  <2>1. /\ Len(Tail(bucket[r])) = Len(bucket[r]) - 1 /\ Len(bucket[r]) \in Nat
        /\ \A k \in 1..Len(Tail(bucket[r])) : Tail(bucket[r])[k] = bucket[r][k + 1]
        /\ Tail(bucket[r]) \in Seq(Chunks)
    BY <1>1, <1>3
  <2> QED
    BY <1>4, <1>5, <2>1 DEF Left
<1>7. /\ \A k \in 1..Len(bucket'[r]) :
            /\ Real(bucket'[r][k])
            /\ End(bucket'[r][k]) =
                  IF k < Len(bucket'[r]) THEN bucket'[r][k + 1].start ELSE pos[r]
      /\ (IF bucket'[r] = <<>> THEN pos[r] ELSE bucket'[r][1].start) = End(c)
      /\ \/ Len(bucket'[r]) * MinSize <= pos[r] - StartPos(r)
         \/ pos[r] = Size /\ (Len(bucket'[r]) - 1) * MinSize <= Size - StartPos(r)
  BY <1>0, <1>3, <1>6, LeftFacts
<1>8. Begin(r)' = End(c) /\ \A x \in Workers \ {r} : Begin(x)' = Begin(x)
  BY <1>1, <1>4, <1>7 DEF Begin
<1>9. Real(c) /\ c.start = Begin(r)
  BY <1>0, <1>1, <1>3, <1>5 DEF ChainInv, Chain, Begin
<1> HIDE DEF c, r
<1>10. IndexEnd' = End(c)
  <2>1. index' # <<>> /\ index'[Len(index')] = c
    BY <1>3, <1>5
  <2> QED
    BY <2>1 DEF IndexEnd, End
<1>11. TypeOK'
  <2>1. index' \in Seq(Chunks)
    BY <1>3, <1>5
  <2>2. bucket' \in [Workers -> Seq(Chunks)]
    BY <1>4
  <2>3. UNCHANGED <<data, pos, last, sync, next, pc, eof, err, stopped, reading, result, cancelled>>
    BY <1>1
  <2>4. Workers' = Workers /\ Size' = Size /\ Count' = Count
    BY <1>2
  <2> QED
    BY <1>0, <2>1, <2>2, <2>3, <2>4 DEF TypeOK
<1>12. ChainInv'
  <2>1. ASSUME NEW x \in Workers, NEW k \in 1..Len(bucket'[x])
        PROVE  /\ Real(bucket'[x][k])
               /\ End(bucket'[x][k]) =
                     IF k < Len(bucket'[x]) THEN bucket'[x][k + 1].start ELSE pos[x]
    <3>1. CASE x = r
      BY <1>7, <2>1, <3>1
    <3>2. CASE x # r
      BY <1>0, <1>4, <2>1, <3>2 DEF ChainInv, Chain
    <3> QED
      BY <3>1, <3>2
  <2>2. (\A x : Real(x)' = Real(x)) /\ Workers' = Workers /\ pos' = pos
    BY <1>1, <1>2
  <2> QED
    BY <2>1, <2>2 DEF ChainInv, Chain, End
<1>13. SyncInv'
  <2>1. \A x \in Workers : x > reading => Begin(x)' = Begin(x)
    BY <1>3, <1>8 DEF r
  <2> QED
    BY <1>0, <1>1, <1>2, <2>1 DEF SyncInv, End
<1>14. OrderInv'
  <2>1. \A u \in Workers : bucket[u] = <<>> => bucket'[u] = <<>>
    BY <1>1, <1>4
  <2> QED
    BY <1>0, <1>1, <1>2, <2>1 DEF OrderInv
<1>15. OneConsumer'
  BY <1>1, <1>3, <1>11, <1>14, OrderGivesConsumer
<1>16. LinkInv'
  <2>1. ASSUME NEW x \in Workers, x >= r, next[x] # 0 PROVE Begin(next[x])' = Begin(next[x])
    <3>1. next[x] \in 0..Count /\ After(x) = next[x] /\ x < After(x)
      BY <1>0, <2>1 DEF OrderInv, After, TypeOK
    <3>2. next[x] \in Workers /\ next[x] # r
      BY <1>3, <2>1, <3>1
    <3> QED
      BY <1>1, <1>8, <3>2
  <2>2. \A x \in Workers : Halted(x)' = Halted(x)
    BY <1>1 DEF Halted
  <2> QED
    BY <1>0, <1>1, <1>2, <2>1, <2>2 DEF LinkInv, r
<1>17. ~PassedOver(r) /\ Begin(r) = IndexEnd
  <2>1. ~PassedOver(r)
    BY <1>0, <1>1, <1>3 DEF OrderInv, PassedOver
  <2>2. reading..(reading - 1) = {}
    BY <1>3 DEF r
  <2> QED
    BY <1>0, <1>1, <1>3, <2>1, <2>2 DEF ReadingInv, r
<1>18. ReadingInv'
  <2>1. ASSUME NEW u \in Workers, u >= r, \A x \in r..(u - 1) : PassedOver(x)
        PROVE  Begin(u)' = IndexEnd'
    <3>1. u = r
      BY <1>3, <1>17, <2>1
    <3> QED
      BY <1>1, <1>8, <1>10, <3>1 DEF r
  <2> QED
    BY <1>1, <1>2, <2>1 DEF ReadingInv, r
<1>19. IndexInv'
  <2> DEFINE e == IndexEnd
  <2>1. /\ e = c.start /\ c.start \in 0..(Size - 1) /\ c = ChunkAt(c.start)
        /\ End(c) = CutAfter(c.start) /\ End(c) \in 0..Size
    BY <1>3, <1>9, <1>17, RealFacts
  <2> HIDE DEF e
  <2>2. ChunksFrom[e] = <<c>> \o ChunksFrom[End(c)] /\ ChunksFrom[End(c)] \in Seq(Chunks)
    BY <1>3, <2>1, ChunksFromFacts
  <2>3. SequentialChunks = index \o ChunksFrom[e]
    BY <1>0 DEF IndexInv, e
  <2>4. <<c>> \in Seq(Chunks)
    BY <1>5
  <2>5. SequentialChunks = (index \o <<c>>) \o ChunksFrom[End(c)]
    <3> DEFINE s == <<c>>
               t == ChunksFrom[End(c)]
    <3>1. index \in Seq(Chunks) /\ s \in Seq(Chunks) /\ t \in Seq(Chunks)
      BY <1>3, <2>2, <2>4
    <3>2. SequentialChunks = index \o (s \o t)
      BY <2>2, <2>3, Zenon
    <3> HIDE DEF s, t
    <3>3. (index \o s) \o t = index \o (s \o t)
      BY <3>1, ConcatAssociative
    <3>4. SequentialChunks = (index \o s) \o t
      BY <3>2, <3>3, Zenon
    <3> QED
      BY <3>4, Zenon DEF s, t
  <2>6. index' = index \o <<c>>
    BY <1>3, <1>5, AppendIsConcat
  <2>7. SequentialChunks' = SequentialChunks
    BY <1>2 DEF SequentialChunks
  <2> QED
    BY <1>1, <1>2, <1>10, <2>1, <2>5, <2>6, <2>7 DEF IndexInv
<1>20. RoomInv'
  <2>1. ASSUME NEW x \in Workers
        PROVE  /\ StartPos(x) <= pos[x]
               /\ \/ Len(bucket'[x]) * MinSize <= pos[x] - StartPos(x)
                  \/ pos[x] = Size /\ (Len(bucket'[x]) - 1) * MinSize <= Size - StartPos(x)
    <3>1. CASE x = r
      BY <1>0, <1>7, <3>1 DEF RoomInv
    <3>2. CASE x # r
      BY <1>0, <1>4, <3>2 DEF RoomInv
    <3> QED
      BY <3>1, <3>2
  <2> QED
    BY <1>1, <1>2, <2>1 DEF RoomInv
<1> QED
  BY <1>11, <1>12, <1>13, <1>14, <1>15, <1>16, <1>18, <1>19, <1>20 DEF ChunkInv

-----------------------------------------------------------------------------
(* The main loop leaves a goroutine behind.                                *)

\* The one after a goroutine that is not passed over is not passed over, and
\* those in between are.
LEMMA NextIsFirst ==
    ASSUME TypeOK, OrderInv, result = "none", NEW r \in Workers, ~PassedOver(r), next[r] # 0
    PROVE  /\ next[r] \in Workers /\ r < next[r] /\ ~PassedOver(next[r])
           /\ \A x \in (r + 1)..(next[r] - 1) : PassedOver(x)
<1>0. /\ Count \in Nat \ {0} /\ Workers = 1..Count /\ next \in [Workers -> 0..Count]
  BY FileFacts DEF TypeOK
<1> DEFINE n == next[r]
<1>1. n \in Workers /\ After(r) = n /\ r < n
  BY <1>0 DEF After, OrderInv
<1>2. \A x \in Workers : After(x) \in 1..(Count + 1)
  BY <1>0 DEF After
<1> HIDE DEF n
<1>3. ASSUME NEW x \in (r + 1)..(n - 1) PROVE PassedOver(x)
  BY <1>0, <1>1 DEF PassedOver
<1>4. ASSUME NEW x \in Workers, x < n, n < After(x) PROVE FALSE
  <2>1. CASE x = r
    BY <1>1, <1>4, <2>1, <1>0
  <2>2. CASE x < r
    <3>1. r < After(x)
      BY <1>0, <1>1, <1>2, <1>4
    <3> QED
      BY <2>2, <3>1 DEF PassedOver
  <2>3. CASE r < x
    <3>1. After(x) <= n
      BY <1>0, <1>1, <1>4, <2>3 DEF OrderInv
    <3> QED
      BY <1>0, <1>1, <1>2, <1>4, <3>1
  <2> QED
    BY <1>0, <2>1, <2>2, <2>3
<1>5. ~PassedOver(n)
  BY <1>4 DEF PassedOver
<1> QED
  BY <1>1, <1>3, <1>5 DEF n

\* The main loop returns, or goes on where the goroutine left off.
LEMMA AdvanceKeeps ==
    ASSUME ChunkInv, Advance
    PROVE  ChunkInv'
<1>0. /\ TypeOK /\ ChainInv /\ SyncInv /\ OrderInv /\ OneConsumer /\ LinkInv
      /\ ReadingInv /\ IndexInv /\ RoomInv
  BY DEF ChunkInv
<1> DEFINE r == reading
<1>1. /\ result = "none" /\ bucket[r] = <<>> /\ pc[r] = "end"
      /\ UNCHANGED <<data, pos, bucket, last, sync, next, pc, eof, err, index>>
  BY DEF Advance, Closed
<1>2. /\ Size' = Size /\ Count' = Count /\ Workers' = Workers /\ ChunksFrom' = ChunksFrom
      /\ (\A x : StartPos(x)' = StartPos(x)) /\ (\A x : Real(x)' = Real(x))
      /\ \A x : Begin(x)' = Begin(x) /\ After(x)' = After(x) /\ PassedOver(x)' = PassedOver(x)
      /\ IndexEnd' = IndexEnd
  BY <1>1, DataSame, PartsSame
<1>3. /\ data \in Files /\ Count \in Nat \ {0} /\ Workers = 1..Count /\ r \in Workers
      /\ next \in [Workers -> 0..Count] /\ Size \in Nat
  BY <1>0, FileFacts DEF TypeOK
<1>4. ~PassedOver(r) => Begin(r) = IndexEnd /\ pos[r] = IndexEnd
  <2>1. r..(r - 1) = {}
    BY <1>3
  <2>2. ~PassedOver(r) => Begin(r) = IndexEnd
    BY <1>0, <1>1, <1>3, <2>1 DEF ReadingInv
  <2> QED
    BY <1>1, <2>2 DEF Begin
<1>5. ~PassedOver(r) /\ ~err[r] /\ ~eof[r] =>
         next[r] # 0 /\ Begin(next[r]) = pos[r] /\ next[r] \in Workers /\ r < next[r]
  <2>1. Halted(r) /\ r >= reading
    BY <1>1, <1>3 DEF Halted
  <2> QED
    BY <1>0, <1>1, <1>3, <2>1, NextIsFirst DEF LinkInv
<1>6. ChainInv'
  BY <1>0, <1>1, <1>2 DEF ChainInv, Chain, End
<1>7. RoomInv'
  BY <1>0, <1>1, <1>2 DEF RoomInv
<1>8. SequentialChunks' = SequentialChunks
  BY <1>2 DEF SequentialChunks
<1>9. CASE /\ err[r] \/ AtEnd(r)
           /\ result' = IF err[r] THEN "err" ELSE "ok"
           /\ cancelled' = TRUE /\ stopped' = [w \in Workers |-> TRUE] /\ UNCHANGED reading
  <2>1. result' \in {"ok", "err"}
    BY <1>9
  <2>2. TypeOK'
    BY <1>0, <1>1, <1>2, <1>9, <2>1 DEF TypeOK
  <2>3. SyncInv'
    BY <1>0, <1>1, <1>2, <1>9 DEF SyncInv, End
  <2>4. OrderInv'
    BY <1>0, <1>1, <1>2, <1>9, <2>1 DEF OrderInv
  <2>5. OneConsumer'
    <3>1. \A x \in Workers : (Consuming(x)' => Consuming(x)) /\ Halted(x)' = Halted(x)
      BY <1>1, <2>1 DEF Consuming, Halted
    <3> QED
      BY <1>0, <1>1, <1>2, <1>9, <3>1 DEF OneConsumer
  <2>6. LinkInv' /\ ReadingInv'
    BY <2>1 DEF LinkInv, ReadingInv
  <2>7. ASSUME result' = "ok", ~PassedOver(r) PROVE IndexEnd = Size
    <3>1. ~err[r] /\ (eof[r] \/ r = Count)
      BY <1>9, <2>7 DEF AtEnd
    <3>2. CASE eof[r]
      BY <1>0, <1>3, <1>4, <2>7, <3>2 DEF OrderInv
    <3>3. CASE ~eof[r] /\ r = Count
      <4>1. next[r] \in Workers /\ r < next[r]
        BY <1>5, <2>7, <3>1, <3>3
      <4> QED
        BY <1>3, <3>3, <4>1
    <3> QED
      BY <3>1, <3>2, <3>3
  <2>8. IndexInv'
    BY <1>0, <1>1, <1>2, <1>8, <1>9, <2>7 DEF IndexInv
  <2> QED
    BY <1>6, <1>7, <2>2, <2>3, <2>4, <2>5, <2>6, <2>8 DEF ChunkInv
<1>10. CASE /\ ~err[r] /\ ~AtEnd(r) /\ reading' = r + 1
            /\ UNCHANGED <<result, cancelled, stopped>>
  <2>1. ~err[r] /\ ~eof[r] /\ r # Count /\ r + 1 \in Workers
    BY <1>3, <1>10 DEF AtEnd
  <2>2. TypeOK'
    BY <1>0, <1>1, <1>2, <1>10, <2>1 DEF TypeOK
  <2>3. SyncInv'
    <3>1. \A x \in Workers : x > r + 1 => x > r
      BY <1>3
    <3> QED
      BY <1>0, <1>1, <1>2, <1>10, <3>1 DEF SyncInv, End
  <2>4. OrderInv'
    <3>1. \A x \in Workers : x < r + 1 => pc[x] = "end"
      BY <1>0, <1>1, <1>3 DEF OrderInv
    <3> QED
      BY <1>0, <1>1, <1>2, <1>10, <3>1 DEF OrderInv
  <2>5. OneConsumer'
    BY <1>1, <1>3, <1>10, <2>2, <2>4, OrderGivesConsumer
  <2>6. LinkInv'
    <3>1. \A x \in Workers : Halted(x)' = Halted(x) /\ (x >= r + 1 => x >= r)
      BY <1>1, <1>3 DEF Halted
    <3> QED
      BY <1>0, <1>1, <1>2, <1>10, <3>1 DEF LinkInv
  <2>7. ASSUME NEW u \in Workers, u >= r + 1, ~PassedOver(u),
               \A x \in (r + 1)..(u - 1) : PassedOver(x)
        PROVE  Begin(u) = IndexEnd
    <3>1. CASE PassedOver(r)
      <4>1. u >= r /\ \A x \in r..(u - 1) : x = r \/ x \in (r + 1)..(u - 1)
        BY <1>3, <2>7
      <4>2. \A x \in r..(u - 1) : PassedOver(x)
        BY <2>7, <3>1, <4>1
      <4> QED
        BY <1>0, <1>1, <2>7, <4>1, <4>2 DEF ReadingInv
    <3>2. CASE ~PassedOver(r)
      <4>1. /\ next[r] \in Workers /\ r < next[r] /\ ~PassedOver(next[r])
            /\ \A x \in (r + 1)..(next[r] - 1) : PassedOver(x)
            /\ Begin(next[r]) = IndexEnd
        BY <1>0, <1>1, <1>3, <1>4, <1>5, <2>1, <3>2, NextIsFirst
      <4>2. ~(u < next[r]) /\ ~(next[r] < u)
        BY <1>3, <2>7, <4>1
      <4> QED
        BY <1>3, <4>1, <4>2
    <3> QED
      BY <3>1, <3>2
  <2>8. ReadingInv'
    BY <1>1, <1>2, <1>10, <2>7 DEF ReadingInv
  <2>9. IndexInv'
    BY <1>0, <1>1, <1>2, <1>8, <1>10 DEF IndexInv
  <2> QED
    BY <1>6, <1>7, <2>2, <2>3, <2>4, <2>5, <2>6, <2>8, <2>9 DEF ChunkInv
<1> QED
  BY <1>9, <1>10 DEF Advance

-----------------------------------------------------------------------------
(* A goroutine compares its chunk with the bucket of the next one.         *)

\* The sync field fits the bucket.
Fits(v) == sync[v] = NoChunk \/ (Real(sync[v]) /\ End(sync[v]) = Begin(v))

\* The sync field and the bucket are chunks that follow one another, except
\* that the first may be no chunk.
LEMMA SeenFacts ==
    ASSUME TypeOK, ChainInv, NEW v \in Workers, Fits(v)
    PROVE  /\ Seen(v) \in Seq(Chunks) /\ Len(Seen(v)) = Len(bucket[v]) + 1
           /\ Len(bucket[v]) \in Nat /\ bucket[v] \in Seq(Chunks)
           /\ Seen(v)[1] = sync[v]
           /\ \A j \in 1..Len(bucket[v]) : Seen(v)[j + 1] = bucket[v][j]
           /\ \A j \in 1..Len(Seen(v)) : Seen(v)[j] = NoChunk \/ Real(Seen(v)[j])
           /\ \A j \in 2..Len(Seen(v)) : Real(Seen(v)[j])
           /\ \A j \in 1..(Len(Seen(v)) - 1) :
                 Real(Seen(v)[j]) => End(Seen(v)[j]) = Seen(v)[j + 1].start
           /\ ~Real(NoChunk)
<1> DEFINE n == Len(bucket[v])
           s == Seen(v)
<1>1. bucket[v] \in Seq(Chunks) /\ sync[v] \in Chunks /\ data \in Files /\ n \in Nat
  BY DEF TypeOK
<1>2. s \in Seq(Chunks) /\ Len(s) = n + 1 /\ s[1] = sync[v] /\ \A j \in 1..n : s[j + 1] = bucket[v][j]
  <2>1. <<sync[v]>> \in Seq(Chunks) /\ Len(<<sync[v]>>) = 1 /\ <<sync[v]>>[1] = sync[v]
    BY <1>1
  <2>2. s = <<sync[v]>> \o bucket[v]
    BY DEF Seen
  <2>3. s \in Seq(Chunks) /\ Len(s) = n + 1
    BY <1>1, <2>1, <2>2, ConcatProperties
  <2>4. s[1] = sync[v]
    BY <1>1, <2>1, <2>2, ConcatProperties
  <2>5. ASSUME NEW j \in 1..n PROVE s[j + 1] = bucket[v][j]
    BY <1>1, <2>1, <2>2, ConcatProperties
  <2> QED
    BY <2>3, <2>4, <2>5
<1>3. \A j \in 1..n : /\ Real(bucket[v][j])
                      /\ End(bucket[v][j]) = IF j < n THEN bucket[v][j + 1].start ELSE pos[v]
  BY DEF ChainInv, Chain
<1> HIDE DEF s, n
<1>4. ASSUME NEW j \in 2..(n + 1) PROVE Real(s[j])
  <2>1. j - 1 \in 1..n /\ (j - 1) + 1 = j
    BY <1>1
  <2> QED
    BY <1>2, <1>3, <2>1
<1>5. s[1] = NoChunk \/ Real(s[1])
  BY <1>2 DEF Fits
<1>6. \A j \in 1..(n + 1) : s[j] = NoChunk \/ Real(s[j])
  <2>1. \A j \in 1..(n + 1) : j = 1 \/ j \in 2..(n + 1)
    BY <1>1
  <2> QED
    BY <1>4, <1>5, <2>1
<1>7. ~Real(NoChunk)
  <2>1. ASSUME Real(NoChunk) PROVE FALSE
    <3>1. End(NoChunk) \in (NoChunk.start + 1)..Size
      BY <1>1, <2>1, RealFacts
    <3> QED
      BY <1>1, <3>1, FileFacts DEF NoChunk, End
  <2> QED
    BY <2>1
<1>8. ASSUME NEW j \in 1..n, Real(s[j]) PROVE End(s[j]) = s[j + 1].start
  <2>1. CASE j = 1
    <3>1. End(sync[v]) = Begin(v)
      BY <1>2, <1>7, <1>8, <2>1 DEF Fits
    <3>2. bucket[v] # <<>> /\ s[2] = bucket[v][1]
      BY <1>1, <1>2, <2>1 DEF n
    <3> QED
      BY <1>2, <2>1, <3>1, <3>2 DEF Begin
  <2>2. CASE j # 1
    <3>1. j - 1 \in 1..n /\ j - 1 < n /\ (j - 1) + 1 = j
      BY <1>1, <2>2
    <3>2. s[j] = bucket[v][j - 1] /\ s[j + 1] = bucket[v][j]
      BY <1>2, <3>1
    <3> QED
      BY <1>3, <3>1, <3>2
  <2> QED
    BY <2>1, <2>2
<1>9. Len(s) - 1 = n
  BY <1>1, <1>2
<1> QED
  BY <1>1, <1>2, <1>4, <1>6, <1>7, <1>8, <1>9 DEF s, n

\* What SubSeq leaves after the first m elements.
LEMMA SuffixFacts ==
    ASSUME NEW S, NEW s \in Seq(S), NEW m \in 1..Len(s)
    PROVE  LET b == SubSeq(s, m + 1, Len(s))
           IN  /\ b \in Seq(S) /\ Len(b) = Len(s) - m
               /\ \A k \in 1..Len(b) : b[k] = s[k + m]
<1> DEFINE n == Len(s)
           b == SubSeq(s, m + 1, n)
<1>1. n \in Nat /\ m \in 1..n /\ m + 1 \in Int
  OBVIOUS
<1>2. \A i \in (m + 1)..n : s[i] \in S
  BY <1>1
<1>3. /\ b \in Seq(S)
      /\ Len(b) = IF m + 1 <= n THEN n - (m + 1) + 1 ELSE 0
      /\ \A i \in 1..(n - (m + 1) + 1) : b[i] = s[(m + 1) + i - 1]
  BY <1>1, <1>2, SubSeqProperties
<1> HIDE DEF n, b
<1>4. Len(b) = n - m
  <2>1. Len(b) = IF m + 1 <= n THEN n - (m + 1) + 1 ELSE 0
    BY <1>3
  <2>2. CASE m + 1 <= n
    BY <1>1, <2>1, <2>2
  <2>3. CASE ~(m + 1 <= n)
    BY <1>1, <2>1, <2>3
  <2> QED
    BY <2>2, <2>3
<1>5. ASSUME NEW k \in 1..Len(b) PROVE b[k] = s[k + m]
  <2>1. k \in 1..(n - (m + 1) + 1) /\ (m + 1) + k - 1 = k + m
    BY <1>1, <1>4
  <2> QED
    BY <1>3, <2>1
<1> QED
  BY <1>3, <1>4, <1>5 DEF b, n

\* What is left of the bucket after m of them, and where it begins.
LEMMA TakenFacts ==
    ASSUME TypeOK, ChainInv, RoomInv, NEW v \in Workers, Fits(v),
           NEW m \in 1..Len(Seen(v)), NEW b \in Seq(Chunks), Len(b) = Len(Seen(v)) - m,
           \A k \in 1..Len(b) : b[k] = Seen(v)[k + m]
    PROVE  /\ Left(b, v, m - 1)
           /\ Real(Seen(v)[m]) =>
                 (IF b = <<>> THEN pos[v] ELSE b[1].start) = End(Seen(v)[m])
<1> DEFINE n == Len(bucket[v])
           s == Seen(v)
<1>1. /\ s \in Seq(Chunks) /\ Len(s) = n + 1 /\ n \in Nat /\ bucket[v] \in Seq(Chunks)
      /\ s[1] = sync[v] /\ \A j \in 1..n : s[j + 1] = bucket[v][j]
      /\ ~Real(NoChunk)
  BY SeenFacts
<1> HIDE DEF n, s
<1>2. m \in 1..(n + 1)
  BY <1>1 DEF s
<1>3. b \in Seq(Chunks) /\ Len(b) = n + 1 - m /\ \A k \in 1..Len(b) : b[k] = s[k + m]
  BY <1>1 DEF s
<1>4. Left(b, v, m - 1)
  <2>1. m - 1 \in 0..n /\ Len(b) = n - (m - 1)
    BY <1>1, <1>2, <1>3
  <2>2. ASSUME NEW k \in 1..Len(b) PROVE b[k] = bucket[v][k + (m - 1)]
    <3>0. k \in 1..(n + 1 - m) /\ m \in 1..(n + 1) /\ n \in Nat
      BY <1>1, <1>2, <1>3
    <3>1. k + (m - 1) \in 1..n /\ (k + (m - 1)) + 1 = k + m
      BY <3>0
    <3> QED
      BY <1>1, <1>3, <3>1
  <2> QED
    BY <1>3, <2>1, <2>2 DEF Left, n
<1>5. ASSUME Real(s[m]) PROVE (IF b = <<>> THEN pos[v] ELSE b[1].start) = End(s[m])
  <2> DEFINE q == m - 1
  <2>0. Left(b, v, q)
    BY <1>4
  <2> HIDE DEF q
  <2>1. (IF b = <<>> THEN pos[v] ELSE b[1].start) =
           IF q = 0 THEN Begin(v) ELSE End(bucket[v][q])
    BY <2>0, LeftFacts
  <2> USE DEF q
  <2>2. CASE m = 1
    <3>1. End(s[m]) = Begin(v) /\ m - 1 = 0
      BY <1>1, <1>5, <2>2 DEF Fits
    <3> QED
      BY <2>1, <3>1
  <2>3. CASE m # 1
    <3>1. m - 1 \in 1..n /\ (m - 1) + 1 = m /\ m - 1 # 0
      BY <1>1, <1>2, <2>3
    <3>2. s[m] = bucket[v][m - 1]
      BY <1>1, <3>1
    <3> QED
      BY <2>1, <3>1, <3>2
  <2> QED
    BY <2>2, <2>3
<1> QED
  BY <1>4, <1>5 DEF s

\* The null chunks after number k.
LEMMA NullRunFacts ==
    ASSUME NEW v, Len(Seen(v)) \in Nat, NEW k \in 1..Len(Seen(v))
    PROVE  /\ NullRun(v, k) \in 0..(Len(Seen(v)) - k)
           /\ \A i \in 1..NullRun(v, k) : Seen(v)[k + i].null
<1> DEFINE b == Len(Seen(v)) - k
           S == {j \in 0..b : \A i \in 1..j : Seen(v)[k + i].null}
<1>1. b \in Nat /\ 0 \in S /\ S \in SUBSET (0..b)
  OBVIOUS
<1>2. NullRun(v, k) = Max(S)
  BY DEF NullRun
<1>3. Max(S) \in S
  BY <1>1, MaxIn
<1> QED
  BY <1>2, <1>3

\* A null chunk of the file has the maximum size, and is followed by another
\* chunk only if the minimum is smaller.
LEMMA NullChunkFacts ==
    ASSUME data \in Files, NEW c, Real(c), c.null
    PROVE  /\ End(c) = c.start + MaxSize
           /\ \A q \in (c.start + 1)..End(c) : data[q] = "zero"
           /\ End(c) < Size => MinSize < MaxSize
<1>1. /\ c.start \in 0..(Size - 1) /\ End(c) \in (c.start + 1)..Size /\ c \in Chunks
      /\ End(c) = Size \/ End(c) > c.start + MinSize
      /\ IsNull(c.start, c.size)
      /\ Size \in Nat /\ MinSize \in Nat /\ MaxSize \in Nat
  BY RealFacts, FileFacts, SizeAssumption
<1>2. c.size = MaxSize /\ \A q \in (c.start + 1)..(c.start + c.size) : data[q] = "zero"
  BY <1>1 DEF IsNull
<1>3. End(c) = c.start + MaxSize
  BY <1>2 DEF End
<1> QED
  BY <1>1, <1>2, <1>3

\* Two null chunks of the next goroutine around the start of a chunk make it
\* null; the zeros after it are those of the null chunks that follow.
LEMMA ZeroesFacts ==
    ASSUME TypeOK, ChainInv, NEW v \in Workers, Fits(v), NEW c, Real(c),
           NEW k \in 2..Len(Seen(v)), Seen(v)[k].null, Seen(v)[k - 1].null,
           Seen(v)[k - 1].start < c.start, c.start <= Seen(v)[k].start
    PROVE  /\ MinSize < MaxSize /\ Zeroes(v, c, k) \in Nat
           /\ End(c) + Zeroes(v, c, k) <= Size
           /\ \A q \in (End(c) + 1)..(End(c) + Zeroes(v, c, k)) : data[q] = "zero"
<1> DEFINE s == Seen(v)
           R == NullRun(v, k)
           a == s[k - 1].start
<1>0. /\ data \in Files /\ Size \in Nat /\ MinSize \in Nat /\ MaxSize \in Nat \ {0}
      /\ Len(s) \in Nat /\ k \in 2..Len(s)
      /\ \A j \in 1..Len(s) : s[j] = NoChunk \/ Real(s[j])
      /\ \A j \in 1..(Len(s) - 1) : Real(s[j]) => End(s[j]) = s[j + 1].start
      /\ R \in 0..(Len(s) - k) /\ \A i \in 1..R : s[k + i].null
  <2>1. /\ data \in Files /\ Size \in Nat /\ MinSize \in Nat /\ MaxSize \in Nat \ {0}
    BY FileFacts, SizeAssumption DEF TypeOK
  <2>2. /\ Len(s) \in Nat
        /\ \A j \in 1..Len(s) : s[j] = NoChunk \/ Real(s[j])
        /\ \A j \in 1..(Len(s) - 1) : Real(s[j]) => End(s[j]) = s[j + 1].start
    BY SeenFacts
  <2>3. k \in 1..Len(s)
    BY <2>2
  <2>4. R \in 0..(Len(s) - k) /\ \A i \in 1..R : s[k + i].null
    BY <2>2, <2>3, NullRunFacts
  <2> QED
    BY <2>1, <2>2, <2>4
<1> DEFINE E(j) == End(s[(k - 1) + j])
           Good(j) == /\ E(j) = a + MaxSize * (j + 1) /\ E(j) <= Size
                      /\ \A q \in (a + 1)..E(j) : data[q] = "zero"
<1>1. ASSUME NEW j \in 0..(R + 1)
      PROVE  (k - 1) + j \in 1..Len(s) /\ s[(k - 1) + j].null
  <2>0. (k - 1) + j \in 1..Len(s)
    BY <1>0
  <2>1. CASE j = 0
    <3>1. (k - 1) + j = k - 1
      BY <1>0, <2>1
    <3> QED
      BY <2>0, <3>1
  <2>2. CASE j = 1
    <3>1. (k - 1) + j = k
      BY <1>0, <2>2
    <3> QED
      BY <2>0, <3>1
  <2>3. CASE j # 0 /\ j # 1
    <3>1. j - 1 \in 1..R /\ (k - 1) + j = k + (j - 1)
      BY <1>0, <2>3
    <3>2. s[k + (j - 1)].null
      BY <1>0, <3>1
    <3> QED
      BY <2>0, <3>1, <3>2
  <2> QED
    BY <2>1, <2>2, <2>3
<1>2. ASSUME NEW j \in 0..(R + 1)
      PROVE  /\ Real(s[(k - 1) + j]) /\ E(j) = s[(k - 1) + j].start + MaxSize
             /\ E(j) \in 0..Size
             /\ \A q \in (s[(k - 1) + j].start + 1)..E(j) : data[q] = "zero"
             /\ E(j) < Size => MinSize < MaxSize
  <2> DEFINE x == s[(k - 1) + j]
  <2>1. (x = NoChunk \/ Real(x)) /\ x.null
    BY <1>0, <1>1
  <2>2. Real(x)
    BY <2>1 DEF NoChunk
  <2> HIDE DEF x
  <2>3. /\ End(x) = x.start + MaxSize /\ \A q \in (x.start + 1)..End(x) : data[q] = "zero"
        /\ End(x) < Size => MinSize < MaxSize
    BY <1>0, <2>1, <2>2, NullChunkFacts
  <2>4. End(x) \in (x.start + 1)..Size /\ x.start \in 0..(Size - 1)
    BY <1>0, <2>2, RealFacts
  <2>5. End(x) \in 0..Size
    BY <1>0, <2>4
  <2> QED
    BY <2>2, <2>3, <2>5 DEF x
<1>3. a \in 0..(Size - 1)
  <2>1. Real(s[(k - 1) + 0]) /\ (k - 1) + 0 = k - 1
    BY <1>0, <1>2
  <2> QED
    BY <1>0, <2>1, RealFacts
<1> HIDE DEF s, R, a
<1>4. ASSUME NEW j \in 0..R PROVE E(j) = s[(k - 1) + (j + 1)].start
  <2>1. j \in 0..(R + 1) /\ (k - 1) + j \in 1..(Len(s) - 1) /\ ((k - 1) + j) + 1 = (k - 1) + (j + 1)
    BY <1>0
  <2>2. Real(s[(k - 1) + j])
    BY <1>2, <2>1
  <2> QED
    BY <1>0, <2>1, <2>2
<1> HIDE DEF E
<1>n. R \in Nat /\ 0 \in 0..(R + 1) /\ R + 1 \in 0..(R + 1)
  BY <1>0
<1> DEFINE Bad == {j \in 0..(R + 1) : ~Good(j)}
<1>5. ASSUME Bad # {} PROVE FALSE
  <2>1. Bad \in SUBSET Nat
    <3>1. \A j \in 0..(R + 1) : j \in Nat
      BY <1>n
    <3> QED
      BY <3>1, Zenon
  <2>2. PICK j \in Bad : \A y \in Bad : j <= y
    BY <1>5, <2>1, LeastElement
  <2>3. CASE j = 0
    <3>1. 0 \in 0..(R + 1) /\ (k - 1) + 0 = k - 1
      BY <1>0
    <3>2. E(0) = a + MaxSize /\ E(0) \in 0..Size /\ \A q \in (a + 1)..E(0) : data[q] = "zero"
      BY <1>2, <3>1 DEF a
    <3>3. MaxSize * (0 + 1) = MaxSize
      BY <1>0
    <3>4. Good(0)
      BY <1>0, <3>2, <3>3
    <3> QED
      BY <2>2, <2>3, <3>4
  <2>4. CASE j # 0
    <3> DEFINE i == j - 1
    <3>0. j \in 0..(R + 1) /\ R \in Nat
      BY <1>0, <2>2
    <3>1. i \in 0..R /\ i \in 0..(R + 1) /\ i + 1 = j /\ i \notin Bad
      BY <2>2, <2>4, <3>0
    <3>2. Good(i)
      BY <3>1
    <3>3. s[(k - 1) + j].start = E(i)
      BY <1>4, <3>1
    <3>4. /\ E(j) = E(i) + MaxSize /\ E(j) \in 0..Size
          /\ \A q \in (E(i) + 1)..E(j) : data[q] = "zero"
      BY <1>2, <3>0, <3>3
    <3>5. MaxSize * (j + 1) = MaxSize * (i + 1) + MaxSize
      BY <1>0, <3>0, <3>1
    <3>6. E(j) = a + MaxSize * (j + 1)
      <4>1. E(i) = a + MaxSize * (i + 1)
        BY <3>2
      <4>2. MaxSize * (i + 1) \in Int /\ MaxSize * (j + 1) \in Int
        BY <1>0, <3>0
      <4> QED
        BY <1>0, <1>3, <3>4, <3>5, <4>1, <4>2
    <3>7. E(i) \in 0..Size
      BY <1>2, <3>1
    <3>8. ASSUME NEW q \in (a + 1)..E(j) PROVE data[q] = "zero"
      <4>1. q \in (a + 1)..E(i) \/ q \in (E(i) + 1)..E(j)
        BY <1>0, <1>3, <3>4, <3>7, <3>8
      <4> QED
        BY <3>2, <3>4, <4>1
    <3>9. Good(j)
      BY <1>0, <3>4, <3>6, <3>8
    <3> QED
      BY <2>2, <3>9
  <2> QED
    BY <2>3, <2>4
<1>6. Good(R + 1)
  <2>1. R + 1 \notin Bad
    BY <1>5, Zenon
  <2> QED
    BY <1>n, <2>1, Zenon
<1>7. MinSize < MaxSize
  <2>1. 0 \in 0..(R + 1) /\ 1 \in 0..(R + 1) /\ (k - 1) + 1 = k /\ 0 \in 0..R
    BY <1>0
  <2>2. E(0) = s[k].start /\ Real(s[k])
    BY <1>2, <1>4, <2>1
  <2>3. s[k].start \in 0..(Size - 1)
    BY <1>0, <2>2, RealFacts
  <2> QED
    BY <1>0, <1>2, <2>1, <2>2, <2>3
<1>8. /\ s[k].start = a + MaxSize /\ a < c.start /\ c.start <= a + MaxSize
      /\ c.start \in 0..(Size - 1)
  <2>1. 0 \in 0..R /\ (k - 1) + (0 + 1) = k /\ 0 \in 0..(R + 1) /\ (k - 1) + 0 = k - 1
    BY <1>0
  <2>2. E(0) = s[k].start /\ E(0) = a + MaxSize
    BY <1>2, <1>4, <2>1 DEF a
  <2>3. a < c.start /\ c.start <= s[k].start
    BY DEF a, s
  <2> QED
    BY <1>0, <2>2, <2>3, RealFacts
<1> DEFINE t == MaxSize * R
           e == E(R + 1)
<1>9. t \in Nat /\ e = a + t + 2 * MaxSize /\ e <= Size /\ \A q \in (a + 1)..e : data[q] = "zero"
  <2>1. MaxSize * ((R + 1) + 1) = MaxSize * R + 2 * MaxSize /\ MaxSize * R \in Nat
    BY <1>0
  <2>2. /\ e = a + MaxSize * ((R + 1) + 1) /\ e <= Size
        /\ \A q \in (a + 1)..e : data[q] = "zero"
    BY <1>6, Zenon
  <2>3. t \in Nat /\ e = a + (t + 2 * MaxSize) /\ a \in Int /\ MaxSize \in Int
    BY <1>0, <1>3, <2>1, <2>2
  <2> HIDE DEF t, e
  <2>4. e = a + t + 2 * MaxSize
    BY <2>3
  <2> QED
    BY <2>2, <2>3, <2>4, Zenon
<1> HIDE DEF t, e
<1>10. End(c) = c.start + MaxSize
  <2> DEFINE p == c.start
  <2>0. /\ p \in 0..(Size - 1) /\ a < p /\ p <= a + MaxSize
        /\ Size \in Nat /\ MaxSize \in Nat /\ a \in 0..(Size - 1) /\ t \in Nat
        /\ e = a + t + 2 * MaxSize /\ e <= Size
    BY <1>0, <1>3, <1>8, <1>9
  <2> HIDE DEF p
  <2>1. p \in 0..Size /\ p + MaxSize <= Size /\ a < p /\ p + MaxSize <= e
    BY <2>0
  <2>2. \A q \in (p + 1)..(p + MaxSize) : data[q] = "zero"
    <3>1. \A q \in (p + 1)..(p + MaxSize) : q \in (a + 1)..e
      BY <2>0, <2>1
    <3>2. \A q \in (a + 1)..e : data[q] = "zero"
      BY <1>9
    <3> QED
      BY <3>1, <3>2, Zenon
  <2>3. CutAfter(p) = p + MaxSize
    BY <1>0, <1>7, <2>1, <2>2, NullFacts
  <2> QED
    BY <1>0, <2>3, RealFacts DEF p
<1>11. Zeroes(v, c, k) = a + MaxSize - c.start + t
  <2> DEFINE y == s[k - 1].start
             z == s[k - 1].size
             p == c.start
  <2>1. y + z = a + MaxSize /\ Real(s[k - 1])
    <3>1. 0 \in 0..(R + 1) /\ (k - 1) + 0 = k - 1
      BY <1>0
    <3> QED
      BY <1>2, <3>1 DEF E, End, a
  <2>2. Zeroes(v, c, k) = y + z - p + t
    BY Zenon DEF Zeroes, s, t, R
  <2>3. y \in Nat /\ z \in Nat /\ p \in Nat
    BY <1>0, <1>8, <2>1, RealFacts DEF Chunks
  <2> HIDE DEF y, z, p
  <2>4. y + z - p + t = a + MaxSize - p + t
    <3>1. MaxSize \in Int /\ a \in Int /\ t \in Int /\ y + z = a + MaxSize
      BY <1>0, <1>3, <1>9, <2>1
    <3> QED
      BY <2>3, <3>1
  <2> QED
    BY <2>2, <2>4, Zenon DEF p
<1>12. End(c) + Zeroes(v, c, k) = e /\ Zeroes(v, c, k) \in Nat
  <2> DEFINE p == c.start
             z == Zeroes(v, c, k)
  <2>1. /\ p \in 0..(Size - 1) /\ p <= a + MaxSize /\ z = a + MaxSize - p + t
        /\ End(c) = p + MaxSize
    BY <1>8, <1>10, <1>11
  <2>2. /\ Size \in Nat /\ MaxSize \in Nat /\ a \in 0..(Size - 1) /\ t \in Nat
        /\ e = a + t + 2 * MaxSize
    BY <1>0, <1>3, <1>9
  <2> HIDE DEF p, z
  <2>3. End(c) + z = e /\ z \in Nat
    BY <2>1, <2>2
  <2> QED
    BY <2>3 DEF z
<1>13. \A q \in (End(c) + 1)..e : q \in (a + 1)..e
  BY <1>0, <1>3, <1>8, <1>9, <1>10
<1> QED
  BY <1>7, <1>9, <1>12, <1>13

\* Of the chunks seen the first m are taken, the last of which becomes the sync
\* field; in sync, that one ends where chunk c ends.
TakenUpTo(s, v, c, m) ==
    /\ m \in 1..Len(Seen(v))
    /\ s.bucket = SubSeq(Seen(v), m + 1, Len(Seen(v)))
    /\ s.sync = Seen(v)[m] \/ s.sync = NoChunk
    /\ s.inSync => s.sync = Seen(v)[m] /\ Real(Seen(v)[m]) /\ End(Seen(v)[m]) = End(c)

\* The z bytes after chunk c are zero.
ZerosAfter(c, z) ==
    /\ MinSize < MaxSize /\ End(c) + z <= Size
    /\ \A q \in (End(c) + 1)..(End(c) + z) : data[q] = "zero"

\* What syncWith returns.
LEMMA SyncWithFacts ==
    ASSUME TypeOK, ChainInv, NEW v \in Workers, Fits(v), NEW c, Real(c)
    PROVE  /\ SyncWith(v, c).inSync \in BOOLEAN /\ SyncWith(v, c).zeroes \in Nat
           /\ \E m : TakenUpTo(SyncWith(v, c), v, c, m)
           /\ SyncWith(v, c).zeroes > 0 => ZerosAfter(c, SyncWith(v, c).zeroes)
<1> DEFINE s     == SyncWith(v, c)
           seen  == Seen(v)
           n     == Len(seen)
           empty == IF Closed(v) THEN NoChunk ELSE Last(seen)
           k     == Min(Reaches(v, c))
           same  == seen[k].start = c.start /\ seen[k].size = c.size
           null  == k > 1 /\ seen[k].null /\ seen[k - 1].null
           stop  == k + NullRun(v, k) + 1
<1>0. /\ n \in Nat /\ n >= 1 /\ seen \in Seq(Chunks)
      /\ \A j \in 1..n : seen[j] = NoChunk \/ Real(seen[j])
  BY SeenFacts
<1>1. empty = seen[n] \/ empty = NoChunk
  BY DEF Last
<1>2. \A m \in Nat : m >= n => SubSeq(seen, m + 1, n) = <<>>
  BY <1>0, SubSeqEmpty
<1>3. c.start \in Nat /\ c.size \in Nat /\ c.size # 0
  <2>1. /\ End(c) \in (c.start + 1)..Size /\ c.start \in 0..(Size - 1) /\ Size \in Nat
        /\ c \in Chunks
    BY RealFacts, FileFacts DEF TypeOK
  <2> QED
    BY <2>1 DEF End, Chunks
<1>4. CASE Reaches(v, c) = {}
  <2>1. s = [inSync |-> FALSE, zeroes |-> 0, sync |-> empty, bucket |-> <<>>]
    BY <1>4, Zenon DEF SyncWith
  <2> HIDE DEF s, empty
  <2>2. s.inSync = FALSE /\ s.zeroes = 0 /\ s.sync = empty /\ s.bucket = <<>>
    BY <2>1
  <2>3. n \in 1..n /\ SubSeq(seen, n + 1, n) = <<>>
    BY <1>0, <1>2
  <2>4. TakenUpTo(s, v, c, n)
    BY <1>1, <2>2, <2>3, Zenon DEF TakenUpTo
  <2>5. s.inSync \in BOOLEAN /\ s.zeroes \in Nat /\ ~(s.zeroes > 0)
    <3>1. s.inSync \in BOOLEAN
      BY <2>2, Zenon
    <3>2. s.zeroes = 0
      BY <2>2, Zenon
    <3> QED
      BY <3>1, <3>2
  <2> QED
    BY <2>4, <2>5, Zenon DEF s
<1>5. CASE Reaches(v, c) # {}
  <2>0. Reaches(v, c) \in SUBSET Nat
    BY <1>0 DEF Reaches
  <2>1. k \in Reaches(v, c) /\ \A j \in Reaches(v, c) : k <= j
    BY <1>5, <2>0, MinIn
  <2>2. k \in 1..n /\ seen[k].start >= c.start
    BY <2>1, Zenon DEF Reaches
  <2>3. CASE same \/ ~null
    <3>1. s = [inSync |-> same, zeroes |-> 0, sync |-> seen[k],
               bucket |-> SubSeq(seen, k + 1, n)]
      BY <1>5, <2>3, Zenon DEF SyncWith
    <3>2. ASSUME same PROVE Real(seen[k]) /\ End(seen[k]) = End(c)
      <4>1. End(seen[k]) = End(c)
        BY <3>2, Zenon DEF End
      <4>2. seen[k].size # 0
        BY <1>3, <3>2
      <4>3. seen[k] # NoChunk
        BY <4>2 DEF NoChunk
      <4> QED
        BY <1>0, <2>2, <4>1, <4>3, Zenon
    <3>3. same \in BOOLEAN
      BY Zenon
    <3> HIDE DEF s, same, k, seen
    <3>4. /\ s.inSync = same /\ s.zeroes = 0 /\ s.sync = seen[k]
          /\ s.bucket = SubSeq(seen, k + 1, n)
      BY <3>1, Zenon
    <3>5. TakenUpTo(s, v, c, k)
      BY <2>2, <3>2, <3>4, Zenon DEF TakenUpTo, seen
    <3>6. s.inSync \in BOOLEAN /\ s.zeroes \in Nat /\ ~(s.zeroes > 0)
      BY <3>3, <3>4
    <3> QED
      BY <3>5, <3>6, Zenon DEF s
  <2>4. CASE ~same /\ null
    <3>1. s = [inSync |-> FALSE, zeroes |-> Zeroes(v, c, k),
               sync   |-> IF stop <= n THEN seen[stop] ELSE empty,
               bucket |-> SubSeq(seen, stop + 1, n)]
      BY <1>5, <2>4, Zenon DEF SyncWith
    <3>2. k \in 2..n /\ k - 1 \in 1..n /\ seen[k].null /\ seen[k - 1].null
      BY <1>0, <2>2, <2>4
    <3>3. seen[k - 1].start \in Nat /\ seen[k].start \in Nat
      <4>1. seen[k - 1] \in Chunks /\ seen[k] \in Chunks
        BY <1>0, <2>2, <3>2
      <4> QED
        BY <4>1 DEF Chunks
    <3> HIDE DEF s, same, null, k, stop, empty
    <3>4. seen[k - 1].start < c.start /\ c.start <= seen[k].start
      <4>1. ~(k - 1 \in Reaches(v, c))
        BY <1>0, <2>1, <2>2
      <4>2. ~(seen[k - 1].start >= c.start)
        BY <3>2, <4>1, Zenon DEF Reaches
      <4> QED
        BY <1>3, <2>2, <3>3, <4>2
    <3>5. stop \in Nat /\ stop >= 1
      <4>1. NullRun(v, k) \in 0..(n - k)
        BY <1>0, <2>2, NullRunFacts
      <4> QED
        BY <1>0, <2>2, <4>1 DEF stop
    <3>6. /\ MinSize < MaxSize /\ Zeroes(v, c, k) \in Nat
          /\ End(c) + Zeroes(v, c, k) <= Size
          /\ \A q \in (End(c) + 1)..(End(c) + Zeroes(v, c, k)) : data[q] = "zero"
      BY <3>2, <3>4, ZeroesFacts
    <3> HIDE DEF seen
    <3>7. /\ s.inSync = FALSE /\ s.zeroes = Zeroes(v, c, k)
          /\ s.sync = IF stop <= n THEN seen[stop] ELSE empty
          /\ s.bucket = SubSeq(seen, stop + 1, n)
      BY <3>1, Zenon
    <3>8. \E m : TakenUpTo(s, v, c, m)
      <4>1. CASE stop <= n
        <5>1. stop \in 1..n /\ s.sync = seen[stop]
          BY <1>0, <3>5, <3>7, <4>1
        <5>2. TakenUpTo(s, v, c, stop)
          BY <3>7, <5>1, Zenon DEF TakenUpTo, seen
        <5> QED
          BY <5>2, Zenon
      <4>2. CASE ~(stop <= n)
        <5>1. n \in 1..n /\ stop >= n /\ n \in Nat /\ n >= n
          BY <1>0, <3>5, <4>2
        <5>2. SubSeq(seen, stop + 1, n) = <<>> /\ SubSeq(seen, n + 1, n) = <<>>
          BY <1>2, <3>5, <5>1, Zenon
        <5>3. s.sync = seen[n] \/ s.sync = NoChunk
          BY <1>1, <3>7, <4>2, Zenon
        <5>4. s.bucket = SubSeq(seen, n + 1, n)
          BY <3>7, <5>2, Zenon
        <5>5. TakenUpTo(s, v, c, n)
          BY <3>7, <5>1, <5>3, <5>4, Zenon DEF TakenUpTo, seen
        <5> QED
          BY <5>5, Zenon
      <4> QED
        BY <4>1, <4>2
    <3>9. s.inSync \in BOOLEAN /\ s.zeroes \in Nat /\ ZerosAfter(c, s.zeroes)
      BY <3>6, <3>7, Zenon DEF ZerosAfter
    <3> QED
      BY <3>8, <3>9, Zenon DEF s
  <2> QED
    BY <2>3, <2>4
<1> QED
  BY <1>4, <1>5

\* The null chunks put in place of the zeros after a chunk are those of the
\* file.
LEMMA NullsFacts ==
    ASSUME data \in Files, NEW c, Real(c), NEW z \in Nat, z > 0 => ZerosAfter(c, z)
    PROVE  /\ z \div MaxSize \in Nat /\ End(c) + (z \div MaxSize) * MaxSize <= Size
           /\ \A i \in 1..(z \div MaxSize) : Real(NullAt(End(c) + (i - 1) * MaxSize))
<1> DEFINE count == z \div MaxSize
           e == End(c)
<1>0. /\ Size \in Nat /\ MaxSize \in Nat \ {0} /\ e \in 0..Size /\ e \in Nat
  <2>1. End(c) \in (c.start + 1)..Size /\ c.start \in 0..(Size - 1)
    BY RealFacts
  <2> QED
    BY <2>1, FileFacts, SizeAssumption
<1>1. count \in Nat /\ count * MaxSize <= z
  BY <1>0, DivFacts
<1> HIDE DEF e, count
<1>2. CASE z = 0
  <2>1. count * MaxSize <= 0
    BY <1>1, <1>2
  <2>2. CASE count = 0
    <3>1. count * MaxSize = 0
      BY <1>0, <2>2
    <3>2. 1..count = {}
      BY <2>2
    <3> QED
      BY <1>0, <1>1, <3>1, <3>2 DEF e, count
  <2>3. CASE count # 0
    <3>1. 1 * MaxSize <= count * MaxSize
      BY <1>0, <1>1, <2>3, TimesMonotone
    <3> QED
      BY <1>0, <1>1, <2>1, <3>1
  <2> QED
    BY <2>2, <2>3
<1>3. CASE z > 0
  <2>1. /\ MinSize < MaxSize /\ e + z <= Size
        /\ \A q \in (e + 1)..(e + z) : data[q] = "zero"
    BY <1>3 DEF ZerosAfter, e
  <2>2. e + count * MaxSize <= Size
    <3>1. count * MaxSize \in Nat
      BY <1>0, <1>1
    <3> QED
      BY <1>0, <1>1, <2>1, <3>1
  <2>3. ASSUME NEW i \in 1..count PROVE Real(NullAt(e + (i - 1) * MaxSize))
    <3> DEFINE p == e + (i - 1) * MaxSize
               x == (i - 1) * MaxSize
               y == i * MaxSize
    <3>1. x \in Nat /\ y \in Nat /\ y = x + MaxSize /\ y <= count * MaxSize
      <4>1. i \in Nat /\ i - 1 \in Nat /\ i <= count
        BY <1>1, <2>3
      <4>2. x \in Nat /\ y \in Nat /\ y = x + MaxSize
        BY <1>0, <4>1
      <4> QED
        BY <1>0, <1>1, <4>1, <4>2, TimesMonotone
    <3>2. p = e + x /\ y <= z
      <4>1. count * MaxSize \in Int
        BY <1>0, <1>1
      <4> QED
        BY <1>1, <3>1, <4>1
    <3> HIDE DEF x, y
    <3>3. p \in 0..Size /\ p + MaxSize <= Size /\ e <= p /\ p + MaxSize <= e + z
      BY <1>0, <2>1, <3>1, <3>2
    <3> HIDE DEF p
    <3>4. \A q \in (p + 1)..(p + MaxSize) : data[q] = "zero"
      BY <1>0, <2>1, <3>3
    <3>5. p \in 0..(Size - 1) /\ ChunkAt(p) = NullAt(p)
      BY <2>1, <3>3, <3>4, NullFacts
    <3>6. Real(NullAt(p))
      BY <3>5, ChunkAtReal
    <3> QED
      BY <3>6 DEF p
  <2> QED
    BY <1>1, <2>2, <2>3 DEF e, count
<1> QED
  BY <1>2, <1>3

\* Bucket b is that of w with j null chunks more.
Grown(b, w, j) ==
    /\ b \in Seq(Chunks) /\ Len(b) = Len(bucket[w]) + j
    /\ \A i \in 1..Len(bucket[w]) : b[i] = bucket[w][i]
    /\ \A i \in 1..j : b[Len(bucket[w]) + i] = NullAt(pos[w] + (i - 1) * MaxSize)

\* The null chunks follow the chunks in the bucket, up to where the chunker
\* is sent, and there is room for them.
LEMMA GrownFacts ==
    ASSUME TypeOK, ChainInv, RoomInv, NEW w \in Workers, NEW b, NEW j \in Nat, Grown(b, w, j),
           pos[w] + j * MaxSize <= Size,
           \A i \in 1..j : Real(NullAt(pos[w] + (i - 1) * MaxSize))
    PROVE  LET p == pos[w] + j * MaxSize
           IN  /\ p \in 0..Size /\ StartPos(w) <= p
               /\ \A k \in 1..Len(b) :
                     /\ Real(b[k])
                     /\ End(b[k]) = IF k < Len(b) THEN b[k + 1].start ELSE p
               /\ (IF b = <<>> THEN p ELSE b[1].start) = Begin(w)
               /\ \/ Len(b) * MinSize <= p - StartPos(w)
                  \/ p = Size /\ (Len(b) - 1) * MinSize <= Size - StartPos(w)
<1> DEFINE n == Len(bucket[w])
           g == j * MaxSize
           p == pos[w] + g
<1>0. /\ n \in Nat /\ Size \in Nat /\ pos[w] \in 0..Size /\ MaxSize \in Nat \ {0}
      /\ MinSize \in Nat /\ MinSize <= MaxSize /\ bucket[w] \in Seq(Chunks)
      /\ StartPos(w) \in 0..Size
  BY FileFacts, SizeAssumption DEF TypeOK
<1>1. g \in Nat
  BY <1>0
<1>2. /\ b \in Seq(Chunks) /\ Len(b) = n + j
      /\ \A i \in 1..n : b[i] = bucket[w][i]
      /\ \A i \in 1..j : b[n + i] = NullAt(pos[w] + (i - 1) * MaxSize)
  BY DEF Grown
<1>3. StartPos(w) <= pos[w]
  BY DEF RoomInv
<1>4. \A i \in 1..n : /\ Real(bucket[w][i])
                      /\ End(bucket[w][i]) = IF i < n THEN bucket[w][i + 1].start ELSE pos[w]
  BY DEF ChainInv, Chain
<1>5. p <= Size
  OBVIOUS
<1> HIDE DEF n, g
<1>6. p \in 0..Size /\ StartPos(w) <= p
  BY <1>0, <1>1, <1>3, <1>5
<1>7. \A i \in 1..j : /\ b[n + i].start = pos[w] + (i - 1) * MaxSize /\ Real(b[n + i])
                      /\ End(b[n + i]) = pos[w] + i * MaxSize
  <2>1. ASSUME NEW i \in 1..j
        PROVE  /\ b[n + i].start = pos[w] + (i - 1) * MaxSize /\ Real(b[n + i])
               /\ End(b[n + i]) = pos[w] + i * MaxSize
    <3> DEFINE x == (i - 1) * MaxSize
               y == i * MaxSize
    <3>1. x \in Int /\ y = x + MaxSize
      BY <1>0
    <3>2. b[n + i] = NullAt(pos[w] + x) /\ Real(NullAt(pos[w] + x))
      BY <1>2
    <3> HIDE DEF x, y
    <3>3. b[n + i].start = pos[w] + x /\ b[n + i].size = MaxSize
      BY <3>2 DEF NullAt
    <3>4. End(b[n + i]) = pos[w] + y
      BY <1>0, <3>1, <3>3 DEF End
    <3> QED
      BY <3>2, <3>3, <3>4 DEF x, y
  <2> QED
    BY <2>1
<1>8. j > 0 => b[n + 1].start = pos[w]
  <2>1. ASSUME j > 0 PROVE b[n + 1].start = pos[w]
    <3>1. 1 \in 1..j /\ (1 - 1) * MaxSize = 0
      BY <1>0, <2>1
    <3>2. b[n + 1].start = pos[w] + (1 - 1) * MaxSize
      BY <1>7, <3>1
    <3> QED
      BY <1>0, <3>1, <3>2
  <2> QED
    BY <2>1
<1>9. j = 0 => p = pos[w]
  BY <1>0 DEF g
<1>10. ASSUME NEW k \in 1..Len(b)
       PROVE  /\ Real(b[k])
              /\ End(b[k]) = IF k < Len(b) THEN b[k + 1].start ELSE p
  <2>0. k \in 1..(n + j) /\ Len(b) = n + j
    BY <1>2
  <2>1. CASE k < n
    <3>1. k \in 1..n /\ k + 1 \in 1..n /\ k < Len(b)
      BY <1>0, <2>0, <2>1
    <3> QED
      BY <1>2, <1>4, <2>1, <3>1
  <2>2. CASE k = n
    <3>1. k \in 1..n /\ Real(b[k]) /\ End(b[k]) = pos[w]
      <4>1. k \in 1..n /\ ~(k < n)
        BY <1>0, <2>0, <2>2
      <4> QED
        BY <1>2, <1>4, <4>1
    <3>2. CASE j = 0
      <4>1. ~(k < Len(b))
        BY <1>0, <2>0, <2>2, <3>2
      <4> QED
        BY <1>9, <3>1, <3>2, <4>1
    <3>3. CASE j > 0
      <4>1. k < Len(b)
        BY <1>0, <2>0, <2>2, <3>3
      <4> QED
        BY <1>8, <2>2, <3>1, <3>3, <4>1
    <3> QED
      BY <3>2, <3>3
  <2>3. CASE k > n
    <3> DEFINE i == k - n
    <3>1. i \in 1..j /\ n + i = k
      BY <1>0, <2>0, <2>3
    <3> HIDE DEF i
    <3>2. Real(b[k]) /\ End(b[k]) = pos[w] + i * MaxSize
      BY <1>7, <3>1
    <3>3. CASE i = j
      <4>1. ~(k < Len(b))
        BY <1>0, <2>0, <3>1, <3>3
      <4> QED
        BY <3>2, <3>3, <4>1 DEF g
    <3>4. CASE i # j
      <4>1. k < Len(b) /\ i + 1 \in 1..j /\ n + (i + 1) = k + 1 /\ (i + 1) - 1 = i
        BY <1>0, <2>0, <3>1, <3>4
      <4>2. b[k + 1].start = pos[w] + i * MaxSize
        BY <1>7, <4>1
      <4> QED
        BY <3>2, <4>1, <4>2
    <3> QED
      BY <3>3, <3>4
  <2> QED
    BY <1>0, <2>0, <2>1, <2>2, <2>3
<1>11. (IF b = <<>> THEN p ELSE b[1].start) = Begin(w)
  <2>1. CASE n > 0
    <3>1. b # <<>> /\ 1 \in 1..n /\ bucket[w] # <<>>
      BY <1>0, <1>2, <2>1 DEF n
    <3> QED
      BY <1>2, <3>1 DEF Begin
  <2>2. CASE n = 0 /\ j > 0
    <3>1. b # <<>> /\ bucket[w] = <<>> /\ n + 1 = 1
      BY <1>0, <1>2, <2>2, EmptySeq DEF n
    <3> QED
      BY <1>8, <2>2, <3>1 DEF Begin
  <2>3. CASE n = 0 /\ j = 0
    <3>1. b = <<>> /\ bucket[w] = <<>>
      BY <1>0, <1>2, <2>3, EmptySeq DEF n
    <3> QED
      BY <1>9, <2>3, <3>1 DEF Begin
  <2> QED
    BY <1>0, <2>1, <2>2, <2>3
<1>12. \/ Len(b) * MinSize <= p - StartPos(w)
       \/ p = Size /\ (Len(b) - 1) * MinSize <= Size - StartPos(w)
  <2>1. CASE j = 0
    BY <1>0, <1>2, <1>9, <2>1 DEF RoomInv, n
  <2>2. CASE j > 0
    <3>1. 1 * MaxSize <= j * MaxSize /\ 1 * MaxSize = MaxSize
      BY <1>0, <2>2, TimesMonotone
    <3>2. pos[w] < Size
      BY <1>0, <1>1, <1>5, <3>1 DEF g
    <3>3. n * MinSize <= pos[w] - StartPos(w)
      BY <1>0, <3>2 DEF RoomInv, n
    <3>4. MinSize * j <= MaxSize * j
      BY <1>0, TimesMonotone
    <3> DEFINE x == n * MinSize
               y == MinSize * j
    <3>5. x \in Int /\ y \in Int /\ Len(b) * MinSize = x + y /\ g = MaxSize * j
      <4>1. (n + j) * MinSize = n * MinSize + MinSize * j /\ j * MaxSize = MaxSize * j
        BY <1>0
      <4> QED
        BY <1>0, <1>2, <4>1 DEF g
    <3>6. x <= pos[w] - StartPos(w) /\ y <= g
      BY <3>3, <3>4, <3>5
    <3> HIDE DEF x, y
    <3> QED
      BY <1>0, <1>1, <3>5, <3>6
  <2> QED
    BY <2>1, <2>2
<1> QED
  BY <1>6, <1>10, <1>11, <1>12 DEF g

\* A goroutine that compares has not been left behind, and the next one, which
\* it compares with, is a later one.
LEMMA SyncStart ==
    ASSUME ChunkInv, NEW w \in Workers, pc[w] = "sync"
    PROVE  /\ data \in Files /\ next[w] \in Workers /\ w < next[w] /\ reading <= w
           /\ Fits(next[w]) /\ Real(last[w]) /\ End(last[w]) = pos[w]
<1>0. TypeOK /\ SyncInv /\ OrderInv
  BY DEF ChunkInv
<1>1. data \in Files /\ Count \in Nat \ {0} /\ Workers = 1..Count
  BY <1>0, FileFacts DEF TypeOK
<1>2. next[w] # 0 /\ Real(last[w]) /\ End(last[w]) = pos[w]
  BY <1>0 DEF SyncInv
<1>3. next[w] \in Workers /\ w < next[w]
  <2>1. next[w] \in 0..Count /\ After(w) = next[w]
    BY <1>0, <1>2 DEF TypeOK, After
  <2> QED
    BY <1>0, <1>1, <1>2, <2>1 DEF OrderInv
<1>4. reading <= w
  <2>1. reading \in Workers /\ ~(w < reading)
    BY <1>0 DEF OrderInv, TypeOK
  <2> QED
    BY <1>1, <2>1
<1>5. next[w] > reading
  <2>1. reading \in Workers
    BY <1>0 DEF TypeOK
  <2> QED
    BY <1>1, <1>3, <1>4, <2>1
<1>6. Fits(next[w])
  BY <1>0, <1>3, <1>5 DEF SyncInv, Fits
<1> QED
  BY <1>1, <1>2, <1>3, <1>4, <1>6

\* What the step does to the bucket of the next goroutine: chunks are taken,
\* and the sync field fits those that are left.
LEMMA SyncTakes ==
    ASSUME ChunkInv, NEW w \in Workers, pc[w] = "sync"
    PROVE  LET v == next[w]
               s == SyncWith(v, last[w])
               e == IF s.bucket = <<>> THEN pos[v] ELSE s.bucket[1].start
           IN  /\ s.bucket \in Seq(Chunks) /\ s.sync \in Chunks
               /\ bucket[v] = <<>> => s.bucket = <<>>
               /\ \A k \in 1..Len(s.bucket) :
                     /\ Real(s.bucket[k])
                     /\ End(s.bucket[k]) =
                           IF k < Len(s.bucket) THEN s.bucket[k + 1].start ELSE pos[v]
               /\ \/ Len(s.bucket) * MinSize <= pos[v] - StartPos(v)
                  \/ pos[v] = Size /\ (Len(s.bucket) - 1) * MinSize <= Size - StartPos(v)
               /\ s.sync = NoChunk \/ (Real(s.sync) /\ End(s.sync) = e)
               /\ s.inSync => e = pos[w]
<1> DEFINE v == next[w]
           c == last[w]
           s == SyncWith(v, c)
           b == s.bucket
           e == IF b = <<>> THEN pos[v] ELSE b[1].start
           seen == Seen(v)
           n == Len(seen)
<1>0. TypeOK /\ ChainInv /\ RoomInv
  BY DEF ChunkInv
<1>1. data \in Files /\ v \in Workers /\ Fits(v) /\ Real(c) /\ End(c) = pos[w]
  BY SyncStart
<1> HIDE DEF v, c
<1>2. PICK m : TakenUpTo(s, v, c, m)
  BY <1>0, <1>1, SyncWithFacts
<1>3. /\ seen \in Seq(Chunks) /\ n = Len(bucket[v]) + 1 /\ bucket[v] \in Seq(Chunks)
      /\ \A j \in 1..n : seen[j] = NoChunk \/ Real(seen[j])
      /\ Len(bucket[v]) \in Nat
  BY <1>0, <1>1, SeenFacts
<1> HIDE DEF s
<1>4. /\ m \in 1..n /\ b = SubSeq(seen, m + 1, n)
      /\ s.sync = seen[m] \/ s.sync = NoChunk
      /\ s.inSync => s.sync = seen[m] /\ Real(seen[m]) /\ End(seen[m]) = End(c)
  BY <1>2, Zenon DEF TakenUpTo
<1> HIDE DEF seen
<1>5. b \in Seq(Chunks) /\ Len(b) = n - m /\ \A k \in 1..Len(b) : b[k] = seen[k + m]
  <2>1. LET t == SubSeq(seen, m + 1, n)
        IN  /\ t \in Seq(Chunks) /\ Len(t) = n - m
            /\ \A k \in 1..Len(t) : t[k] = seen[k + m]
    BY <1>3, <1>4, SuffixFacts
  <2> QED
    BY <1>4, <2>1, Zenon
<1> HIDE DEF b
<1>6. /\ Left(b, v, m - 1)
      /\ Real(seen[m]) => e = End(seen[m])
  BY <1>0, <1>1, <1>4, <1>5, TakenFacts DEF seen
<1>7. /\ \A k \in 1..Len(b) :
            /\ Real(b[k])
            /\ End(b[k]) = IF k < Len(b) THEN b[k + 1].start ELSE pos[v]
      /\ \/ Len(b) * MinSize <= pos[v] - StartPos(v)
         \/ pos[v] = Size /\ (Len(b) - 1) * MinSize <= Size - StartPos(v)
  BY <1>0, <1>1, <1>6, LeftFacts
<1> HIDE DEF e
<1>8. s.sync = NoChunk \/ (Real(s.sync) /\ End(s.sync) = e)
  BY <1>3, <1>4, <1>6, Zenon
<1>9. s.inSync => e = pos[w]
  BY <1>1, <1>4, <1>6, Zenon
<1>10. s.sync \in Chunks
  <2>1. NoChunk \in Chunks
    BY DEF NoChunk, Chunks
  <2>2. seen[m] \in Chunks
    BY <1>3, <1>4
  <2> QED
    BY <1>4, <2>1, <2>2, Zenon
<1>11. bucket[v] = <<>> => b = <<>>
  <2>1. ASSUME bucket[v] = <<>> PROVE b = <<>>
    <3>1. Len(bucket[v]) = 0
      BY <2>1
    <3>2. Len(b) = 0
      BY <1>3, <1>4, <1>5, <3>1
    <3> QED
      BY <1>5, <3>2, EmptySeq
  <2> QED
    BY <2>1
<1> QED
  BY <1>5, <1>7, <1>8, <1>9, <1>10, <1>11, Zenon DEF e, b, s, c, v, n

\* What the step does to the goroutine itself: it may add null chunks, it stops
\* or goes on, and it stops without an error only when it is in sync.
LEMMA SyncAdds ==
    ASSUME ChunkInv, NEW w \in Workers, Sync(w)
    PROVE  LET v == next[w]
               s == SyncWith(v, last[w])
           IN  /\ pc[w] = "sync" /\ sync' = [sync EXCEPT ![v] = s.sync]
               /\ bucket' \in [Workers -> Seq(Chunks)] /\ bucket'[v] = s.bucket
               /\ \A x \in Workers \ {v, w} : bucket'[x] = bucket[x]
               /\ pos' \in [Workers -> 0..Size]
               /\ \A x \in Workers \ {w} : pos'[x] = pos[x]
               /\ StartPos(w) <= pos'[w] /\ pos[w] <= pos'[w]
               /\ \A k \in 1..Len(bucket'[w]) :
                     /\ Real(bucket'[w][k])
                     /\ End(bucket'[w][k]) =
                           IF k < Len(bucket'[w]) THEN bucket'[w][k + 1].start ELSE pos'[w]
               /\ (IF bucket'[w] = <<>> THEN pos'[w] ELSE bucket'[w][1].start) = Begin(w)
               /\ \/ Len(bucket'[w]) * MinSize <= pos'[w] - StartPos(w)
                  \/ pos'[w] = Size /\ (Len(bucket'[w]) - 1) * MinSize <= Size - StartPos(w)
               /\ \E l \in {"stop", "skip"} : pc' = [pc EXCEPT ![w] = l]
               /\ err' \in [Workers -> BOOLEAN] /\ \A x \in Workers \ {w} : err'[x] = err[x]
               /\ pc'[w] = "stop" /\ ~err'[w] => s.inSync /\ pos'[w] = pos[w]
<1> DEFINE v     == next[w]
           c     == last[w]
           s     == SyncWith(v, c)
           count == s.zeroes \div MaxSize
           nulls == [i \in 1..count |-> NullAt(c.start + c.size + (i - 1) * MaxSize)]
<1>0. /\ TypeOK /\ ChainInv /\ RoomInv /\ pc[w] = "sync"
      /\ data \in Files /\ v \in Workers /\ w < v /\ w \in Workers
      /\ Fits(v) /\ Real(c) /\ End(c) = pos[w]
  <2>1. pc[w] = "sync"
    BY DEF Sync
  <2> QED
    BY <2>1, SyncStart DEF ChunkInv
<1>1. /\ s.inSync \in BOOLEAN /\ s.zeroes \in Nat
      /\ s.zeroes > 0 => ZerosAfter(c, s.zeroes)
  BY <1>0, SyncWithFacts
<1>2. s.bucket \in Seq(Chunks)
  BY <1>0, SyncTakes
<1>3. /\ count \in Nat /\ End(c) + count * MaxSize <= Size
      /\ \A i \in 1..count : Real(NullAt(End(c) + (i - 1) * MaxSize))
  <2> DEFINE z == s.zeroes
  <2>1. z \in Nat /\ (z > 0 => ZerosAfter(c, z))
    BY <1>1
  <2> HIDE DEF z, c
  <2>2. /\ z \div MaxSize \in Nat /\ End(c) + (z \div MaxSize) * MaxSize <= Size
        /\ \A i \in 1..(z \div MaxSize) : Real(NullAt(End(c) + (i - 1) * MaxSize))
    BY <1>0, <2>1, NullsFacts
  <2> QED
    BY <2>2, Zenon DEF z
<1>4. /\ sync' = [sync EXCEPT ![v] = s.sync]
      /\ \/ /\ s.inSync /\ pc' = [pc EXCEPT ![w] = "stop"]
            /\ bucket' = [bucket EXCEPT ![v] = s.bucket] /\ UNCHANGED <<pos, err>>
         \/ /\ ~s.inSync /\ pc' = [pc EXCEPT ![w] = "skip"]
            /\ bucket' = [bucket EXCEPT ![v] = s.bucket, ![w] = @ \o nulls]
            /\ pos' = [pos EXCEPT ![w] = @ + count * MaxSize] /\ UNCHANGED err
         \/ /\ pc' = [pc EXCEPT ![w] = "stop"]
            /\ bucket' = [bucket EXCEPT ![v] = s.bucket]
            /\ err' = [err EXCEPT ![w] = TRUE] /\ UNCHANGED pos
  BY Zenon DEF Sync, Goto
<1> HIDE DEF s
<1>5. /\ nulls \in Seq(Chunks) /\ Len(nulls) = count
      /\ \A i \in 1..count : nulls[i] = NullAt(pos[w] + (i - 1) * MaxSize)
  <2>1. End(c) = c.start + c.size
    BY DEF End
  <2>2. \A i \in 1..count : nulls[i] = NullAt(End(c) + (i - 1) * MaxSize)
    BY <2>1, Zenon
  <2>3. \A i \in 1..count : nulls[i] \in Chunks
    BY <1>0, <1>3, <2>2, RealFacts
  <2>4. nulls = [i \in 1..count |-> nulls[i]]
    BY Zenon
  <2> HIDE DEF count, nulls
  <2>5. nulls \in Seq(Chunks) /\ Len(nulls) = count
    BY <1>3, <2>3, <2>4
  <2>6. \A i \in 1..count : nulls[i] = NullAt(pos[w] + (i - 1) * MaxSize)
    BY <1>0, <2>2, Zenon
  <2> QED
    BY <2>5, <2>6, Zenon
<1> HIDE DEF nulls, count, c, v
<1>6. /\ bucket \in [Workers -> Seq(Chunks)] /\ bucket[w] \in Seq(Chunks)
      /\ pos \in [Workers -> 0..Size] /\ pos[w] \in 0..Size /\ Size \in Nat
      /\ w # v /\ MaxSize \in Nat \ {0}
      /\ pc \in [Workers -> {"run", "sync", "skip", "stop", "close", "end"}]
      /\ err \in [Workers -> BOOLEAN]
  <2>1. Workers = 1..Count /\ Count \in Nat /\ Size \in Nat /\ MaxSize \in Nat \ {0}
    BY <1>0, FileFacts, SizeAssumption
  <2> QED
    BY <1>0, <2>1 DEF TypeOK
<1>7. \E j \in {0, count} :
         /\ Grown(bucket'[w], w, j) /\ pos'[w] = pos[w] + j * MaxSize
         /\ pc'[w] = "stop" => j = 0
  <2>1. CASE bucket' = [bucket EXCEPT ![v] = s.bucket] /\ UNCHANGED pos
    <3>1. bucket'[w] = bucket[w] /\ pos'[w] = pos[w] + 0 * MaxSize
      BY <1>6, <2>1
    <3>2. Grown(bucket'[w], w, 0)
      <4>1. Len(bucket[w]) = Len(bucket[w]) + 0 /\ 1..0 = {}
        BY <1>6
      <4> QED
        BY <1>6, <3>1, <4>1 DEF Grown
    <3> QED
      BY <3>1, <3>2
  <2>2. CASE /\ bucket' = [bucket EXCEPT ![v] = s.bucket, ![w] = @ \o nulls]
             /\ pos' = [pos EXCEPT ![w] = @ + count * MaxSize]
             /\ pc' = [pc EXCEPT ![w] = "skip"]
    <3>1. bucket'[w] = bucket[w] \o nulls /\ pos'[w] = pos[w] + count * MaxSize
      BY <1>0, <1>6, <2>2
    <3>2. pc'[w] = "skip"
      BY <1>0, <1>6, <2>2
    <3>3. Grown(bucket'[w], w, count)
      <4> DEFINE a == bucket[w]
                 d == bucket'[w]
      <4>1. a \in Seq(Chunks) /\ d = a \o nulls
        BY <1>6, <3>1
      <4> HIDE DEF a, d
      <4>2. /\ d \in Seq(Chunks) /\ Len(d) = Len(a) + Len(nulls) /\ Len(a) \in Nat
            /\ \A i \in 1..Len(a) : d[i] = a[i]
            /\ \A i \in 1..Len(nulls) : d[Len(a) + i] = nulls[i]
        <5>1. Len(a) \in Nat /\ Len(nulls) \in Nat /\ nulls \in Seq(Chunks)
          BY <1>5, <4>1
        <5>2. /\ d \in Seq(Chunks) /\ Len(d) = Len(a) + Len(nulls)
              /\ \A i \in 1..(Len(a) + Len(nulls)) :
                    d[i] = IF i <= Len(a) THEN a[i] ELSE nulls[i - Len(a)]
          BY <4>1, <5>1, ConcatProperties
        <5>3. ASSUME NEW i \in 1..Len(nulls) PROVE d[Len(a) + i] = nulls[i]
          <6>1. /\ Len(a) + i \in 1..(Len(a) + Len(nulls)) /\ ~(Len(a) + i <= Len(a))
                /\ (Len(a) + i) - Len(a) = i
            BY <5>1
          <6> QED
            BY <5>2, <6>1
        <5>4. ASSUME NEW i \in 1..Len(a) PROVE d[i] = a[i]
          <6>1. i \in 1..(Len(a) + Len(nulls)) /\ i <= Len(a)
            BY <5>1
          <6> QED
            BY <5>2, <6>1
        <5> QED
          BY <5>1, <5>2, <5>3, <5>4
      <4>3. \A i \in 1..count : d[Len(a) + i] = NullAt(pos[w] + (i - 1) * MaxSize)
        BY <1>5, <4>2, Zenon
      <4> QED
        BY <1>5, <4>2, <4>3, Zenon DEF Grown, a, d
    <3> QED
      BY <3>1, <3>2, <3>3
  <2> QED
    BY <1>4, <2>1, <2>2, Zenon
<1>8. PICK j \in {0, count} :
         /\ Grown(bucket'[w], w, j) /\ pos'[w] = pos[w] + j * MaxSize
         /\ pc'[w] = "stop" => j = 0
  BY <1>7
<1>9. /\ j \in Nat /\ pos[w] + j * MaxSize <= Size
      /\ \A i \in 1..j : Real(NullAt(pos[w] + (i - 1) * MaxSize))
  <2>1. CASE j = 0
    BY <1>6, <2>1
  <2>2. CASE j = count
    BY <1>0, <1>3, <2>2
  <2> QED
    BY <2>1, <2>2
<1> DEFINE b == bucket'[w]
           p == pos'[w]
<1>10. /\ p \in 0..Size /\ StartPos(w) <= p
       /\ \A k \in 1..Len(b) :
             /\ Real(b[k])
             /\ End(b[k]) = IF k < Len(b) THEN b[k + 1].start ELSE p
       /\ (IF b = <<>> THEN p ELSE b[1].start) = Begin(w)
       /\ \/ Len(b) * MinSize <= p - StartPos(w)
          \/ p = Size /\ (Len(b) - 1) * MinSize <= Size - StartPos(w)
  <2>1. p = pos[w] + j * MaxSize /\ Grown(b, w, j)
    BY <1>8
  <2> HIDE DEF b, p
  <2> DEFINE q == pos[w] + j * MaxSize
  <2>2. /\ q \in 0..Size /\ StartPos(w) <= q
        /\ \A k \in 1..Len(b) :
              /\ Real(b[k])
              /\ End(b[k]) = IF k < Len(b) THEN b[k + 1].start ELSE q
        /\ (IF b = <<>> THEN q ELSE b[1].start) = Begin(w)
        /\ \/ Len(b) * MinSize <= q - StartPos(w)
           \/ q = Size /\ (Len(b) - 1) * MinSize <= Size - StartPos(w)
    BY <1>0, <1>9, <2>1, GrownFacts
  <2>3. p = q
    BY <2>1
  <2> HIDE DEF q
  <2> QED
    BY <2>2, <2>3
<1>11. pos[w] <= p /\ (pc'[w] = "stop" => p = pos[w])
  <2>1. j * MaxSize \in Nat /\ (j = 0 => j * MaxSize = 0)
    BY <1>6, <1>9
  <2> QED
    BY <1>6, <1>8, <2>1
<1>12. /\ bucket' \in [Workers -> Seq(Chunks)] /\ bucket'[v] = s.bucket
       /\ \A x \in Workers \ {v, w} : bucket'[x] = bucket[x]
  <2> DEFINE t == s.bucket
  <2>1. t \in Seq(Chunks) /\ bucket[w] \o nulls \in Seq(Chunks)
    BY <1>2, <1>5, <1>6, ConcatProperties DEF s, c, v
  <2>2. \/ bucket' = [bucket EXCEPT ![v] = t]
        \/ bucket' = [bucket EXCEPT ![v] = t, ![w] = bucket[w] \o nulls]
    <3>1. [bucket EXCEPT ![v] = t, ![w] = @ \o nulls] = [bucket EXCEPT ![v] = t, ![w] = bucket[w] \o nulls]
      BY <1>0, <1>6
    <3> QED
      BY <1>4, <3>1, Zenon
  <2> DEFINE a == bucket[w] \o nulls
  <2> HIDE DEF t, a
  <2>3. /\ bucket' \in [Workers -> Seq(Chunks)] /\ bucket'[v] = t
        /\ \A x \in Workers \ {v, w} : bucket'[x] = bucket[x]
    BY <1>0, <1>6, <2>1, <2>2 DEF a
  <2> QED
    BY <2>3 DEF t
<1>13. pos' \in [Workers -> 0..Size] /\ \A x \in Workers \ {w} : pos'[x] = pos[x]
  <2>1. pos' = pos \/ pos' = [pos EXCEPT ![w] = pos[w] + count * MaxSize]
    BY <1>4, Zenon
  <2>2. pos' = pos \/ pos' = [pos EXCEPT ![w] = p]
    BY <1>0, <1>6, <2>1
  <2> QED
    BY <1>6, <1>10, <2>2
<1>14. /\ \E l \in {"stop", "skip"} : pc' = [pc EXCEPT ![w] = l]
       /\ err' \in [Workers -> BOOLEAN] /\ \A x \in Workers \ {w} : err'[x] = err[x]
       /\ pc'[w] = "stop" /\ ~err'[w] => s.inSync
  <2>1. CASE s.inSync /\ pc' = [pc EXCEPT ![w] = "stop"] /\ UNCHANGED err
    BY <1>0, <1>6, <2>1, Zenon
  <2>2. CASE pc' = [pc EXCEPT ![w] = "skip"] /\ UNCHANGED err
    <3>1. pc'[w] = "skip"
      BY <1>0, <1>6, <2>2
    <3> QED
      BY <1>6, <2>2, <3>1
  <2>3. CASE pc' = [pc EXCEPT ![w] = "stop"] /\ err' = [err EXCEPT ![w] = TRUE]
    BY <1>6, <2>3
  <2> QED
    BY <1>4, <2>1, <2>2, <2>3, Zenon
<1> QED
  BY <1>0, <1>4, <1>10, <1>11, <1>12, <1>13, <1>14, Zenon DEF v, c, s

\* The comparison: chunks are taken from the next bucket and null chunks put in
\* the own one, and a goroutine that finds itself in sync stops where the next
\* one goes on.
LEMMA SyncKeeps ==
    ASSUME ChunkInv, NEW w \in Workers, Sync(w)
    PROVE  ChunkInv'
<1>0. /\ TypeOK /\ ChainInv /\ SyncInv /\ OrderInv /\ OneConsumer /\ LinkInv
      /\ ReadingInv /\ IndexInv /\ RoomInv
  BY DEF ChunkInv
<1> DEFINE v == next[w]
           s == SyncWith(v, last[w])
           b == s.bucket
           e == IF b = <<>> THEN pos[v] ELSE b[1].start
<1>1. /\ UNCHANGED <<data, last, next, eof, stopped, reading, index, result, cancelled>>
      /\ pc[w] = "sync"
  BY DEF Sync
<1>2. /\ Size' = Size /\ Count' = Count /\ Workers' = Workers /\ ChunksFrom' = ChunksFrom
      /\ (\A x : StartPos(x)' = StartPos(x)) /\ (\A x : Real(x)' = Real(x))
      /\ \A x : After(x)' = After(x) /\ PassedOver(x)' = PassedOver(x)
      /\ IndexEnd' = IndexEnd
  BY <1>1, DataSame, PartsSame
<1>3. /\ data \in Files /\ Count \in Nat \ {0} /\ Workers = 1..Count /\ Size \in Nat
      /\ v \in Workers /\ w < v /\ reading <= w /\ reading \in Workers
  BY <1>0, <1>1, SyncStart, FileFacts DEF TypeOK
<1>4. /\ b \in Seq(Chunks) /\ s.sync \in Chunks
      /\ bucket[v] = <<>> => b = <<>>
      /\ \A k \in 1..Len(b) :
            /\ Real(b[k])
            /\ End(b[k]) = IF k < Len(b) THEN b[k + 1].start ELSE pos[v]
      /\ \/ Len(b) * MinSize <= pos[v] - StartPos(v)
         \/ pos[v] = Size /\ (Len(b) - 1) * MinSize <= Size - StartPos(v)
      /\ s.sync = NoChunk \/ (Real(s.sync) /\ End(s.sync) = e)
      /\ s.inSync => e = pos[w]
  BY <1>1, SyncTakes
<1>5. /\ sync' = [sync EXCEPT ![v] = s.sync]
      /\ bucket' \in [Workers -> Seq(Chunks)] /\ bucket'[v] = b
      /\ \A x \in Workers \ {v, w} : bucket'[x] = bucket[x]
      /\ pos' \in [Workers -> 0..Size]
      /\ \A x \in Workers \ {w} : pos'[x] = pos[x]
      /\ StartPos(w) <= pos'[w] /\ pos[w] <= pos'[w]
      /\ \A k \in 1..Len(bucket'[w]) :
            /\ Real(bucket'[w][k])
            /\ End(bucket'[w][k]) =
                  IF k < Len(bucket'[w]) THEN bucket'[w][k + 1].start ELSE pos'[w]
      /\ (IF bucket'[w] = <<>> THEN pos'[w] ELSE bucket'[w][1].start) = Begin(w)
      /\ \/ Len(bucket'[w]) * MinSize <= pos'[w] - StartPos(w)
         \/ pos'[w] = Size /\ (Len(bucket'[w]) - 1) * MinSize <= Size - StartPos(w)
      /\ \E l \in {"stop", "skip"} : pc' = [pc EXCEPT ![w] = l]
      /\ err' \in [Workers -> BOOLEAN] /\ \A x \in Workers \ {w} : err'[x] = err[x]
      /\ pc'[w] = "stop" /\ ~err'[w] => s.inSync /\ pos'[w] = pos[w]
  BY SyncAdds
<1> HIDE DEF s, v
<1>6. v # w /\ \A x \in Workers \ {w} : bucket[x] = <<>> => bucket'[x] = <<>>
  <2>1. v # w
    BY <1>3
  <2>2. bucket[v] = <<>> => bucket'[v] = <<>>
    BY <1>4, <1>5, Zenon
  <2>3. \A x \in Workers \ {v, w} : bucket'[x] = bucket[x]
    BY <1>5
  <2> QED
    BY <2>1, <2>2, <2>3
<1>7. /\ pc'[w] \in {"stop", "skip"} /\ \A x \in Workers \ {w} : pc'[x] = pc[x]
      /\ pc' \in [Workers -> {"run", "sync", "skip", "stop", "close", "end"}]
      /\ sync'[v] = s.sync /\ \A x \in Workers \ {v} : sync'[x] = sync[x]
      /\ sync' \in [Workers -> Chunks]
  <2>1. PICK l \in {"stop", "skip"} : pc' = [pc EXCEPT ![w] = l]
    BY <1>5
  <2>2. /\ pc \in [Workers -> {"run", "sync", "skip", "stop", "close", "end"}]
        /\ sync \in [Workers -> Chunks]
    BY <1>0 DEF TypeOK
  <2>3. sync' = [sync EXCEPT ![v] = s.sync] /\ s.sync \in Chunks
    BY <1>4, <1>5
  <2> QED
    BY <1>3, <2>1, <2>2, <2>3
<1> HIDE DEF b
<1>8. TypeOK'
  BY <1>0, <1>1, <1>2, <1>5, <1>7 DEF TypeOK
<1>9. Begin(w)' = Begin(w) /\ \A x \in Workers \ {v} : Begin(x)' = Begin(x)
  BY <1>5, <1>6 DEF Begin
<1>10. (IF bucket'[v] = <<>> THEN pos'[v] ELSE bucket'[v][1].start) = e
  BY <1>3, <1>5, <1>6
<1> HIDE DEF e
<1>11. ChainInv'
  <2>1. ASSUME NEW x \in Workers, NEW k \in 1..Len(bucket'[x])
        PROVE  /\ Real(bucket'[x][k])
               /\ End(bucket'[x][k]) =
                     IF k < Len(bucket'[x]) THEN bucket'[x][k + 1].start ELSE pos'[x]
    <3>1. CASE x = v
      BY <1>4, <1>5, <1>6, <2>1, <3>1
    <3>2. CASE x = w
      BY <1>5, <2>1, <3>2
    <3>3. CASE x # v /\ x # w
      <4>1. bucket'[x] = bucket[x] /\ pos'[x] = pos[x]
        BY <1>5, <3>3
      <4> QED
        BY <1>0, <2>1, <4>1 DEF ChainInv, Chain
    <3> QED
      BY <3>1, <3>2, <3>3
  <2> QED
    BY <1>2, <2>1 DEF ChainInv, Chain, End
<1>12. SyncInv'
  <2>1. ASSUME NEW x \in Workers, x > reading
        PROVE  sync'[x] = NoChunk \/ (Real(sync'[x]) /\ End(sync'[x]) = Begin(x)')
    <3>1. CASE x = v
      <4>1. Begin(x)' = e
        BY <1>10, <3>1 DEF Begin
      <4> QED
        BY <1>4, <1>7, <3>1, <4>1
    <3>2. CASE x # v
      BY <1>0, <1>7, <1>9, <2>1, <3>2 DEF SyncInv
    <3> QED
      BY <3>1, <3>2
  <2>2. ASSUME NEW x \in Workers
        PROVE  /\ pc'[x] = "sync" => Real(last[x]) /\ End(last[x]) = pos'[x]
               /\ pc'[x] \in {"sync", "skip"} => next[x] # 0
    <3>1. CASE x = w
      BY <1>0, <1>1, <1>7, <3>1 DEF SyncInv
    <3>2. CASE x # w
      BY <1>0, <1>5, <1>7, <3>2 DEF SyncInv
    <3> QED
      BY <3>1, <3>2
  <2> QED
    BY <1>1, <1>2, <2>1, <2>2 DEF SyncInv, End
<1>13. result = "none" => ~stopped[w]
  BY <1>0, <1>1 DEF OrderInv
<1>14. OrderInv'
  <2>1. \A x \in Workers : x < reading => pc'[x] = "end"
    BY <1>0, <1>1, <1>7 DEF OrderInv
  <2>2. ASSUME NEW x \in Workers, eof[x] PROVE pos'[x] = Size
    <3>1. pos[x] = Size /\ pos'[x] \in 0..Size
      BY <1>0, <1>5, <2>2 DEF OrderInv
    <3>2. CASE x = w
      BY <1>3, <1>5, <3>1, <3>2
    <3>3. CASE x # w
      BY <1>5, <3>1, <3>3
    <3> QED
      BY <3>2, <3>3
  <2>3. ASSUME result = "none" PROVE \A x \in Workers : stopped[x] <=> pc'[x] \in {"close", "end"}
    BY <1>0, <1>1, <1>7, <2>3 DEF OrderInv
  <2>4. ASSUME result = "none", NEW x \in Workers, NEW u \in Workers, x < u, u < After(x)
        PROVE  stopped[u] /\ bucket'[u] = <<>> /\ After(u) <= After(x)
    <3>1. stopped[u] /\ bucket[u] = <<>> /\ After(u) <= After(x)
      BY <1>0, <2>4 DEF OrderInv
    <3>2. u # w
      BY <1>13, <2>4, <3>1
    <3> QED
      BY <1>6, <3>1, <3>2
  <2> QED
    BY <1>0, <1>1, <1>2, <2>1, <2>2, <2>3, <2>4 DEF OrderInv
<1>15. OneConsumer'
  <2>1. CASE result = "none"
    BY <1>1, <1>3, <1>8, <1>14, <2>1, OrderGivesConsumer
  <2>2. CASE result # "none"
    <3>1. \A x \in Workers : (Consuming(x)' => Consuming(x)) /\ (Halted(x) => Halted(x)')
      BY <1>1, <1>7 DEF Consuming, Halted
    <3> QED
      BY <1>0, <1>1, <1>2, <3>1 DEF OneConsumer
  <2> QED
    BY <2>1, <2>2
<1>16. ASSUME result = "none" PROVE ~PassedOver(w)
  <2>1. \A x \in Workers : ~(x < w /\ w < After(x))
    BY <1>0, <1>13, <1>16 DEF OrderInv
  <2> QED
    BY <2>1 DEF PassedOver
<1>17. LinkInv'
  <2>1. ASSUME result = "none", NEW x \in Workers, x >= reading, ~PassedOver(x), Halted(x)',
               ~err'[x], ~eof[x]
        PROVE  next[x] # 0 /\ Begin(next[x])' = pos'[x]
    <3>1. CASE x = w
      <4>1. pc'[w] = "stop"
        BY <1>7, <2>1, <3>1 DEF Halted
      <4>2. e = pos'[w]
        BY <1>4, <1>5, <2>1, <3>1, <4>1
      <4>3. next[x] = v /\ Begin(next[x])' = e
        BY <1>1, <1>10, <3>1 DEF Begin, v
      <4>4. v # 0
        BY <1>3
      <4> QED
        BY <3>1, <4>2, <4>3, <4>4
    <3>2. CASE x # w
      <4>1. Halted(x) /\ ~err[x] /\ pos'[x] = pos[x]
        BY <1>5, <1>7, <2>1, <3>2 DEF Halted
      <4>2. next[x] # 0 /\ Begin(next[x]) = pos[x]
        BY <1>0, <2>1, <4>1 DEF LinkInv
      <4>3. next[x] \in Workers /\ After(x) = next[x] /\ x < next[x]
        <5>1. next[x] \in 0..Count /\ After(x) = next[x] /\ x < After(x)
          BY <1>0, <4>2 DEF TypeOK, After, OrderInv
        <5> QED
          BY <1>3, <4>2, <5>1
      <4>4. next[x] # v
        <5>1. SUFFICES ASSUME next[x] = v PROVE FALSE
          OBVIOUS
        <5>2. After(w) = v /\ After(x) = v
          BY <1>3, <4>3, <5>1 DEF After, v
        <5>3. x < w \/ w < x
          BY <1>3, <3>2
        <5>4. CASE x < w
          BY <1>3, <1>16, <2>1, <5>2, <5>4 DEF PassedOver
        <5>5. CASE w < x
          BY <1>3, <2>1, <4>3, <5>1, <5>2, <5>5 DEF PassedOver
        <5> QED
          BY <5>3, <5>4, <5>5
      <4> QED
        BY <1>1, <1>9, <4>1, <4>2, <4>3, <4>4
    <3> QED
      BY <3>1, <3>2
  <2> QED
    BY <1>1, <1>2, <2>1 DEF LinkInv
<1>18. ReadingInv'
  <2>1. ASSUME result = "none", NEW u \in Workers, u >= reading, ~PassedOver(u),
               \A x \in reading..(u - 1) : PassedOver(x)
        PROVE  Begin(u)' = IndexEnd
    <3>1. u # v
      <4>1. SUFFICES ASSUME u = v PROVE FALSE
        OBVIOUS
      <4>2. w \in reading..(u - 1)
        BY <1>3, <4>1
      <4> QED
        BY <1>16, <2>1, <4>2
    <3>2. Begin(u) = IndexEnd
      BY <1>0, <2>1 DEF ReadingInv
    <3> QED
      BY <1>9, <3>1, <3>2
  <2> QED
    BY <1>1, <1>2, <2>1 DEF ReadingInv
<1>19. IndexInv'
  <2>1. SequentialChunks' = SequentialChunks
    BY <1>2 DEF SequentialChunks
  <2> QED
    BY <1>0, <1>1, <1>2, <2>1 DEF IndexInv, TypeOK
<1>20. RoomInv'
  <2>1. ASSUME NEW x \in Workers
        PROVE  /\ StartPos(x) <= pos'[x]
               /\ \/ Len(bucket'[x]) * MinSize <= pos'[x] - StartPos(x)
                  \/ pos'[x] = Size /\ (Len(bucket'[x]) - 1) * MinSize <= Size - StartPos(x)
    <3>1. CASE x = w
      BY <1>5, <3>1
    <3>2. CASE x = v
      <4>1. bucket'[v] = b /\ pos'[v] = pos[v] /\ StartPos(v) <= pos[v]
        BY <1>0, <1>3, <1>5, <1>6 DEF RoomInv
      <4> QED
        BY <1>4, <3>2, <4>1
    <3>3. CASE x # v /\ x # w
      BY <1>0, <1>5, <3>3 DEF RoomInv
    <3> QED
      BY <3>1, <3>2, <3>3
  <2> QED
    BY <1>2, <2>1 DEF RoomInv
<1> QED
  BY <1>8, <1>11, <1>12, <1>14, <1>15, <1>17, <1>18, <1>19, <1>20 DEF ChunkInv

-----------------------------------------------------------------------------
(* The specification.                                                      *)

\* Initially there are no chunks, and nobody has been passed over.
LEMMA InitChunk == Init => ChunkInv
<1> SUFFICES ASSUME Init PROVE ChunkInv
  OBVIOUS
<1>1. data \in Files /\ reading = 1 /\ index = <<>> /\ result = "none" /\ cancelled = FALSE
  BY DEF Init
<1>2. /\ Count \in Nat \ {0} /\ Workers = 1..Count /\ Size \in Nat /\ StartPos(1) = 0
      /\ \A w \in Workers : StartPos(w) \in 0..Size
  BY <1>1, FileFacts
<1>3. /\ \A w \in Workers : /\ pos[w] = StartPos(w) /\ bucket[w] = <<>> /\ sync[w] = NoChunk
                            /\ next[w] = IF w = Count THEN 0 ELSE w + 1
                            /\ pc[w] = "run" /\ eof[w] = FALSE /\ stopped[w] = FALSE
      /\ MinSize \in Nat
  BY SizeAssumption DEF Init
<1>4. TypeOK
  <2>1. NoChunk \in Chunks
    BY DEF NoChunk, Chunks
  <2>2. pos \in [Workers -> 0..Size]
    BY <1>2 DEF Init
  <2>3. next \in [Workers -> 0..Count]
    BY <1>2 DEF Init
  <2>4. bucket \in [Workers -> Seq(Chunks)] /\ index \in Seq(Chunks)
    BY DEF Init
  <2>5. reading \in Workers
    BY <1>1, <1>2
  <2> QED
    BY <1>1, <2>1, <2>2, <2>3, <2>4, <2>5 DEF Init, TypeOK
<1>5. ASSUME NEW w \in Workers
      PROVE  /\ After(w) = w + 1 /\ Len(bucket[w]) = 0 /\ Begin(w) = StartPos(w)
             /\ ~Halted(w) /\ ~PassedOver(w)
  <2>1. \A x \in Workers : After(x) = x + 1
    BY <1>2, <1>3 DEF After
  <2>2. \A x \in Workers : ~(x < w /\ w < After(x))
    BY <1>2, <2>1
  <2> QED
    BY <1>3, <2>1, <2>2 DEF Begin, Halted, PassedOver
<1>6. ChainInv
  BY <1>5 DEF ChainInv, Chain
<1>7. SyncInv
  BY <1>3 DEF SyncInv
<1>8. OrderInv
  <2>1. \A w \in Workers : ~(w < reading)
    BY <1>1, <1>2
  <2>2. \A w, u \in Workers : ~(w < u /\ u < After(w))
    BY <1>2, <1>5
  <2>3. \A w \in Workers : w < After(w)
    BY <1>2, <1>5
  <2> QED
    BY <1>1, <1>3, <2>1, <2>2, <2>3 DEF OrderInv
<1>9. OneConsumer
  <2>1. ASSUME NEW v \in Workers, NEW w \in Workers, v # w, next[v] = next[w], next[v] # 0
        PROVE  FALSE
    BY <1>2, <1>3, <2>1
  <2>2. ASSUME NEW w \in Workers, next[w] = reading PROVE FALSE
    BY <1>1, <1>2, <1>3, <2>2
  <2> QED
    BY <2>1, <2>2 DEF OneConsumer
<1>10. LinkInv
  BY <1>5 DEF LinkInv
<1>11. IndexEnd = 0
  BY <1>1 DEF IndexEnd
<1>12. ReadingInv
  <2>1. ASSUME NEW u \in Workers, u >= reading, \A x \in reading..(u - 1) : PassedOver(x)
        PROVE  Begin(u) = IndexEnd
    <3>1. u = 1
      <4>1. SUFFICES ASSUME u # 1 PROVE FALSE
        OBVIOUS
      <4>2. 1 \in reading..(u - 1) /\ 1 \in Workers
        BY <1>1, <1>2, <4>1
      <4> QED
        BY <1>5, <2>1, <4>2
    <3> QED
      BY <1>2, <1>5, <1>11, <3>1
  <2> QED
    BY <2>1 DEF ReadingInv
<1>13. IndexInv
  <2>1. 0 \in 0..Size /\ ChunksFrom[0] \in Seq(Chunks)
    BY <1>1, <1>2, ChunksFromFacts
  <2>2. <<>> \o ChunksFrom[0] = ChunksFrom[0]
    BY <2>1, ConcatEmptySeq
  <2>3. SequentialChunks = index \o ChunksFrom[IndexEnd]
    BY <1>1, <1>11, <2>2, Zenon DEF SequentialChunks
  <2> QED
    BY <1>1, <1>11, <2>1, <2>3 DEF IndexInv
<1>14. RoomInv
  <2>1. ASSUME NEW w \in Workers
        PROVE  StartPos(w) <= pos[w] /\ Len(bucket[w]) * MinSize <= pos[w] - StartPos(w)
    <3>1. Len(bucket[w]) * MinSize = 0
      BY <1>3, <1>5
    <3>2. pos[w] = StartPos(w) /\ StartPos(w) \in 0..Size
      BY <1>2, <1>3
    <3> QED
      BY <1>2, <3>1, <3>2
  <2> QED
    BY <2>1 DEF RoomInv
<1> QED
  BY <1>4, <1>6, <1>7, <1>8, <1>9, <1>10, <1>12, <1>13, <1>14 DEF ChunkInv

\* Every step keeps the invariant.
LEMMA NextChunk == ChunkInv /\ [Next]_vars => ChunkInv'
<1> SUFFICES ASSUME ChunkInv, [Next]_vars PROVE ChunkInv'
  OBVIOUS
<1>1. ASSUME NEW w \in Workers, Worker(w) PROVE ChunkInv'
  <2>1. CASE Interrupted(w) \/ ReadEnds(w)
    BY <2>1, HaltKeeps
  <2>2. CASE Produce(w)
    BY <2>2, ProduceKeeps
  <2>3. CASE Sync(w)
    BY <2>3, SyncKeeps
  <2>4. CASE Skip(w)
    BY <2>4, SkipKeeps
  <2>5. CASE Stop(w) \/ Close(w)
    BY <2>5, CloseKeeps
  <2> QED
    BY <1>1, <2>1, <2>2, <2>3, <2>4, <2>5 DEF Worker
<1>2. CASE Accept
  BY <1>2, AcceptKeeps
<1>3. CASE Advance
  BY <1>3, AdvanceKeeps
<1>4. CASE Cancel
  BY <1>4, CancelKeeps
<1>5. CASE Ended \/ UNCHANGED vars
  BY <1>5, StutterKeeps DEF Ended
<1> QED
  BY <1>1, <1>2, <1>3, <1>4, <1>5 DEF Next, MainLoop

\* However many goroutines there are and however they are scheduled, the
\* buckets hold consecutive chunks of the file, the chain of next goroutines
\* leads from where the main loop reads to those that still run, and the index
\* goes on where the first bucket begins.
THEOREM ChunkInvariant == Spec => []ChunkInv
<1>1. Init => ChunkInv
  BY InitChunk
<1>2. ChunkInv /\ [Next]_vars => ChunkInv'
  BY NextChunk
<1> QED
  BY <1>1, <1>2, PTL DEF Spec

\* All variables of IndexFromFile and its goroutines keep their types; in
\* particular no chunker is advanced past the end of the file.
THEOREM ParallelTypeCorrect == Spec => []TypeOK
<1>1. ChunkInv => TypeOK
  BY DEF ChunkInv
<1> QED
  BY <1>1, ChunkInvariant, PTL

\* The sync field and the bucket of a goroutine, which have no lock, are used
\* by one other goroutine at most.
THEOREM ParallelOneConsumer == Spec => []OneConsumer
<1>1. ChunkInv => OneConsumer
  BY DEF ChunkInv
<1> QED
  BY <1>1, ChunkInvariant, PTL

\* The chunks in the index are the first ones that a single chunker finds, for
\* every file, number of goroutines, chunk sizes and schedule.
THEOREM ParallelPrefix == Spec => []PrefixOfSequential
<1>1. ChunkInv => PrefixOfSequential
  <2> SUFFICES ASSUME ChunkInv PROVE PrefixOfSequential
    OBVIOUS
  <2> DEFINE t == ChunksFrom[IndexEnd]
             n == Len(index)
  <2>1. data \in Files /\ index \in Seq(Chunks) /\ IndexEnd \in 0..Size
        /\ SequentialChunks = index \o t
    BY DEF ChunkInv, TypeOK, IndexInv
  <2>2. t \in Seq(Chunks)
    BY <2>1, ChunksFromFacts
  <2> DEFINE q == SequentialChunks
  <2> HIDE DEF t, q
  <2>3. /\ q \in Seq(Chunks) /\ Len(q) = n + Len(t) /\ n \in Nat /\ Len(t) \in Nat
        /\ \A i \in 1..(n + Len(t)) : q[i] = IF i <= n THEN index[i] ELSE t[i - n]
    <3>1. n \in Nat /\ Len(t) \in Nat
      BY <2>1, <2>2
    <3>2. q = index \o t
      BY <2>1 DEF q
    <3> QED
      BY <2>1, <2>2, <3>1, <3>2, ConcatProperties
  <2>4. n <= Len(q) /\ \A i \in 1..n : q[i] = index[i]
    BY <2>3
  <2>5. SubSeq(index, 1, n) = SubSeq(q, 1, n)
    <3>1. SubSeq(index, 1, n) = [i \in 1..n |-> index[i]]
      BY <2>1, <2>3
    <3>2. SubSeq(q, 1, n) = [i \in 1..n |-> q[i]]
      BY <2>3, <2>4
    <3>3. [i \in 1..n |-> q[i]] = [i \in 1..n |-> index[i]]
      BY <2>4
    <3> QED
      BY <3>1, <3>2, <3>3, Zenon
  <2> QED
    BY <2>4, <2>5, Zenon DEF PrefixOfSequential, IsPrefix, q
<1> QED
  BY <1>1, ChunkInvariant, PTL

\* When IndexFromFile succeeds and the goroutine it stopped at was not passed
\* over, the index is the one a single chunker makes.
THEOREM ParallelWhole == Spec => []WholeUnlessPassedOver
<1>1. ChunkInv => WholeUnlessPassedOver
  <2> SUFFICES ASSUME ChunkInv, result = "ok", ~PassedOver(reading)
               PROVE  index = SequentialChunks
    BY DEF WholeUnlessPassedOver
  <2>1. /\ data \in Files /\ index \in Seq(Chunks) /\ IndexEnd = Size
        /\ SequentialChunks = index \o ChunksFrom[IndexEnd]
    BY DEF ChunkInv, TypeOK, IndexInv
  <2>2. ChunksFrom[Size] = <<>>
    BY <2>1, ChunksFromFacts
  <2>3. index \o <<>> = index
    BY <2>1, ConcatEmptySeq
  <2> QED
    BY <2>1, <2>2, <2>3, Zenon
<1> QED
  BY <1>1, ChunkInvariant, PTL

\* No bucket ever holds more chunks than IndexFromFile made room for, so that a
\* goroutine whose chunks nobody takes yet never blocks.
THEOREM ParallelRoom == Spec => []BucketsHoldAll
<1>1. ChunkInv => BucketsHoldAll
  <2> SUFFICES ASSUME ChunkInv, NEW w \in Workers PROVE Len(bucket[w]) <= Capacity(w)
    BY DEF BucketsHoldAll
  <2> DEFINE n == Len(bucket[w])
             a == Size - StartPos(w)
  <2>1. /\ TypeOK /\ data \in Files /\ Size \in Nat /\ StartPos(w) \in 0..Size /\ n \in Nat
        /\ MinSize \in Nat \ {0} /\ pos[w] \in 0..Size
    BY FileFacts, SizeAssumption DEF ChunkInv, TypeOK
  <2>2. \/ n * MinSize <= pos[w] - StartPos(w)
        \/ (n - 1) * MinSize <= a
    BY DEF ChunkInv, RoomInv
  <2>3. a \in Nat /\ pos[w] - StartPos(w) <= a
    BY <2>1
  <2> HIDE DEF n
  <2>4. (n - 1) * MinSize <= a
    <3>1. CASE n * MinSize <= pos[w] - StartPos(w)
      <4> DEFINE x == n * MinSize
      <4>1. x \in Int /\ (n - 1) * MinSize = x - MinSize
        BY <2>1
      <4>2. x <= pos[w] - StartPos(w)
        BY <3>1
      <4> HIDE DEF x
      <4> QED
        BY <2>1, <2>3, <4>1, <4>2
    <3> QED
      BY <2>2, <3>1
  <2> DEFINE q == a \div MinSize
  <2>5. q \in Nat /\ Capacity(w) = q + 1
    BY <2>1, <2>3, DivFacts DEF Capacity
  <2>6. CASE n = 0
    <3> HIDE DEF q
    <3> QED
      BY <2>5, <2>6 DEF n
  <2>7. CASE n # 0
    <3> DEFINE b == n - 1
    <3>1. b \in Nat /\ b * MinSize <= a /\ n = b + 1
      BY <2>1, <2>4, <2>7
    <3> HIDE DEF b, a
    <3>2. b <= a \div MinSize
      BY <2>1, <2>3, <3>1, DivBound
    <3> HIDE DEF q
    <3> QED
      BY <2>5, <3>1, <3>2 DEF n, q
  <2> QED
    BY <2>6, <2>7
<1> QED
  BY <1>1, ChunkInvariant, PTL

=============================================================================
