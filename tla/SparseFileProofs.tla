-------------------------- MODULE SparseFileProofs --------------------------
(* Proofs about SparseFile, for any index, chunk sizes, readers and number  *)
(* of processes.  The inductive invariant SparseInv says which loads are    *)
(* under way, and what the state file and the lists of the readers promise. *)
EXTENDS SparseFile, FiniteSetTheorems, SequenceTheorems, WellFoundedInduction, TLAPS

-----------------------------------------------------------------------------
(* Numbers: the least element of a set, which takes the place of induction. *)

Less == {ss \in Nat \X Nat : ss[1] < ss[2]}

\* Every set of natural numbers that is not empty has a least element.
LEMMA LeastElement ==
    ASSUME NEW S \in SUBSET Nat, S # {}
    PROVE  \E m \in S : \A y \in S : m <= y
<1>1. IsWellFoundedOn(Less, Nat)
  BY NatLessThanWellFounded DEF OpToRel, Less
<1>2. PICK m \in S : \A y \in S : ~(<<y, m>> \in Less)
  BY <1>1, WFMin
<1>3. ASSUME NEW y \in S PROVE m <= y
  <2>1. <<y, m>> \in Nat \X Nat /\ ~(y < m)
    BY <1>2 DEF Less
  <2> QED
    BY <2>1
<1> QED
  BY <1>3

\* Min is that element.
LEMMA MinIn ==
    ASSUME NEW S \in SUBSET Nat, S # {}
    PROVE  Min(S) \in S /\ \A y \in S : Min(S) <= y
BY LeastElement DEF Min

-----------------------------------------------------------------------------
(* The offsets of the chunks.                                               *)

\* g has the offsets of the first n slots.
PrefixSums(g, n) == g = [i \in 1..n |-> IF i = 1 THEN 0 ELSE g[i - 1] + Sizes[i - 1]]

\* There are such offsets, so the recursive function StartOf is what its
\* equation says.
LEMMA StartOfDef ==
    PrefixSums(StartOf, Len(Sizes) + 1)
<1> DEFINE Top == Len(Sizes) + 1
           Bad == {n \in 1..Top : ~\E g : PrefixSums(g, n)}
<1>0. Len(Sizes) \in Nat
  BY SizesAssumption
<1>1. ASSUME Bad # {} PROVE FALSE
  <2>1. Bad \in SUBSET Nat
    BY <1>0
  <2>2. PICK m \in Bad : \A y \in Bad : m <= y
    BY <1>1, <2>1, LeastElement
  <2>3. CASE m = 1
    <3>1. PrefixSums([i \in 1..1 |-> 0], 1)
      BY DEF PrefixSums
    <3> QED
      BY <2>3, <3>1
  <2>4. CASE m # 1
    <3>0. m \in Nat /\ m > 1 /\ m <= Top
      BY <1>0, <2>4
    <3>1. m - 1 \in 1..Top /\ m - 1 \notin Bad
      BY <1>0, <2>2, <3>0
    <3>2. PICK g : PrefixSums(g, m - 1)
      BY <3>1
    <3> DEFINE h == [i \in 1..m |-> IF i = m THEN g[m - 1] + Sizes[m - 1] ELSE g[i]]
    <3>3. \A i \in 1..(m - 1) : g[i] = IF i = 1 THEN 0 ELSE g[i - 1] + Sizes[i - 1]
      BY <3>2 DEF PrefixSums
    <3>4. \A i \in 1..(m - 1) : h[i] = g[i]
      BY <3>0
    <3>5. h[m] = h[m - 1] + Sizes[m - 1]
      BY <3>0, <3>4
    <3>6. ASSUME NEW i \in 1..m
          PROVE  h[i] = IF i = 1 THEN 0 ELSE h[i - 1] + Sizes[i - 1]
      <4>1. CASE i = m
        BY <3>0, <3>5, <4>1
      <4>2. CASE i # m
        <5>1. i \in 1..(m - 1) /\ (i # 1 => i - 1 \in 1..(m - 1))
          BY <3>0, <4>2
        <5> QED
          BY <3>3, <3>4, <5>1
      <4> QED
        BY <4>1, <4>2
    <3>7. DOMAIN h = 1..m
      OBVIOUS
    <3>8. h = [i \in 1..m |-> h[i]]
      OBVIOUS
    <3> HIDE DEF h
    <3>9. PrefixSums(h, m)
      BY <3>6, <3>8 DEF PrefixSums
    <3> QED
      BY <3>9
  <2> QED
    BY <2>3, <2>4
<1>2. Top \in 1..Top
  BY <1>0
<1>3. \E g : PrefixSums(g, Len(Sizes) + 1)
  BY <1>1, <1>2
<1> QED
  BY <1>3 DEF StartOf, PrefixSums

\* The offset of a slot is where the one before it ends.
LEMMA StartStep ==
    /\ StartOf[1] = 0
    /\ \A i \in 1..Len(Sizes) : StartOf[i + 1] = StartOf[i] + Sizes[i]
<1>0. Len(Sizes) \in Nat
  BY SizesAssumption
<1>1. \A i \in 1..(Len(Sizes) + 1) :
         StartOf[i] = IF i = 1 THEN 0 ELSE StartOf[i - 1] + Sizes[i - 1]
  BY StartOfDef DEF PrefixSums
<1>2. 1 \in 1..(Len(Sizes) + 1)
  BY <1>0
<1>3. ASSUME NEW i \in 1..Len(Sizes) PROVE StartOf[i + 1] = StartOf[i] + Sizes[i]
  <2>1. i + 1 \in 1..(Len(Sizes) + 1) /\ i + 1 # 1 /\ (i + 1) - 1 = i
    BY <1>0
  <2> QED
    BY <1>1, <2>1
<1> QED
  BY <1>1, <1>2, <1>3

\* Offsets are natural numbers.
LEMMA StartType == \A i \in 1..(Len(Sizes) + 1) : StartOf[i] \in Nat
<1> DEFINE Bad == {i \in 1..(Len(Sizes) + 1) : StartOf[i] \notin Nat}
<1>0. Len(Sizes) \in Nat /\ \A i \in 1..Len(Sizes) : Sizes[i] \in Nat
  BY SizesAssumption
<1>1. ASSUME Bad # {} PROVE FALSE
  <2>1. Bad \in SUBSET Nat
    BY <1>0
  <2>2. PICK m \in Bad : \A y \in Bad : m <= y
    BY <1>1, <2>1, LeastElement
  <2>3. m # 1
    BY StartStep
  <2>4. m - 1 \in 1..Len(Sizes) /\ m - 1 \in 1..(Len(Sizes) + 1) /\ (m - 1) + 1 = m
        /\ ~(m <= m - 1)
    BY <1>0, <2>3
  <2>5. StartOf[m - 1] \in Nat
    BY <2>2, <2>4
  <2>6. StartOf[m] = StartOf[m - 1] + Sizes[m - 1]
    BY <2>4, StartStep
  <2> QED
    BY <1>0, <2>4, <2>5, <2>6
<1> QED
  BY <1>1

\* They do not go down.
LEMMA StartsGrow ==
    ASSUME NEW j \in 1..(Len(Sizes) + 1), NEW i \in 1..(Len(Sizes) + 1), j <= i
    PROVE  StartOf[j] <= StartOf[i]
<1> DEFINE Bad == {k \in j..(Len(Sizes) + 1) : ~(StartOf[j] <= StartOf[k])}
<1>0. Len(Sizes) \in Nat /\ \A k \in 1..Len(Sizes) : Sizes[k] \in Nat
  BY SizesAssumption
<1>1. ASSUME Bad # {} PROVE FALSE
  <2>1. Bad \in SUBSET Nat
    BY <1>0
  <2>2. PICK m \in Bad : \A y \in Bad : m <= y
    BY <1>1, <2>1, LeastElement
  <2>3. StartOf[j] \in Nat /\ StartOf[m] \in Nat /\ m \in Nat
    BY <1>0, StartType
  <2>4. m # j
    BY <2>3
  <2>5. m - 1 \in j..(Len(Sizes) + 1) /\ m - 1 \in 1..Len(Sizes) /\ (m - 1) + 1 = m
        /\ ~(m <= m - 1)
    BY <1>0, <2>3, <2>4
  <2>6. StartOf[j] <= StartOf[m - 1]
    BY <2>2, <2>5
  <2>7. StartOf[m] = StartOf[m - 1] + Sizes[m - 1]
    BY <2>5, StartStep
  <2>8. StartOf[m - 1] \in Nat /\ Sizes[m - 1] \in Nat
    BY <1>0, <2>5, StartType
  <2>9. StartOf[j] <= StartOf[m]
    BY <2>3, <2>6, <2>7, <2>8
  <2> QED
    BY <2>9
<1>2. i \in j..(Len(Sizes) + 1)
  BY <1>0
<1> QED
  BY <1>1, <1>2

\* How many numbers there are after a and up to b.
LEMMA IntervalSize ==
    ASSUME NEW a \in Nat, NEW b \in Nat, a <= b
    PROVE  IsFiniteSet((a + 1)..b) /\ Cardinality((a + 1)..b) = b - a
<1>1. a + 1 \in Int /\ b \in Int
  OBVIOUS
<1>2. /\ IsFiniteSet((a + 1)..b)
      /\ Cardinality((a + 1)..b) = IF a + 1 > b THEN 0 ELSE b - (a + 1) + 1
  BY <1>1, FS_Interval
<1> QED
  BY <1>2

\* indexRange finds all slots with a byte in the range, and only slots of the
\* index.
LEMMA RangeCovers ==
    ASSUME idx \in Indexes, NEW o \in Nat, NEW l \in Nat, l >= 1
    PROVE  /\ IndexRange(o, l) \subseteq Slots
           /\ \A i \in Slots : Starts(i) < o + l /\ o < Starts(i) + Sizes[i]
                               => i \in IndexRange(o, l)
<1> DEFINE n    == Len(idx)
           ends == {i \in Slots : o < Starts(i) + Sizes[i]}
           f    == IF ends = {} THEN n ELSE Min(ends)
           more == {i \in (f + 1)..n : Starts(i) <= o + l - 1}
<1>1. /\ n \in Nat /\ n >= 1 /\ Slots = 1..n /\ n <= Len(Sizes) /\ Len(Sizes) \in Nat
      /\ \A i \in 1..n : Starts(i) \in Nat /\ Sizes[i] \in Nat
      /\ \A i, j \in 1..n : j <= i => Starts(j) <= Starts(i)
  <2>1. /\ n \in Nat /\ n >= 1 /\ Slots = 1..n /\ n <= Len(Sizes) /\ Len(Sizes) \in Nat
        /\ \A i \in 1..Len(Sizes) : Sizes[i] \in Nat
    BY SizesAssumption DEF Slots
  <2>2. \A i \in 1..n : i \in 1..(Len(Sizes) + 1) /\ i \in 1..Len(Sizes)
    BY <2>1
  <2> QED
    BY <2>1, <2>2, StartType, StartsGrow DEF Starts
<1>2. f \in 1..n /\ \A i \in ends : f <= i
  <2>1. CASE ends = {}
    BY <1>1, <2>1
  <2>2. CASE ends # {}
    <3>1. ends \in SUBSET Nat
      BY <1>1
    <3>2. Min(ends) \in ends /\ \A y \in ends : Min(ends) <= y
      BY <2>2, <3>1, MinIn
    <3> QED
      BY <1>1, <2>2, <3>2
  <2> QED
    BY <2>1, <2>2
<1>3. IndexRange(o, l) = f..(f + Cardinality(more))
  BY DEF IndexRange
<1> HIDE DEF f, n
<1>4. /\ IsFiniteSet((f + 1)..n) /\ Cardinality((f + 1)..n) = n - f
      /\ more \in SUBSET ((f + 1)..n)
  <2>1. f \in Nat /\ n \in Nat /\ f <= n
    BY <1>1, <1>2
  <2> QED
    BY <2>1, IntervalSize
<1>5. IsFiniteSet(more) /\ Cardinality(more) <= n - f /\ Cardinality(more) \in Nat
  BY <1>4, FS_Subset, FS_CardinalityType
<1>6. IndexRange(o, l) \subseteq Slots
  <2>1. f \in Nat /\ f >= 1 /\ f + Cardinality(more) <= n
    BY <1>1, <1>2, <1>5
  <2> HIDE DEF more
  <2> QED
    BY <1>1, <1>3, <1>5, <2>1
<1>7. ASSUME NEW i \in Slots, Starts(i) < o + l, o < Starts(i) + Sizes[i]
      PROVE  i \in IndexRange(o, l)
  <2>1. i \in ends /\ f <= i /\ i \in 1..n
    BY <1>1, <1>2, <1>7
  <2>2. (f + 1)..i \in SUBSET more
    <3>1. ASSUME NEW j \in (f + 1)..i PROVE j \in more
      <4>1. j \in 1..n /\ j <= i /\ j \in (f + 1)..n
        BY <1>1, <1>2, <2>1
      <4>2. Starts(j) <= Starts(i) /\ Starts(j) \in Nat /\ Starts(i) \in Nat
        BY <1>1, <2>1, <4>1
      <4> QED
        BY <1>7, <4>1, <4>2
    <3> QED
      BY <3>1
  <2>3. Cardinality((f + 1)..i) = i - f
    <3>1. f \in Nat /\ i \in Nat /\ f <= i
      BY <1>1, <1>2, <2>1
    <3> QED
      BY <3>1, IntervalSize
  <2>4. i - f <= Cardinality(more)
    BY <1>5, <2>2, <2>3, FS_Subset
  <2> QED
    BY <1>1, <1>2, <1>3, <1>5, <2>1, <2>4
<1> QED
  BY <1>6, <1>7

-----------------------------------------------------------------------------
(* What steps have in common.                                               *)

\* The sets of slots are about the index alone.
LEMMA SlotFacts ==
    ASSUME TypeInv
    PROVE  /\ Len(idx) \in Nat /\ Slots = 1..Len(idx) /\ Slots \subseteq Nat
           /\ Loadable \subseteq Slots /\ Loadable \subseteq Nat
           /\ DOMAIN file = 1..Len(file)
           /\ main = "up" => DOMAIN file = Slots
           /\ \A i \in Slots : idx[i] \in Data
<1>1. Len(idx) \in Nat /\ idx \in Indexes
  BY SizesAssumption DEF TypeInv
<1>2. DOMAIN file = 1..Len(file) /\ (main = "up" => Len(file) = Len(idx))
  BY DEF TypeInv
<1>3. \A i \in Slots : idx[i] \in Data
  BY <1>1 DEF Data, Slots
<1> QED
  BY <1>1, <1>2, <1>3 DEF Slots, Loadable

\* The next chunk on the list of an actor.
LEMMA NextChunk ==
    ASSUME TypeInv, NEW a \in Actors, need[a] # {}
    PROVE  Min(need[a]) \in need[a] /\ Min(need[a]) \in Loadable /\ Min(need[a]) \in Slots
<1>1. need[a] \subseteq Loadable /\ Loadable \subseteq Nat /\ Loadable \subseteq Slots
  BY SlotFacts DEF TypeInv
<1> QED
  BY <1>1, MinIn

\* With one index, no step changes it.
LEMMA SameIndex ==
    ASSUME OneIndex, TypeInv, [Next]_vars PROVE idx' = idx /\ Slots' = Slots /\ Loadable' = Loadable
<1>1. idx' \in Indexes \/ idx' = idx
  <2>1. CASE Start
    BY <2>1 DEF Start
  <2>2. CASE UseSavedState \/ InitFile \/ CreateState \/ WriteState \/ Exit \/ RemoveFile
    BY <2>2 DEF UseSavedState, InitFile, CreateState, WriteState, Exit, RemoveFile, config
  <2>3. ASSUME NEW r, NEW o, NEW l, ReadAt(r, o, l) PROVE idx' = idx
    BY <2>3 DEF ReadAt, config
  <2>4. ASSUME NEW a, Preload(a) \/ Load(a) PROVE idx' = idx
    BY <2>4 DEF Preload, Load, LoadChunk, Fetch, SetDone, ReadFile, PreloadDone, config
  <2>5. CASE UNCHANGED vars
    BY <2>5 DEF vars, config
  <2> QED
    BY <2>1, <2>2, <2>3, <2>4, <2>5 DEF Next, Ended
<1>2. idx' = idx
  BY <1>1 DEF OneIndex, TypeInv
<1> QED
  BY <1>2 DEF Slots, Loadable

\* A function on 1..n is a sequence.
LEMMA FunctionIsSeq ==
    ASSUME NEW S, NEW n \in Nat, NEW f \in [1..n -> S]
    PROVE  f \in Seq(S) /\ Len(f) = n
<1>1. f \in Seq(S)
  BY SeqDef
<1> QED
  BY <1>1, LenProperties

-----------------------------------------------------------------------------
(* Types.                                                                   *)

LEMMA TypeStep ==
    ASSUME OneIndex, TypeInv, RestInv, OnceInv, [Next]_vars
    PROVE  TypeInv'
<1>0. idx' = idx /\ Slots' = Slots /\ Loadable' = Loadable
  BY SameIndex
<1>00. idx \in Indexes /\ Len(idx) \in Nat /\ NullID \in Data /\ Junk \in Data
  BY SlotFacts DEF TypeInv, Data
<1>000. NoRange \in [offset : Nat, length : Nat]
  BY DEF NoRange
<1> USE <1>0, <1>00, <1>000 DEF config, loader, actors
<1>1. CASE Start
  BY <1>1 DEF Start, ProcessStarts, TypeInv, NoRange, Slots
<1>2. CASE UseSavedState
  BY <1>2 DEF UseSavedState, SizeMatches, TypeInv
<1>3. CASE InitFile
  <2>1. Truncated \in Seq(Data) /\ Len(Truncated) = Len(idx)
    <3>1. file \in Seq(Data)
      BY DEF TypeInv
    <3>2. Truncated \in [1..Len(idx) -> Data]
      BY <3>1 DEF Truncated, Slots
    <3> QED
      BY <3>2, FunctionIsSeq
  <2>2. /\ main' \in {"up", "failed"} /\ file' = Truncated /\ stale' \in BOOLEAN
        /\ preload' = preload \/ preload' \subseteq stateFile.bits
        /\ UNCHANGED <<stateFile, done, misled, once, pc, need, range, got>>
    BY <1>3 DEF InitFile, TypeInv
  <2> QED
    BY <2>1, <2>2 DEF TypeInv
<1>4. ASSUME NEW r \in Readers, NEW o \in 0..Length(idx), NEW l \in 1..MaxLength, ReadAt(r, o, l)
      PROVE  TypeInv'
  <2>1. r \in Actors /\ o \in Nat /\ l \in Nat /\ l >= 1
    <3>1. Len(idx) + 1 \in 1..(Len(Sizes) + 1)
      BY SizesAssumption
    <3>2. Length(idx) \in Nat
      BY <3>1, StartType DEF Length
    <3> QED
      BY <3>2, LengthAssumption DEF Actors
  <2>2. Needed(IndexRange(o, l)) \subseteq Loadable
    BY <2>1, RangeCovers DEF Needed, Loadable
  <2> QED
    BY <1>4, <2>1, <2>2 DEF ReadAt, TypeInv
<1>5. ASSUME NEW p \in Preloaders, Preload(p) PROVE TypeInv'
  <2>1. p \in Actors /\ Min(preload) \in Loadable
    BY <1>5, SlotFacts, MinIn DEF Preload, TypeInv, Actors
  <2> QED
    BY <1>5, <2>1 DEF Preload, TypeInv
<1>6. ASSUME NEW a \in Actors, LoadChunk(a) PROVE TypeInv'
  <2>1. Min(need[a]) \in Slots
    BY <1>6, NextChunk DEF LoadChunk
  <2>2. \/ /\ once' = [once EXCEPT ![Min(need[a])] = a]
           /\ pc' = [pc EXCEPT ![a] = "fetch"] /\ need' = need
        \/ /\ need' = [need EXCEPT ![a] = need[a] \ {Min(need[a])}]
           /\ once' = once /\ pc' = pc
    BY <1>6 DEF LoadChunk, TypeInv
  <2>3. /\ once' \in [Slots -> {"fresh", "used"} \cup Actors]
        /\ pc' \in [Actors -> {"idle", "load", "fetch", "set"}]
    <3>1. /\ once \in [Slots -> {"fresh", "used"} \cup Actors]
          /\ pc \in [Actors -> {"idle", "load", "fetch", "set"}]
      BY DEF TypeInv
    <3>2. once' = once \/ once' = [once EXCEPT ![Min(need[a])] = a]
      BY <2>2
    <3>3. pc' = pc \/ pc' = [pc EXCEPT ![a] = "fetch"]
      BY <2>2
    <3> QED
      BY <2>1, <3>1, <3>2, <3>3
  <2>4. need' \in [Actors -> SUBSET Loadable]
    <3>1. need \in [Actors -> SUBSET Loadable]
      BY DEF TypeInv
    <3>2. need[a] \ {Min(need[a])} \in SUBSET Loadable
      BY <3>1
    <3> QED
      BY <2>2, <3>1, <3>2
  <2> QED
    BY <1>6, <2>3, <2>4 DEF LoadChunk, TypeInv
<1>7. ASSUME NEW a \in Actors, Fetch(a) PROVE TypeInv'
  <2> DEFINE i == Min(need[a])
  <2>1. i \in Slots /\ DOMAIN file = Slots /\ file \in Seq(Data) /\ idx[i] \in Data
        /\ file[i] \in Data /\ main = "up"
    <3>1. need[a] # {} /\ main = "up"
      BY <1>7 DEF Fetch, OnceInv, RestInv
    <3>2. i \in Slots /\ DOMAIN file = Slots /\ file \in Seq(Data) /\ idx[i] \in Data
      BY <3>1, NextChunk, SlotFacts DEF TypeInv
    <3> QED
      BY <3>1, <3>2
  <2>2. PICK d \in Data : file' = [file EXCEPT ![i] = d]
    BY <1>7, <2>1 DEF Fetch
  <2>3. file' \in Seq(Data) /\ Len(file') = Len(file)
    BY <2>1, <2>2
  <2> HIDE DEF i
  <2>4. once' \in [Slots -> {"fresh", "used"} \cup Actors]
    BY <1>7, <2>1 DEF Fetch, OnceAfterError, TypeInv, i
  <2>5. /\ pc' \in [Actors -> {"idle", "load", "fetch", "set"}]
        /\ need' \in [Actors -> SUBSET Loadable]
    BY <1>7 DEF Fetch, TypeInv
  <2>6. range' \in [Actors -> [offset : Nat, length : Nat]]
    BY <1>7 DEF Fetch, TypeInv
  <2>7. UNCHANGED <<main, stateFile, done, preload, stale, misled, got>>
    BY <1>7 DEF Fetch
  <2> QED
    BY <2>3, <2>4, <2>5, <2>6, <2>7 DEF TypeInv
<1>8. ASSUME NEW a \in Actors, SetDone(a) PROVE TypeInv'
  <2>1. Min(need[a]) \in Slots /\ Min(need[a]) \in Loadable
    BY <1>8, NextChunk DEF SetDone, OnceInv
  <2> QED
    BY <1>8, <2>1 DEF SetDone, TypeInv
<1>9. ASSUME NEW a \in Actors, ReadFile(a) \/ PreloadDone(a) PROVE TypeInv'
  <2>1. /\ UNCHANGED <<main, file, stateFile, done, preload, stale, misled, once, need>>
        /\ pc' = [pc EXCEPT ![a] = "idle"]
        /\ range' = range \/ range' = [range EXCEPT ![a] = NoRange]
        /\ got' = got \/ \E g : got' = [got EXCEPT ![a] = g]
    BY <1>9 DEF ReadFile, PreloadDone
  <2>2. got' = [x \in Actors |-> got'[x]]
    BY <2>1 DEF TypeInv
  <2>3. range' \in [Actors -> [offset : Nat, length : Nat]]
    BY <2>1 DEF TypeInv
  <2> QED
    BY <2>1, <2>2, <2>3 DEF TypeInv
<1>10. CASE CreateState \/ WriteState
  <2>1. StateBytes(idx) \in Int
    BY DEF StateBytes
  <2> QED
    BY <1>10, <2>1 DEF CreateState, WriteState, SavedBits, TypeInv
<1>11. CASE Exit
  <2>1. file \in Seq(Data) /\ DOMAIN file = 1..Len(file) /\ Len(file) \in Nat
    BY DEF TypeInv
  <2>2. file' \in [1..Len(file) -> Data]
    BY <1>11, <2>1 DEF Exit
  <2>3. file' \in Seq(Data) /\ Len(file') = Len(file)
    BY <2>1, <2>2, FunctionIsSeq
  <2> QED
    BY <1>11, <2>3 DEF Exit, ProcessStarts, TypeInv, NoRange
<1>12. CASE RemoveFile
  BY <1>12 DEF RemoveFile, TypeInv
<1>13. CASE UNCHANGED vars
  BY <1>13 DEF vars, TypeInv
<1> QED
  BY <1>1, <1>2, <1>3, <1>4, <1>5, <1>6, <1>7, <1>8, <1>9, <1>10, <1>11, <1>12, <1>13
     DEF Next, Load, Ended

-----------------------------------------------------------------------------
(* Steps of the process: its start and its end, and the state file.         *)

\* The parts of the invariant besides the types.
MainInv ==
    /\ RestInv /\ OnceInv /\ UsedInv /\ SavedInv /\ ReadInv
    /\ DoneMeansWritten /\ WrongOnlyAfterFailure

\* Nothing is under way in a process that starts.
Quiet ==
    /\ \A i \in Slots : once[i] = "fresh"
    /\ \A a \in Actors : pc[a] = "idle" /\ need[a] = {} /\ got[a] = <<>>
    /\ done = {} \/ preload = {}

\* Then only the state file and what is marked as loaded matter.
LEMMA QuietInv ==
    TypeInv /\ Quiet => OnceInv /\ UsedInv /\ ReadInv /\ WrongOnlyAfterFailure
<1> SUFFICES ASSUME TypeInv, Quiet PROVE OnceInv /\ UsedInv /\ ReadInv /\ WrongOnlyAfterFailure
  OBVIOUS
<1>1. \A r \in Readers : r \in Actors /\ DOMAIN got[r] = {}
  BY DEF Quiet, Actors
<1>2. OnceInv /\ UsedInv
  BY DEF Quiet, OnceInv, UsedInv, TypeInv, Loadable
<1>3. ReadInv /\ WrongOnlyAfterFailure
  BY <1>1 DEF Quiet, ReadInv, WrongOnlyAfterFailure
<1> QED
  BY <1>2, <1>3

LEMMA StartStepInv ==
    ASSUME OneIndex, TypeInv, TypeInv', MainInv, [Next]_vars, Start PROVE MainInv'
<1>0. idx' = idx /\ Slots' = Slots
  BY SameIndex
<1>1. /\ main' = "new" /\ done' = {} /\ preload' = {} /\ misled' = FALSE
      /\ \A i \in Slots : once'[i] = "fresh"
      /\ \A a \in Actors : pc'[a] = "idle" /\ need'[a] = {} /\ got'[a] = <<>>
      /\ UNCHANGED <<file, stateFile, stale>> /\ saving' = FALSE
  BY <1>0 DEF Start, ProcessStarts, Slots
<1>2. RestInv' /\ Quiet' /\ DoneMeansWritten'
  BY <1>0, <1>1 DEF RestInv, Quiet, DoneMeansWritten
<1>3. SavedInv'
  BY <1>0, <1>1 DEF MainInv, SavedInv, StateFits
<1>4. (OnceInv /\ UsedInv /\ ReadInv /\ WrongOnlyAfterFailure)'
  BY <1>2, QuietInv, PTL
<1> QED
  BY <1>2, <1>3, <1>4 DEF MainInv

LEMMA UseSavedStateInv ==
    ASSUME OneIndex, TypeInv, TypeInv', MainInv, [Next]_vars, UseSavedState PROVE MainInv'
<1>0. idx' = idx /\ Slots' = Slots
  BY SameIndex
<1>1. /\ main = "new" /\ main' = "up" /\ done' = stateFile.bits /\ misled' = stale
      /\ Len(file) = Len(idx)
      /\ UNCHANGED <<file, stateFile, saving, once, preload, failed, stale, pc, need, got>>
  BY DEF UseSavedState, SizeMatches, actors
<1>2. RestInv' /\ Quiet'
  BY <1>0, <1>1 DEF MainInv, RestInv, Quiet
<1>3. SavedInv'
  BY <1>0, <1>1 DEF MainInv, SavedInv, StateFits
<1>4. DoneMeansWritten'
  <2>1. DOMAIN file = Slots /\ stateFile.bits \subseteq Slots
    BY <1>1, SlotFacts DEF TypeInv
  <2> QED
    BY <1>0, <1>1, <2>1 DEF MainInv, SavedInv, DoneMeansWritten
<1>5. (OnceInv /\ UsedInv /\ ReadInv /\ WrongOnlyAfterFailure)'
  BY <1>2, QuietInv, PTL
<1> QED
  BY <1>2, <1>3, <1>4, <1>5 DEF MainInv

LEMMA InitFileInv ==
    ASSUME OneIndex, TypeInv, TypeInv', MainInv, [Next]_vars, InitFile PROVE MainInv'
<1>0. idx' = idx /\ Slots' = Slots
  BY SameIndex
<1>1. /\ main = "new" /\ main' \in {"up", "failed"} /\ file' = Truncated
      /\ main' = "failed" => preload' = preload
      /\ stale' = (stale \/ ~SizeMatches) /\ ~(SizeMatches /\ SaveState /\ StateFits)
      /\ UNCHANGED <<stateFile, saving, once, done, failed, misled, pc, need, got>>
  BY DEF InitFile, actors
<1>2. RestInv' /\ Quiet' /\ DoneMeansWritten'
  BY <1>0, <1>1 DEF MainInv, RestInv, Quiet, DoneMeansWritten
<1>3. SavedInv'
  <2>1. DOMAIN file' = Slots /\ Slots = 1..Len(idx) /\ DOMAIN file = 1..Len(file)
        /\ Len(file) \in Nat /\ Len(idx) \in Nat
        /\ \A i \in Slots : file'[i] = IF i <= Len(file) THEN file[i] ELSE NullID
    BY <1>1, SlotFacts DEF Truncated, TypeInv
  <2>2. ~stale' => stateFile.bits = {}
    BY <1>1 DEF MainInv, SavedInv
  <2>3. \A i \in Slots : idx[i] = NullID => file'[i] = NullID
    BY <2>1 DEF MainInv, SavedInv
  <2>4. StateFits' = StateFits
    BY <1>0, <1>1 DEF StateFits
  <2> QED
    BY <1>0, <1>1, <2>1, <2>2, <2>3, <2>4 DEF MainInv, SavedInv
<1>4. (OnceInv /\ UsedInv /\ ReadInv /\ WrongOnlyAfterFailure)'
  BY <1>2, QuietInv, PTL
<1> QED
  BY <1>2, <1>3, <1>4 DEF MainInv

\* When a process dies, the slots it was writing are not in the state file.
LEMMA ExitInv ==
    ASSUME OneIndex, TypeInv, TypeInv', MainInv, [Next]_vars, Exit PROVE MainInv'
<1>0. idx' = idx /\ Slots' = Slots
  BY SameIndex
<1>1. /\ main' = "off" /\ done' = {} /\ preload' = {} /\ misled' = FALSE
      /\ \A i \in Slots : once'[i] = "fresh"
      /\ \A a \in Actors : pc'[a] = "idle" /\ need'[a] = {} /\ got'[a] = <<>>
      /\ UNCHANGED <<stateFile, stale>> /\ saving' = FALSE
      /\ DOMAIN file' = DOMAIN file
      /\ \A i \in DOMAIN file : file'[i] = file[i] \/ i \in Writing
  BY <1>0 DEF Exit, ProcessStarts, Slots
<1>2. RestInv' /\ Quiet' /\ DoneMeansWritten'
  BY <1>0, <1>1 DEF RestInv, Quiet, DoneMeansWritten
<1>3. \A i \in Writing : main = "up" /\ i \in Loadable /\ i \notin done
  <2> SUFFICES ASSUME NEW a \in Actors, pc[a] = "fetch"
               PROVE  main = "up" /\ Min(need[a]) \in Loadable /\ Min(need[a]) \notin done
    BY DEF Writing
  <2>1. main = "up" /\ need[a] # {} /\ once[Min(need[a])] = a
    BY DEF MainInv, RestInv, OnceInv
  <2>2. Min(need[a]) \in Loadable /\ Min(need[a]) \in need[a]
    BY <2>1, NextChunk
  <2>3. a # "used"
    BY ActorsAssumption
  <2> QED
    BY <2>1, <2>2, <2>3 DEF MainInv, UsedInv
<1>4. SavedInv'
  <2>1. ~stale => \A i \in stateFile.bits : i \in DOMAIN file => file'[i] = idx[i]
    BY <1>1, <1>3 DEF MainInv, SavedInv
  <2>2. \A i \in DOMAIN file : idx[i] = NullID => file'[i] = NullID
    BY <1>1, <1>3 DEF MainInv, SavedInv, Loadable
  <2> QED
    BY <1>0, <1>1, <2>1, <2>2 DEF MainInv, SavedInv, StateFits
<1>5. (OnceInv /\ UsedInv /\ ReadInv /\ WrongOnlyAfterFailure)'
  BY <1>2, QuietInv, PTL
<1> QED
  BY <1>2, <1>4, <1>5 DEF MainInv

LEMMA StateFileInv ==
    ASSUME OneIndex, TypeInv, TypeInv', MainInv, [Next]_vars,
           CreateState \/ WriteState \/ RemoveFile \/ UNCHANGED vars
    PROVE  MainInv'
<1>0. idx' = idx /\ Slots' = Slots
  BY SameIndex
<1>1. /\ UNCHANGED <<main, done, once, preload, failed, misled, pc, need, range, got>>
      /\ main = "up" => file' = file
  BY DEF CreateState, WriteState, RemoveFile, vars, loader, actors, config
<1>2. RestInv' /\ UsedInv'
  BY <1>0, <1>1 DEF MainInv, RestInv, UsedInv
<1>3. OnceInv'
  BY <1>0, <1>1 DEF MainInv, OnceInv, RestInv
<1>4. ReadInv' /\ WrongOnlyAfterFailure' /\ DoneMeansWritten'
  BY <1>0, <1>1 DEF MainInv, ReadInv, Overlap, WrongOnlyAfterFailure, DoneMeansWritten
<1>5. SavedInv'
  <2>1. CASE CreateState
    BY <1>0, <2>1 DEF MainInv, SavedInv, CreateState, loader, actors
  <2>2. CASE WriteState
    <3>1. /\ main = "up" /\ main' = "up" /\ file' = file /\ stale' = misled /\ saving' = FALSE
          /\ done' = done /\ SaveState
          /\ stateFile' = [bytes |-> StateBytes(idx), bits |-> done]
      BY <2>2 DEF MainInv, SavedInv, WriteState, SavedBits, loader
    <3>2. stateFile'.bits = done /\ StateFits'
      BY <1>0, <3>1 DEF StateFits
    <3>3. ~misled => \A i \in done : file[i] = idx[i]
      BY <3>1 DEF MainInv, DoneMeansWritten
    <3>4. \A i \in DOMAIN file : idx[i] = NullID => file[i] = NullID
      BY DEF MainInv, SavedInv
    <3> QED
      BY <1>0, <3>1, <3>2, <3>3, <3>4 DEF SavedInv
  <2>3. CASE RemoveFile
    BY <1>0, <2>3 DEF MainInv, SavedInv, RemoveFile, StateFits, loader, actors
  <2>4. CASE UNCHANGED vars
    BY <1>0, <2>4 DEF MainInv, SavedInv, StateFits, vars, config
  <2> QED
    BY <2>1, <2>2, <2>3, <2>4
<1> QED
  BY <1>2, <1>3, <1>4, <1>5 DEF MainInv

-----------------------------------------------------------------------------
(* Steps of readers and preloaders.                                         *)

\* A read puts on its list what it needs and nobody has marked.
LEMMA ReadAtInv ==
    ASSUME OneIndex, TypeInv, TypeInv', MainInv, [Next]_vars,
           NEW r \in Readers, NEW o \in 0..Length(idx), NEW l \in 1..MaxLength, ReadAt(r, o, l)
    PROVE  MainInv'
<1>0. idx' = idx /\ Slots' = Slots /\ r \in Actors
  BY SameIndex DEF Actors
<1>1. o \in Nat /\ l \in Nat /\ l >= 1 /\ idx \in Indexes
  <2>1. idx \in Indexes /\ Len(idx) + 1 \in 1..(Len(Sizes) + 1)
    BY SizesAssumption DEF TypeInv
  <2>2. Length(idx) \in Nat
    BY <2>1, StartType DEF Length
  <2> QED
    BY <2>1, <2>2, LengthAssumption
<1>2. /\ main = "up" /\ pc'[r] = "load" /\ got'[r] = <<>>
      /\ need'[r] = Needed(IndexRange(o, l))
      /\ range'[r].offset = o /\ range'[r].length = l
      /\ \A a \in Actors : a # r => /\ pc'[a] = pc[a] /\ need'[a] = need[a]
                                    /\ range'[a] = range[a] /\ got'[a] = got[a]
      /\ UNCHANGED <<main, file, stateFile, saving, done, once, preload, failed, stale, misled>>
  BY <1>0 DEF ReadAt, TypeInv, loader
<1>3. RestInv' /\ SavedInv' /\ DoneMeansWritten'
  BY <1>0, <1>2 DEF MainInv, RestInv, SavedInv, DoneMeansWritten, StateFits
<1>4. OnceInv'
  <2> SUFFICES ASSUME NEW a \in Actors, pc'[a] \in {"fetch", "set"}
               PROVE  /\ need'[a] # {} /\ once'[Min(need'[a])] = a
                      /\ pc'[a] = "set" => file'[Min(need'[a])] = idx'[Min(need'[a])]
    BY DEF OnceInv
  <2> QED
    BY <1>0, <1>2 DEF MainInv, OnceInv
<1>5. UsedInv'
  <2>1. \A i \in need'[r] : i \notin done
    BY <1>2 DEF Needed
  <2> QED
    BY <1>0, <1>2, <2>1 DEF MainInv, UsedInv
<1>6. ReadInv'
  <2> SUFFICES ASSUME NEW x \in Readers, pc'[x] # "idle", NEW i \in Overlap(x)'
               PROVE  i \in need'[x] \cup done' \cup failed' \/ idx'[i] = NullID
    BY DEF ReadInv
  <2>1. CASE x = r
    <3>1. i \in Slots /\ Starts(i) < o + l /\ o < Starts(i) + Sizes[i]
      BY <1>0, <1>2, <2>1 DEF Overlap, Starts
    <3>2. i \in IndexRange(o, l)
      BY <1>1, <3>1, RangeCovers
    <3> QED
      BY <1>0, <1>2, <2>1, <3>2 DEF Needed
  <2>2. CASE x # r
    <3>1. x \in Actors /\ pc[x] # "idle" /\ i \in Overlap(x)
      BY <1>0, <1>2, <2>2 DEF Overlap, Actors, Starts
    <3> QED
      BY <1>0, <1>2, <2>2, <3>1 DEF MainInv, ReadInv
  <2> QED
    BY <2>1, <2>2
<1>7. WrongOnlyAfterFailure'
  <2>1. DOMAIN got'[r] = {}
    BY <1>2
  <2>2. \A x \in Readers : x \in Actors
    BY DEF Actors
  <2> QED
    BY <1>0, <1>2, <2>1, <2>2 DEF MainInv, WrongOnlyAfterFailure
<1> QED
  BY <1>3, <1>4, <1>5, <1>6, <1>7 DEF MainInv

LEMMA PreloadInv ==
    ASSUME OneIndex, TypeInv, TypeInv', MainInv, [Next]_vars, NEW p \in Preloaders, Preload(p)
    PROVE  MainInv'
<1>0. idx' = idx /\ Slots' = Slots /\ p \in Actors /\ \A r \in Readers : r # p /\ r \in Actors
  BY SameIndex, ActorsAssumption DEF Actors
<1>1. Min(preload) \in preload
  BY SlotFacts, MinIn DEF Preload, TypeInv
<1>2. /\ main = "up" /\ pc'[p] = "load" /\ need'[p] = {Min(preload)}
      /\ preload' \subseteq preload
      /\ \A a \in Actors : a # p => pc'[a] = pc[a] /\ need'[a] = need[a]
      /\ UNCHANGED <<main, file, stateFile, saving, done, once, failed, stale, misled, range, got>>
  BY <1>0 DEF Preload, TypeInv
<1>3. RestInv' /\ SavedInv' /\ DoneMeansWritten' /\ WrongOnlyAfterFailure'
  BY <1>0, <1>2 DEF MainInv, RestInv, SavedInv, DoneMeansWritten, WrongOnlyAfterFailure, StateFits
<1>4. OnceInv'
  <2> SUFFICES ASSUME NEW a \in Actors, pc'[a] \in {"fetch", "set"}
               PROVE  /\ need'[a] # {} /\ once'[Min(need'[a])] = a
                      /\ pc'[a] = "set" => file'[Min(need'[a])] = idx'[Min(need'[a])]
    BY DEF OnceInv
  <2> QED
    BY <1>0, <1>2 DEF MainInv, OnceInv
<1>5. UsedInv'
  BY <1>0, <1>1, <1>2 DEF MainInv, UsedInv
<1>6. ReadInv'
  BY <1>0, <1>2 DEF MainInv, ReadInv, Overlap, Starts
<1> QED
  BY <1>3, <1>4, <1>5, <1>6 DEF MainInv

LEMMA LoadChunkInv ==
    ASSUME OneIndex, TypeInv, TypeInv', MainInv, [Next]_vars, NEW a \in Actors, LoadChunk(a)
    PROVE  MainInv'
<1> DEFINE i == Min(need[a])
<1>0. idx' = idx /\ Slots' = Slots /\ \A r \in Readers : r \in Actors
  BY SameIndex DEF Actors
<1>1. i \in need[a] /\ i \in Slots /\ need[a] # {} /\ main = "up" /\ pc[a] = "load"
  BY NextChunk DEF LoadChunk, MainInv, RestInv
<1>2. UNCHANGED <<main, file, stateFile, saving, done, preload, failed, stale, misled, range, got>>
  BY DEF LoadChunk
<1>3. RestInv' /\ SavedInv' /\ DoneMeansWritten' /\ WrongOnlyAfterFailure'
  BY <1>0, <1>1, <1>2 DEF MainInv, RestInv, SavedInv, DoneMeansWritten, WrongOnlyAfterFailure,
                          StateFits
<1>4. CASE OnceDo(a, i) = "run"
  <2>1. once[i] = "fresh"
    BY <1>4 DEF OnceDo
  <2>2. once' = [once EXCEPT ![i] = a] /\ pc' = [pc EXCEPT ![a] = "fetch"] /\ need' = need
    BY <1>4 DEF LoadChunk
  <2>3. /\ once'[i] = a /\ \A j \in Slots : j # i => once'[j] = once[j]
        /\ pc'[a] = "fetch" /\ \A b \in Actors : b # a => pc'[b] = pc[b]
    BY <1>1, <2>2 DEF TypeInv
  <2>4. OnceInv'
    <3> SUFFICES ASSUME NEW b \in Actors, pc'[b] \in {"fetch", "set"}
                 PROVE  /\ need'[b] # {} /\ once'[Min(need'[b])] = b
                        /\ pc'[b] = "set" => file'[Min(need'[b])] = idx'[Min(need'[b])]
      BY DEF OnceInv
    <3>1. CASE b = a
      BY <1>1, <2>2, <2>3, <3>1
    <3>2. CASE b # a
      <4>1. /\ need[b] # {} /\ once[Min(need[b])] = b
            /\ pc[b] = "set" => file[Min(need[b])] = idx[Min(need[b])]
        BY <2>3, <3>2 DEF MainInv, OnceInv
      <4>2. Min(need[b]) # i /\ Min(need[b]) \in Slots
        BY <2>1, <4>1, NextChunk, ActorsAssumption
      <4> QED
        BY <1>0, <1>2, <2>2, <2>3, <3>2, <4>1, <4>2
    <3> QED
      BY <3>1, <3>2
  <2>5. UsedInv'
    <3>1. a # "used" /\ i \notin done
      BY <1>1, <2>1, ActorsAssumption DEF MainInv, UsedInv
    <3>2. done \subseteq Slots
      BY DEF TypeInv, Loadable
    <3> QED
      BY <1>0, <1>2, <2>2, <2>3, <3>1, <3>2 DEF MainInv, UsedInv
  <2>6. ReadInv'
    <3>1. \A r \in Readers : pc'[r] # "idle" => pc[r] # "idle"
      BY <1>0, <1>1, <2>3
    <3> QED
      BY <1>0, <1>2, <2>2, <3>1 DEF MainInv, ReadInv, Overlap, Starts
  <2> QED
    BY <1>3, <2>4, <2>5, <2>6 DEF MainInv
<1>5. CASE OnceDo(a, i) = "skip"
  <2>1. once[i] = "used"
    BY <1>5 DEF OnceDo
  <2>2. need' = [need EXCEPT ![a] = @ \ {i}] /\ once' = once /\ pc' = pc
    BY <1>5 DEF LoadChunk
  <2>3. need'[a] = need[a] \ {i} /\ \A b \in Actors : b # a => need'[b] = need[b]
    BY <2>2 DEF TypeInv
  <2>4. OnceInv'
    <3> SUFFICES ASSUME NEW b \in Actors, pc'[b] \in {"fetch", "set"}
                 PROVE  /\ need'[b] # {} /\ once'[Min(need'[b])] = b
                        /\ pc'[b] = "set" => file'[Min(need'[b])] = idx'[Min(need'[b])]
      BY DEF OnceInv
    <3>1. b # a
      BY <1>1, <2>2
    <3> QED
      BY <1>0, <1>2, <2>2, <2>3, <3>1 DEF MainInv, OnceInv
  <2>5. UsedInv'
    BY <1>0, <1>2, <2>2, <2>3 DEF MainInv, UsedInv
  <2>6. ReadInv'
    <3>1. i \in done \cup failed
      BY <1>1, <2>1 DEF MainInv, UsedInv
    <3> SUFFICES ASSUME NEW r \in Readers, pc[r] # "idle", NEW j \in Overlap(r)
                 PROVE  j \in need'[r] \cup done \cup failed \/ idx[j] = NullID
      BY <1>0, <1>2, <2>2 DEF ReadInv, Overlap, Starts
    <3> QED
      BY <1>0, <2>3, <3>1 DEF MainInv, ReadInv
  <2> QED
    BY <1>3, <2>4, <2>5, <2>6 DEF MainInv
<1> QED
  BY <1>4, <1>5 DEF LoadChunk

\* While an actor writes its slot nobody else does, and no bit claims it.
LEMMA FetchInv ==
    ASSUME OneIndex, TypeInv, TypeInv', MainInv, [Next]_vars, NEW a \in Actors, Fetch(a)
    PROVE  MainInv'
<1> DEFINE i == Min(need[a])
<1>0. idx' = idx /\ Slots' = Slots /\ \A r \in Readers : r \in Actors
  BY SameIndex DEF Actors
<1>1. /\ need[a] # {} /\ once[i] = a /\ main = "up" /\ pc[a] = "fetch"
      /\ i \in need[a] /\ i \in Slots /\ idx[i] # NullID /\ DOMAIN file = Slots
  <2>1. need[a] # {} /\ once[i] = a /\ main = "up" /\ pc[a] = "fetch"
    BY DEF Fetch, MainInv, OnceInv, RestInv
  <2> QED
    BY <2>1, NextChunk, SlotFacts DEF Loadable
<1>2. i \notin done
  BY <1>1, ActorsAssumption DEF MainInv, UsedInv
<1>3. /\ UNCHANGED <<main, stateFile, saving, done, preload, stale, misled, got>>
      /\ DOMAIN file' = Slots /\ \A j \in Slots : j # i => file'[j] = file[j]
  <2>1. \E d : file' = [file EXCEPT ![i] = d]
    BY DEF Fetch
  <2> QED
    BY <1>1, <2>1 DEF Fetch
<1> HIDE DEF i
<1>4. RestInv' /\ DoneMeansWritten'
  BY <1>0, <1>1, <1>2, <1>3 DEF MainInv, RestInv, DoneMeansWritten
<1>5. SavedInv'
  <2>1. ~stale => i \notin stateFile.bits
    BY <1>1, <1>2 DEF MainInv, SavedInv
  <2>2. stateFile.bits \subseteq Slots
    BY DEF TypeInv, Loadable
  <2>3. StateFits' = StateFits
    BY <1>0, <1>3 DEF StateFits
  <2> QED
    BY <1>0, <1>1, <1>3, <2>1, <2>2, <2>3 DEF MainInv, SavedInv
<1>6. \A b \in Actors : b # a /\ pc[b] \in {"fetch", "set"} =>
         Min(need[b]) \in Slots /\ Min(need[b]) # i
  BY <1>1, NextChunk DEF MainInv, OnceInv
<1>7. CASE file' = [file EXCEPT ![i] = idx[i]] /\ pc' = [pc EXCEPT ![a] = "set"]
           /\ UNCHANGED <<need, range, once, failed>>
  <2>1. file'[i] = idx[i] /\ pc'[a] = "set" /\ \A b \in Actors : b # a => pc'[b] = pc[b]
    BY <1>1, <1>7 DEF TypeInv
  <2>2. OnceInv'
    <3> SUFFICES ASSUME NEW b \in Actors, pc'[b] \in {"fetch", "set"}
                 PROVE  /\ need'[b] # {} /\ once'[Min(need'[b])] = b
                        /\ pc'[b] = "set" => file'[Min(need'[b])] = idx'[Min(need'[b])]
      BY DEF OnceInv
    <3>1. CASE b = a
      BY <1>0, <1>1, <1>7, <2>1, <3>1 DEF i
    <3>2. CASE b # a
      BY <1>0, <1>3, <1>6, <1>7, <2>1, <3>2 DEF MainInv, OnceInv
    <3> QED
      BY <3>1, <3>2
  <2>3. UsedInv' /\ WrongOnlyAfterFailure'
    BY <1>0, <1>3, <1>7 DEF MainInv, UsedInv, WrongOnlyAfterFailure
  <2>4. ReadInv'
    <3>1. \A r \in Readers : pc'[r] # "idle" => pc[r] # "idle"
      BY <1>0, <1>1, <2>1
    <3> QED
      BY <1>0, <1>3, <1>7, <3>1 DEF MainInv, ReadInv, Overlap, Starts
  <2> QED
    BY <1>4, <1>5, <2>2, <2>3, <2>4 DEF MainInv
<1>8. CASE /\ failed' = failed \cup {i} /\ once' = [once EXCEPT ![i] = "used"]
           /\ need' = [need EXCEPT ![a] = {}] /\ range' = [range EXCEPT ![a] = NoRange]
           /\ pc' = [pc EXCEPT ![a] = "idle"]
  <2>1. /\ once'[i] = "used" /\ \A j \in Slots : j # i => once'[j] = once[j]
        /\ pc'[a] = "idle" /\ need'[a] = {}
        /\ \A b \in Actors : b # a => pc'[b] = pc[b] /\ need'[b] = need[b] /\ range'[b] = range[b]
    BY <1>1, <1>8 DEF TypeInv
  <2>2. OnceInv'
    <3> SUFFICES ASSUME NEW b \in Actors, pc'[b] \in {"fetch", "set"}
                 PROVE  /\ need'[b] # {} /\ once'[Min(need'[b])] = b
                        /\ pc'[b] = "set" => file'[Min(need'[b])] = idx'[Min(need'[b])]
      BY DEF OnceInv
    <3>1. b # a
      BY <2>1
    <3> QED
      BY <1>0, <1>3, <1>6, <2>1, <3>1 DEF MainInv, OnceInv
  <2>3. UsedInv'
    <3>1. done \subseteq Slots
      BY DEF TypeInv, Loadable
    <3>2. \A b \in Actors : need'[b] \subseteq need[b]
      BY <2>1
    <3>3. \A j \in Slots : once'[j] = "used" => j \in done \cup failed'
      BY <1>8, <2>1 DEF MainInv, UsedInv
    <3> QED
      BY <1>0, <1>2, <1>3, <2>1, <3>1, <3>2, <3>3 DEF MainInv, UsedInv
  <2>4. WrongOnlyAfterFailure'
    BY <1>0, <1>3, <1>8 DEF MainInv, WrongOnlyAfterFailure
  <2>5. ReadInv'
    <3> SUFFICES ASSUME NEW r \in Readers, pc'[r] # "idle", NEW j \in Overlap(r)'
                 PROVE  j \in need'[r] \cup done' \cup failed' \/ idx'[j] = NullID
      BY DEF ReadInv
    <3>1. r \in Actors /\ r # a /\ pc[r] # "idle"
      BY <1>0, <2>1
    <3>2. j \in Overlap(r)
      BY <1>0, <2>1, <3>1 DEF Overlap, Starts
    <3> QED
      BY <1>0, <1>3, <1>8, <2>1, <3>1, <3>2 DEF MainInv, ReadInv
  <2> QED
    BY <1>4, <1>5, <2>2, <2>3, <2>4, <2>5 DEF MainInv
<1> QED
  BY <1>7, <1>8 DEF Fetch, OnceAfterError, i

LEMMA SetDoneInv ==
    ASSUME OneIndex, TypeInv, TypeInv', MainInv, [Next]_vars, NEW a \in Actors, SetDone(a)
    PROVE  MainInv'
<1> DEFINE i == Min(need[a])
<1>0. idx' = idx /\ Slots' = Slots /\ \A r \in Readers : r \in Actors
  BY SameIndex DEF Actors
<1>1. /\ need[a] # {} /\ once[i] = a /\ main = "up" /\ pc[a] = "set" /\ file[i] = idx[i]
      /\ i \in need[a] /\ i \in Slots /\ DOMAIN file = Slots
  <2>1. need[a] # {} /\ once[i] = a /\ main = "up" /\ pc[a] = "set" /\ file[i] = idx[i]
    BY DEF SetDone, MainInv, OnceInv, RestInv
  <2> QED
    BY <2>1, NextChunk, SlotFacts
<1>2. /\ done' = done \cup {i} /\ once' = [once EXCEPT ![i] = "used"]
      /\ need' = [need EXCEPT ![a] = @ \ {i}] /\ pc' = [pc EXCEPT ![a] = "load"]
      /\ UNCHANGED <<main, file, stateFile, saving, preload, failed, stale, misled, range, got>>
  BY DEF SetDone
<1>3. /\ once'[i] = "used" /\ \A j \in Slots : j # i => once'[j] = once[j]
      /\ pc'[a] = "load" /\ need'[a] = need[a] \ {i}
      /\ \A b \in Actors : b # a => pc'[b] = pc[b] /\ need'[b] = need[b]
  BY <1>1, <1>2 DEF TypeInv
<1>4. \A b \in Actors : b # a /\ pc[b] \in {"fetch", "set"} =>
         Min(need[b]) \in Slots /\ Min(need[b]) # i
  BY <1>1, NextChunk DEF MainInv, OnceInv
<1> HIDE DEF i
<1>5. RestInv' /\ DoneMeansWritten' /\ WrongOnlyAfterFailure'
  BY <1>0, <1>1, <1>2 DEF MainInv, RestInv, DoneMeansWritten, WrongOnlyAfterFailure
<1>6. SavedInv'
  BY <1>0, <1>2 DEF MainInv, SavedInv, StateFits
<1>7. OnceInv'
  <2> SUFFICES ASSUME NEW b \in Actors, pc'[b] \in {"fetch", "set"}
               PROVE  /\ need'[b] # {} /\ once'[Min(need'[b])] = b
                      /\ pc'[b] = "set" => file'[Min(need'[b])] = idx'[Min(need'[b])]
    BY DEF OnceInv
  <2>1. b # a
    BY <1>3
  <2> QED
    BY <1>0, <1>2, <1>3, <1>4, <2>1 DEF MainInv, OnceInv
<1>8. UsedInv'
  <2>1. done \subseteq Slots
    BY DEF TypeInv, Loadable
  <2>2. \A b \in Actors : need'[b] \subseteq need[b]
    BY <1>3
  <2> QED
    BY <1>0, <1>2, <1>3, <2>1, <2>2 DEF MainInv, UsedInv
<1>9. ReadInv'
  <2> SUFFICES ASSUME NEW r \in Readers, pc'[r] # "idle", NEW j \in Overlap(r)'
               PROVE  j \in need'[r] \cup done' \cup failed' \/ idx'[j] = NullID
    BY DEF ReadInv
  <2>1. r \in Actors /\ pc[r] # "idle" /\ j \in Overlap(r)
    BY <1>0, <1>1, <1>2, <1>3 DEF Overlap, Starts
  <2> QED
    BY <1>0, <1>2, <1>3, <2>1 DEF MainInv, ReadInv
<1> QED
  BY <1>5, <1>6, <1>7, <1>8, <1>9 DEF MainInv

\* What a read returns is the data of the index, or a load has failed.
LEMMA ReadFileInv ==
    ASSUME OneIndex, TypeInv, TypeInv', MainInv, [Next]_vars, NEW a \in Actors,
           ReadFile(a) \/ PreloadDone(a)
    PROVE  MainInv'
<1>0. idx' = idx /\ Slots' = Slots /\ \A r \in Readers : r \in Actors
  BY SameIndex DEF Actors
<1>1. /\ pc[a] = "load" /\ need[a] = {} /\ pc' = [pc EXCEPT ![a] = "idle"] /\ main = "up"
      /\ UNCHANGED <<main, file, stateFile, saving, done, once, preload, failed, stale, misled,
                     need>>
      /\ range' = range \/ range' = [range EXCEPT ![a] = NoRange]
      /\ \/ a \in Readers /\ got' = [got EXCEPT ![a] = [i \in Overlap(a) |-> file[i]]]
         \/ got' = got
  BY DEF ReadFile, PreloadDone, loader, MainInv, RestInv
<1>2. /\ pc'[a] = "idle"
      /\ \A b \in Actors : b # a => pc'[b] = pc[b] /\ range'[b] = range[b] /\ got'[b] = got[b]
  <2>1. pc'[a] = "idle" /\ \A b \in Actors : b # a => pc'[b] = pc[b]
    BY <1>1 DEF TypeInv
  <2>2. \A b \in Actors : b # a => range'[b] = range[b]
    BY <1>1 DEF TypeInv
  <2>3. \A b \in Actors : b # a => got'[b] = got[b]
    BY <1>1 DEF TypeInv
  <2> QED
    BY <2>1, <2>2, <2>3
<1>3. RestInv' /\ SavedInv' /\ DoneMeansWritten' /\ UsedInv'
  BY <1>0, <1>1 DEF MainInv, RestInv, SavedInv, DoneMeansWritten, UsedInv, StateFits
<1>4. OnceInv'
  BY <1>0, <1>1, <1>2 DEF MainInv, OnceInv
<1>5. ReadInv'
  <2> SUFFICES ASSUME NEW r \in Readers, pc'[r] # "idle", NEW j \in Overlap(r)'
               PROVE  j \in need'[r] \cup done' \cup failed' \/ idx'[j] = NullID
    BY DEF ReadInv
  <2>1. r \in Actors /\ r # a
    BY <1>0, <1>2
  <2>2. pc[r] # "idle" /\ j \in Overlap(r)
    BY <1>0, <1>2, <2>1 DEF Overlap, Starts
  <2> QED
    BY <1>0, <1>1, <2>2 DEF MainInv, ReadInv
<1>6. WrongOnlyAfterFailure'
  <2> SUFFICES ASSUME NEW r \in Readers, NEW j \in DOMAIN got'[r]
               PROVE  got'[r][j] = idx[j] \/ j \in failed \/ misled
    BY <1>0, <1>1 DEF WrongOnlyAfterFailure
  <2>1. CASE got'[r] = got[r]
    BY <2>1 DEF MainInv, WrongOnlyAfterFailure
  <2>2. CASE r = a /\ got' = [got EXCEPT ![a] = [i \in Overlap(a) |-> file[i]]]
    <3>1. got'[a] = [i \in Overlap(a) |-> file[i]]
      BY <2>2 DEF TypeInv
    <3>2. j \in Overlap(a) /\ got'[r][j] = file[j] /\ j \in Slots
      BY <2>2, <3>1 DEF Overlap
    <3>3. j \in done \cup failed \/ idx[j] = NullID
      BY <1>1, <2>2, <3>2 DEF MainInv, ReadInv
    <3>4. DOMAIN file = Slots
      BY <1>1, SlotFacts
    <3> QED
      BY <1>1, <3>2, <3>3, <3>4 DEF MainInv, DoneMeansWritten, SavedInv
  <2> QED
    BY <1>0, <1>1, <1>2, <2>1, <2>2
<1> QED
  BY <1>3, <1>4, <1>5, <1>6 DEF MainInv

-----------------------------------------------------------------------------
(* The invariant, and what it implies.                                      *)

LEMMA SparseInit == Init => SparseInv
<1> SUFFICES ASSUME Init PROVE SparseInv
  OBVIOUS
<1>1. TypeInv
  <2>1. file \in Seq(Data) /\ Len(file) = 0
    BY DEF Init
  <2>2. NoState \in [bytes : Int, bits : SUBSET Loadable] /\ NoRange \in [offset : Nat, length : Nat]
    BY DEF NoState, NoRange
  <2> QED
    BY <2>1, <2>2 DEF Init, TypeInv
<1>2. RestInv /\ Quiet /\ DoneMeansWritten
  BY DEF Init, RestInv, Quiet, DoneMeansWritten
<1>3. SavedInv
  BY DEF Init, SavedInv, NoState
<1> QED
  BY <1>1, <1>2, <1>3, QuietInv DEF SparseInv

LEMMA SparseStep == OneIndex /\ SparseInv /\ [Next]_vars => SparseInv'
<1> SUFFICES ASSUME OneIndex, SparseInv, [Next]_vars PROVE SparseInv'
  OBVIOUS
<1>1. TypeInv /\ MainInv
  BY DEF SparseInv, MainInv
<1>2. TypeInv'
  BY <1>1, TypeStep DEF MainInv
<1>3. MainInv'
  <2>1. CASE Start
    BY <1>1, <1>2, <2>1, StartStepInv
  <2>2. CASE UseSavedState
    BY <1>1, <1>2, <2>2, UseSavedStateInv
  <2>3. CASE InitFile
    BY <1>1, <1>2, <2>3, InitFileInv
  <2>4. ASSUME NEW r \in Readers, NEW o \in 0..Length(idx), NEW l \in 1..MaxLength,
               ReadAt(r, o, l)
        PROVE  MainInv'
    BY <1>1, <1>2, <2>4, ReadAtInv
  <2>5. ASSUME NEW p \in Preloaders, Preload(p) PROVE MainInv'
    BY <1>1, <1>2, <2>5, PreloadInv
  <2>6. ASSUME NEW a \in Actors, Load(a) PROVE MainInv'
    BY <1>1, <1>2, <2>6, LoadChunkInv, FetchInv, SetDoneInv, ReadFileInv DEF Load
  <2>7. CASE CreateState \/ WriteState \/ RemoveFile \/ UNCHANGED vars
    BY <1>1, <1>2, <2>7, StateFileInv
  <2>8. CASE Exit
    BY <1>1, <1>2, <2>8, ExitInv
  <2> QED
    BY <2>1, <2>2, <2>3, <2>4, <2>5, <2>6, <2>7, <2>8 DEF Next, Ended
<1> QED
  BY <1>2, <1>3 DEF SparseInv, MainInv

\* SparseInv holds in every state of a cache file that is used for one index.
THEOREM SparseInvariance ==
    ASSUME OneIndex PROVE Spec => []SparseInv
<1>1. SparseInv /\ [Next]_vars => SparseInv'
  BY SparseStep
<1> QED
  BY SparseInit, <1>1, PTL DEF Spec

\* A chunk that is marked as loaded is in the cache file, for any number of
\* readers, preloaders and processes that die anywhere, unless a process was
\* given the state of another cache file.
THEOREM DoneIsWritten ==
    ASSUME OneIndex PROVE Spec => []DoneMeansWritten
<1>1. SparseInv => DoneMeansWritten
  BY DEF SparseInv
<1> QED
  BY SparseInvariance, <1>1, PTL

\* A read returns the data of the index: unless, in the same process, a load of
\* that chunk has failed or the state was of another cache file.
THEOREM ReadsAreRight ==
    ASSUME OneIndex PROVE Spec => []WrongOnlyAfterFailure
<1>1. SparseInv => WrongOnlyAfterFailure
  BY DEF SparseInv
<1> QED
  BY SparseInvariance, <1>1, PTL

=============================================================================
