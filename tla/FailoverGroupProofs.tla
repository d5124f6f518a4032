------------------------ MODULE FailoverGroupProofs ------------------------
(* Proofs about FailoverGroup, for any number of stores and clients.        *)
EXTENDS FailoverGroup, TLAPS

\* The active store after an error, without the remainder.
LEMMA AfterErrorValue ==
    ASSUME active \in Stores, NEW i \in Stores
    PROVE  AfterError(i) = (IF i # active THEN active
                            ELSE IF active = N - 1 THEN 0 ELSE active + 1)
<1>1. ASSUME active = N - 1 PROVE (active + 1) % N = 0
  BY <1>1, NAssumption DEF Stores
<1>2. ASSUME active # N - 1 PROVE (active + 1) % N = active + 1
  BY <1>2, NAssumption DEF Stores
<1> QED
  BY <1>1, <1>2 DEF AfterError

\* What errorFrom does to the distance from a store: one step nearer, or
\* nothing when another request has moved the rotation.
LEMMA StepNearer ==
    ASSUME active \in Stores, NEW i \in Stores, NEW h \in Stores,
           active # h \/ i # active
    PROVE  /\ AfterError(i) \in Stores
           /\ Distance(AfterError(i), h) <= Distance(active, h)
           /\ i = active => Distance(AfterError(i), h) = Distance(active, h) - 1
<1>1. CASE i # active
  BY <1>1, AfterErrorValue, NAssumption DEF Distance, Stores
<1>2. CASE i = active /\ active = N - 1
  BY <1>2, AfterErrorValue, NAssumption DEF Distance, Stores
<1>3. CASE i = active /\ active # N - 1
  BY <1>3, AfterErrorValue, NAssumption DEF Distance, Stores
<1> QED
  BY <1>1, <1>2, <1>3

\* Distances are natural numbers below N, and only h itself is at distance 0.
LEMMA DistanceRange ==
    ASSUME NEW i \in Stores, NEW h \in Stores
    PROVE  /\ Distance(i, h) \in Nat /\ Distance(i, h) < N
           /\ Distance(i, h) = 0 => i = h
BY NAssumption DEF Distance, Stores

\* The invariant holds at the start.
LEMMA FailoverInit == Init => FailoverInv
<1> SUFFICES ASSUME Init PROVE FailoverInv
  OBVIOUS
<1>1. TypeOK
  BY NAssumption, ReliableAssumption DEF Init, TypeOK, Stores, Ops
<1>2. TriesInv /\ ProgressInv
  BY DEF Init, TriesInv, ProgressInv, Progress
<1>3. ReliableStoreServes
  BY DEF Init, ReliableStoreServes
<1> QED
  BY <1>1, <1>2, <1>3 DEF FailoverInv

\* Steps keep the types and the bound on the attempts.
LEMMA FailoverType == TypeOK /\ TriesInv /\ [Next]_vars => TypeOK' /\ TriesInv'
<1> SUFFICES ASSUME TypeOK, TriesInv, [Next]_vars PROVE TypeOK' /\ TriesInv'
  OBVIOUS
<1>1. ASSUME NEW c \in Clients, NEW m \in Ops, Call(c, m) PROVE TypeOK' /\ TriesInv'
  BY <1>1, NAssumption DEF Call, TypeOK, TriesInv, Ops
<1>2. ASSUME NEW c \in Clients, Select(c) PROVE TypeOK' /\ TriesInv'
  BY <1>2, NAssumption DEF Select, Return, TypeOK, TriesInv, Stores
<1>3. ASSUME NEW c \in Clients, Answer(c) PROVE TypeOK' /\ TriesInv'
  BY <1>3, NAssumption DEF Answer, Return, TypeOK, TriesInv, Stores
<1>4. ASSUME NEW c \in Clients, StoreError(c) PROVE TypeOK' /\ TriesInv'
  BY <1>4 DEF StoreError, TypeOK, TriesInv
<1>5. ASSUME NEW c \in Clients, ErrorFrom(c) PROVE TypeOK' /\ TriesInv'
  <2>1. AfterError(used[c]) \in Stores
    BY AfterErrorValue, NAssumption DEF TypeOK, Stores
  <2>2. tries[c] < N
    BY <1>5 DEF ErrorFrom, TriesInv
  <2> QED
    BY <1>5, <2>1, <2>2, NAssumption DEF ErrorFrom, NextTry, TypeOK, TriesInv
<1>6. CASE UNCHANGED vars
  BY <1>6 DEF vars, TypeOK, TriesInv
<1> QED
  BY <1>1, <1>2, <1>3, <1>4, <1>5, <1>6 DEF Next, Step

\* A step brings every request nearer to a reliable store h, or leaves it
\* where it is.
LEMMA ProgressStep ==
    ASSUME TypeOK, TriesInv, NEW h \in reliable, Progress(h), [Next]_vars
    PROVE  Progress(h)'
<1>1. h \in Stores /\ N \in Nat /\ 0 < N
  BY NAssumption DEF TypeOK
<1>2. /\ \A i \in Stores : Distance(i, h) \in Nat /\ Distance(i, h) < N
      /\ \A d \in Clients : used[d] \in Stores /\ tries[d] \in Nat
      /\ active \in Stores
  BY <1>1, DistanceRange DEF TypeOK
<1>3. ASSUME NEW c \in Clients, NEW m \in Ops, Call(c, m) PROVE Progress(h)'
  BY <1>1, <1>2, <1>3 DEF Call, Progress, TriesInv, TypeOK, Distance
<1>4. ASSUME NEW c \in Clients, Select(c) PROVE Progress(h)'
  BY <1>1, <1>2, <1>4 DEF Select, Return, Progress, TypeOK, Distance
<1>5. ASSUME NEW c \in Clients, Answer(c) PROVE Progress(h)'
  BY <1>5 DEF Answer, Return, Progress, TypeOK, Distance
<1>6. ASSUME NEW c \in Clients, StoreError(c) PROVE Progress(h)'
  BY <1>6 DEF StoreError, Progress, TypeOK, Distance
<1>7. ASSUME NEW c \in Clients, ErrorFrom(c) PROVE Progress(h)'
  <2>1. /\ active' = AfterError(used[c]) /\ tries' = [tries EXCEPT ![c] = @ + 1]
        /\ pc[c] = "fail" /\ pc' = [pc EXCEPT ![c] = "select"] /\ used' = used
    BY <1>7 DEF ErrorFrom, NextTry
  <2>2. used[c] # h
    BY <2>1 DEF Progress
  <2>3. /\ active' \in Stores /\ Distance(active', h) <= Distance(active, h)
        /\ used[c] = active => Distance(active', h) = Distance(active, h) - 1
    BY <1>1, <1>2, <2>1, <2>2, StepNearer
  <2>4. Distance(active', h) < Distance(used[c], h)
    <3>1. CASE used[c] = active
      BY <1>2, <2>3, <3>1
    <3>2. CASE used[c] # active
      <4>1. Distance(active, h) # Distance(used[c], h)
        BY <1>1, <1>2, <3>2 DEF Distance, Stores
      <4>2. Distance(active, h) <= Distance(used[c], h)
        BY <2>1 DEF Progress
      <4> QED
        BY <1>2, <2>3, <4>1, <4>2
    <3> QED
      BY <3>1, <3>2
  <2>5. tries'[c] + Distance(active', h) < N
    <3>1. tries[c] + Distance(used[c], h) < N /\ tries'[c] = tries[c] + 1
      BY <2>1 DEF Progress, TypeOK
    <3> QED
      BY <1>1, <1>2, <2>3, <2>4, <3>1
  <2>6. ASSUME NEW d \in Clients, d # c
        PROVE  /\ pc'[d] = "select" => tries'[d] + Distance(active', h) < N
               /\ pc'[d] \in {"call", "fail"} =>
                     /\ tries'[d] + Distance(used'[d], h) < N
                     /\ Distance(active', h) <= Distance(used'[d], h)
                     /\ pc'[d] = "fail" => used'[d] # h
    <3>1. pc'[d] = pc[d] /\ tries'[d] = tries[d] /\ used'[d] = used[d]
      BY <2>1, <2>6 DEF TypeOK
    <3>2. pc[d] = "select" => tries[d] + Distance(active, h) < N
      BY DEF Progress
    <3>3. pc[d] \in {"call", "fail"} =>
             /\ tries[d] + Distance(used[d], h) < N
             /\ Distance(active, h) <= Distance(used[d], h)
             /\ pc[d] = "fail" => used[d] # h
      BY DEF Progress
    <3> QED
      BY <1>1, <1>2, <2>3, <3>1, <3>2, <3>3
  <2>7. pc'[c] = "select"
    BY <2>1 DEF TypeOK
  <2>8. Distance(active, h)' = Distance(active', h)
        /\ \A d \in Clients : Distance(used[d], h)' = Distance(used'[d], h)
    BY DEF Distance
  <2> QED
    BY <2>5, <2>6, <2>7, <2>8 DEF Progress
<1>8. CASE UNCHANGED vars
  BY <1>8 DEF vars, Progress, Distance
<1> QED
  BY <1>3, <1>4, <1>5, <1>6, <1>7, <1>8 DEF Next, Step

\* Every step preserves the invariant.
LEMMA FailoverNext == FailoverInv /\ [Next]_vars => FailoverInv'
<1> SUFFICES ASSUME FailoverInv, [Next]_vars PROVE FailoverInv'
  OBVIOUS
<1>1. TypeOK' /\ TriesInv'
  BY FailoverType DEF FailoverInv
<1>2. ProgressInv'
  <2>1. reliable' = reliable
    BY DEF Next, Step, Call, Select, Answer, StoreError, ErrorFrom, vars
  <2> QED
    BY <2>1, ProgressStep DEF FailoverInv, ProgressInv
<1>3. ReliableStoreServes'
  <2>0. reliable' = reliable
    BY DEF Next, Step, Call, Select, Answer, StoreError, ErrorFrom, vars
  <2> SUFFICES ASSUME reliable # {}, NEW c \in Clients PROVE result'[c] # "error"
    BY <2>0 DEF ReliableStoreServes
  <2>1. PICK h \in reliable : Progress(h)
    BY DEF FailoverInv, ProgressInv
  <2>2. ASSUME NEW d \in Clients, Select(d) PROVE tries[d] < N
    <3>1. tries[d] + Distance(active, h) < N
      BY <2>1, <2>2 DEF Select, Progress
    <3>2. Distance(active, h) \in Nat /\ tries[d] \in Nat
      BY DistanceRange DEF FailoverInv, TypeOK
    <3> QED
      BY <3>1, <3>2, NAssumption
  <2>3. ASSUME NEW d \in Clients, Select(d) PROVE result' = result
    <3>1. ~(tries[d] >= N)
      BY <2>2, <2>3, NAssumption DEF FailoverInv, TypeOK
    <3> QED
      BY <2>3, <3>1 DEF Select
  <2>4. result[c] # "error" /\ result \in [Clients -> {"none", "ok", "missing", "error"}]
    BY DEF FailoverInv, ReliableStoreServes, TypeOK
  <2>5. ASSUME NEW d \in Clients, Step(d) PROVE result'[c] # "error"
    BY <2>3, <2>4, <2>5 DEF Step, Answer, StoreError, ErrorFrom, Return
  <2>6. ASSUME NEW d \in Clients, NEW m \in Ops, Call(d, m) PROVE result'[c] # "error"
    BY <2>4, <2>6 DEF Call
  <2> QED
    BY <2>4, <2>5, <2>6 DEF Next, vars
<1> QED
  BY <1>1, <1>2, <1>3 DEF FailoverInv

-----------------------------------------------------------------------------

\* The invariant holds throughout.
THEOREM FailoverInvariance == Spec => []FailoverInv
BY FailoverInit, FailoverNext, PTL DEF Spec

\* One reliable store is enough for every request of every client, for any
\* number of stores and clients and any interleaving of their failures.
THEOREM ReliableServes == Spec => []ReliableStoreServes
<1>1. FailoverInv => ReliableStoreServes
  BY DEF FailoverInv
<1> QED
  BY <1>1, FailoverInvariance, PTL

\* The rotation stops at a reliable store: a late error does not move it on.
THEOREM RotationStops == Spec => StaysOnReliable
<1>1. FailoverInv /\ [Next]_vars => [(active \in reliable) => active' = active]_vars
  <2> SUFFICES ASSUME FailoverInv, Next, active \in reliable PROVE active' = active
    BY DEF vars
  <2>1. ASSUME NEW c \in Clients, ErrorFrom(c) PROVE active' = active
    <3>1. used[c] # active
      BY <2>1 DEF FailoverInv, ProgressInv, Progress, ErrorFrom
    <3> QED
      BY <2>1, <3>1 DEF ErrorFrom, AfterError
  <2> QED
    BY <2>1 DEF Next, Step, Call, Select, Answer, StoreError, Return
<1> QED
  BY <1>1, FailoverInvariance, PTL DEF Spec, StaysOnReliable
=============================================================================
