-------------------------- MODULE DedupQueueProofs --------------------------
(* Proofs about DedupQueue, for any number of callers, chunks and calls.    *)
EXTENDS DedupQueue, TLAPS

\* The invariant holds at the start.
LEMMA DedupInit == Init => DedupInv
<1> SUFFICES ASSUME Init PROVE DedupInv
  OBVIOUS
<1>1. Len(reqs) = 0
  BY DEF Init
<1>2. TypeOK
  BY <1>1, CallsAssumption DEF Init, TypeOK, Ops
<1>3. OwnerInv /\ QueueInv /\ WaitInv /\ OkMeansStored
  BY DEF Init, OwnerInv, QueueInv, WaitInv, OkMeansStored, Owner
<1> QED
  BY <1>2, <1>3 DEF DedupInv

\* Steps keep the types.
LEMMA DedupType == DedupInv /\ [Next]_vars => TypeOK'
<1> SUFFICES ASSUME DedupInv, [Next]_vars PROVE TypeOK'
  OBVIOUS
<1> USE DEF DedupInv, TypeOK, call
<1>1. /\ Len(reqs) \in Nat
      /\ \A r \in 1..Len(reqs) : reqs[r].answer \in {"none", "ok", "missing", "error"}
      /\ \A m \in Ops, i \in IDs : queue[m][i] \in 0..Len(reqs)
      /\ "StoreChunk" \in Ops /\ \A c \in Clients : op[c] \in Ops /\ id[c] \in IDs
  <2> DEFINE R == [done : BOOLEAN, answer : {"none", "ok", "missing", "error"}]
  <2>1. Len(reqs) \in Nat /\ \A r \in 1..Len(reqs) : reqs[r] \in R
    <3>1. reqs \in Seq(R)
      OBVIOUS
    <3> HIDE DEF R, TypeOK
    <3> QED
      BY <3>1
  <2>2. \A r \in 1..Len(reqs) : reqs[r].answer \in {"none", "ok", "missing", "error"}
    BY <2>1
  <2>3. "StoreChunk" \in Ops /\ \A c \in Clients : op[c] \in Ops /\ id[c] \in IDs
    BY DEF Ops
  <2>4. \A m \in Ops, i \in IDs : queue[m][i] \in 0..Len(reqs)
    OBVIOUS
  <2> QED
    BY <2>1, <2>2, <2>3, <2>4
<1>2. ASSUME NEW c \in Clients, NEW m \in Ops, NEW i \in IDs, Call(c, m, i) PROVE TypeOK'
  BY <1>2, CallsAssumption DEF Call
<1>3. ASSUME NEW c \in Clients, Peek(c) PROVE TypeOK'
  BY <1>1, <1>3 DEF Peek
<1>4. ASSUME NEW c \in Clients, Lookup(c) PROVE TypeOK'
  <2>1. CASE queue[op[c]][id[c]] # 0
    <3>1. /\ mine' = [mine EXCEPT ![c] = queue[op[c]][id[c]]]
          /\ pc' = [pc EXCEPT ![c] = "wait"]
          /\ UNCHANGED <<stored, queue, reqs, answer, sure, op, id, calls>>
      BY <1>4, <2>1 DEF Lookup
    <3> QED
      BY <1>1, <3>1
  <2>2. CASE queue[op[c]][id[c]] = 0
    <3>1. reqs' = Append(reqs, [done |-> FALSE, answer |-> "none"])
          /\ queue' = [queue EXCEPT ![op[c]][id[c]] = Len(reqs) + 1]
          /\ mine' = [mine EXCEPT ![c] = Len(reqs) + 1]
          /\ pc' = [pc EXCEPT ![c] = "upstream"]
          /\ UNCHANGED <<stored, answer, sure, op, id, calls>>
      BY <1>4, <2>2 DEF Lookup, Enqueue
    <3>2. Len(reqs') = Len(reqs) + 1
          /\ reqs' \in Seq([done : BOOLEAN, answer : {"none", "ok", "missing", "error"}])
      BY <3>1
    <3>3. 0..Len(reqs) \subseteq 0..Len(reqs') /\ Len(reqs) + 1 \in 0..Len(reqs')
      BY <1>1, <3>2
    <3>4. queue' \in [Ops -> [IDs -> 0..Len(reqs')]]
      BY <3>1, <3>3
    <3>5. mine' \in [Clients -> 0..Len(reqs')]
      BY <3>1, <3>3
    <3> QED
      BY <3>1, <3>2, <3>4, <3>5
  <2> QED
    BY <2>1, <2>2
<1>5. ASSUME NEW c \in Clients, Upstream(c) PROVE TypeOK'
  BY <1>5 DEF Upstream, Answers
<1>6. ASSUME NEW c \in Clients, MarkDone(c) PROVE TypeOK'
  <2>1. mine[c] \in 1..Len(reqs)
    BY <1>1, <1>6 DEF MarkDone, OwnerInv, Owner
  <2>2. Len(reqs') = Len(reqs)
        /\ reqs' \in Seq([done : BOOLEAN, answer : {"none", "ok", "missing", "error"}])
    BY <1>6, <2>1 DEF MarkDone, Marked
  <2> QED
    BY <1>6, <2>2 DEF MarkDone
<1>7. ASSUME NEW c \in Clients, Delete(c) PROVE TypeOK'
  BY <1>1, <1>7 DEF Delete, Dropped
<1>8. ASSUME NEW c \in Clients, Wait(c) PROVE TypeOK'
  <2>1. mine[c] \in 1..Len(reqs)
    BY <1>1, <1>8 DEF Wait, WaitInv
  <2>2. reqs[mine[c]].answer \in {"none", "ok", "missing", "error"}
    BY <1>1, <2>1
  <2> QED
    BY <1>1, <1>8, <2>2 DEF Wait, AnswerOf
<1>9. CASE UNCHANGED vars
  BY <1>9 DEF vars
<1> QED
  BY <1>2, <1>3, <1>4, <1>5, <1>6, <1>7, <1>8, <1>9 DEF Next, Step, Ended

\* Only the steps of c change what c does and holds.
LEMMA OthersKeep ==
    ASSUME TypeOK, NEW c \in Clients, Step(c)
    PROVE  /\ op' = op /\ id' = id
           /\ \A d \in Clients : d # c =>
                 pc'[d] = pc[d] /\ mine'[d] = mine[d] /\ answer'[d] = answer[d]
           /\ stored \subseteq stored'
BY DEF Step, Peek, Lookup, Upstream, MarkDone, Delete, Wait, call, TypeOK

\* A step of a caller preserves the invariant.
LEMMA DedupStep ==
    ASSUME DedupInv, NEW c \in Clients, Step(c), TypeOK'
    PROVE  OwnerInv' /\ QueueInv' /\ WaitInv' /\ OkMeansStored'
<1> USE DEF DedupInv, Owner, call
<1>1. /\ op' = op /\ id' = id /\ stored \subseteq stored'
      /\ \A d \in Clients : d # c =>
            pc'[d] = pc[d] /\ mine'[d] = mine[d] /\ answer'[d] = answer[d]
  BY OthersKeep
<1>2. /\ \A d \in Clients : op[d] \in Ops /\ id[d] \in IDs
      /\ \A d \in Clients : mine[d] \in Nat
      /\ \A d \in Clients : mine[d] # 0 => mine[d] \in 1..Len(reqs)
      /\ Len(reqs) \in Nat
  <2>1. Len(reqs) \in Nat /\ \A d \in Clients : mine[d] \in 0..Len(reqs)
    BY DEF TypeOK
  <2>2. \A d \in Clients : op[d] \in Ops /\ id[d] \in IDs
    BY DEF TypeOK
  <2> QED
    BY <2>1, <2>2
<1>3. CASE Peek(c)
  <2>1. UNCHANGED <<stored, queue, reqs, answer>>
    BY <1>3 DEF Peek
  <2>2. CASE queue["StoreChunk"][id[c]] # 0
    <3>1. pc'[c] = "wait" /\ mine'[c] = queue["StoreChunk"][id[c]] /\ pc[c] = "peek"
      BY <1>3, <2>2 DEF Peek, TypeOK
    <3>2. PICK d \in Clients : Owner(d) /\ op[d] = "StoreChunk" /\ id[d] = id[c]
                               /\ mine[d] = mine'[c]
      BY <1>2, <2>2, <3>1 DEF QueueInv, Ops
    <3>3. d # c
      BY <3>1, <3>2
    <3>4. OwnerInv' /\ QueueInv' /\ OkMeansStored'
      BY <1>1, <2>1, <3>1 DEF OwnerInv, QueueInv, OkMeansStored
    <3>5. WaitInv'
      BY <1>1, <2>1, <2>2, <3>1, <3>2, <3>3 DEF WaitInv
    <3> QED
      BY <3>4, <3>5
  <2>3. CASE queue["StoreChunk"][id[c]] = 0
    <3>1. pc'[c] = "lookup" /\ mine' = mine /\ pc[c] = "peek"
      BY <1>3, <2>3 DEF Peek, TypeOK
    <3> QED
      BY <1>1, <2>1, <3>1 DEF OwnerInv, QueueInv, OkMeansStored, WaitInv
  <2> QED
    BY <2>2, <2>3
<1>4. CASE Lookup(c)
  <2>1. UNCHANGED <<stored, answer>> /\ pc[c] = "lookup"
    BY <1>4 DEF Lookup
  <2>2. CASE queue[op[c]][id[c]] # 0
    <3>1. pc'[c] = "wait" /\ mine'[c] = queue[op[c]][id[c]] /\ UNCHANGED <<queue, reqs>>
      BY <1>4, <2>2 DEF Lookup, TypeOK
    <3>2. PICK d \in Clients : Owner(d) /\ op[d] = op[c] /\ id[d] = id[c]
                               /\ mine[d] = mine'[c]
      BY <1>2, <2>2, <3>1 DEF QueueInv
    <3>3. d # c
      BY <2>1, <3>2
    <3>4. OwnerInv' /\ QueueInv' /\ OkMeansStored'
      BY <1>1, <2>1, <3>1 DEF OwnerInv, QueueInv, OkMeansStored
    <3>5. WaitInv'
      BY <1>1, <2>1, <2>2, <3>1, <3>2, <3>3 DEF WaitInv
    <3> QED
      BY <3>4, <3>5
  <2>3. CASE queue[op[c]][id[c]] = 0
    <3>1. /\ reqs' = Append(reqs, [done |-> FALSE, answer |-> "none"])
          /\ queue' = [queue EXCEPT ![op[c]][id[c]] = Len(reqs) + 1]
          /\ pc'[c] = "upstream" /\ mine'[c] = Len(reqs) + 1
      BY <1>4, <2>3 DEF Lookup, Enqueue, TypeOK
    <3>2. /\ reqs'[Len(reqs) + 1] = [done |-> FALSE, answer |-> "none"]
          /\ \A r \in 1..Len(reqs) : reqs'[r] = reqs[r]
      BY <1>2, <3>1 DEF TypeOK
    <3>3. /\ queue'[op[c]][id[c]] = Len(reqs) + 1
          /\ \A m \in Ops, i \in IDs : m # op[c] \/ i # id[c] => queue'[m][i] = queue[m][i]
      BY <1>2, <3>1 DEF TypeOK
    <3>4. \A d \in Clients : d # c /\ mine[d] # 0 =>
             reqs'[mine[d]] = reqs[mine[d]] /\ mine[d] # Len(reqs) + 1
      BY <1>2, <3>2
    <3>5. \A d \in Clients : Owner(d) => op[d] # op[c] \/ id[d] # id[c]
      BY <2>3 DEF OwnerInv
    <3>6. OwnerInv'
      <4>1. ASSUME NEW d \in Clients, Owner(d)'
            PROVE  /\ mine'[d] # 0 /\ queue'[op[d]][id[d]] = mine'[d]
                   /\ reqs'[mine'[d]].done <=> pc'[d] = "delete"
                   /\ pc'[d] = "delete" => reqs'[mine'[d]].answer = answer'[d]
                   /\ pc'[d] # "upstream" /\ answer'[d] = "ok" /\ op[d] # "HasChunk" =>
                         id[d] \in stored'
        <5>1. CASE d = c
          BY <1>2, <2>1, <3>1, <3>2, <3>3, <5>1
        <5>2. CASE d # c
          BY <1>1, <1>2, <2>1, <3>3, <3>4, <3>5, <4>1, <5>2 DEF OwnerInv
        <5> QED
          BY <5>1, <5>2
      <4>2. ASSUME NEW d \in Clients, NEW e \in Clients, Owner(d)', Owner(e)',
                   mine'[d] = mine'[e]
            PROVE  d = e
        BY <1>1, <3>1, <3>4, <4>2 DEF OwnerInv
      <4> QED
        BY <1>1, <4>1, <4>2 DEF OwnerInv
    <3>7. QueueInv'
      <4> SUFFICES ASSUME NEW m \in Ops, NEW i \in IDs, queue'[m][i] # 0
                   PROVE  \E d \in Clients : Owner(d)' /\ op[d] = m /\ id[d] = i
                                             /\ mine'[d] = queue'[m][i]
        BY <1>1 DEF QueueInv
      <4>1. CASE m = op[c] /\ i = id[c]
        BY <3>1, <3>3, <4>1
      <4>2. CASE m # op[c] \/ i # id[c]
        <5>1. PICK d \in Clients : Owner(d) /\ op[d] = m /\ id[d] = i
                                   /\ mine[d] = queue[m][i]
          BY <3>3, <4>2 DEF QueueInv
        <5> QED
          BY <1>1, <2>1, <3>3, <4>2, <5>1
      <4> QED
        BY <4>1, <4>2
    <3>8. WaitInv'
      <4> SUFFICES ASSUME NEW d \in Clients, pc'[d] = "wait"
                   PROVE  /\ mine'[d] # 0
                          /\ \/ \E e \in Clients :
                                   /\ Owner(e)' /\ mine'[e] = mine'[d] /\ id[e] = id[d]
                                   /\ op[d] # "HasChunk" => op[e] # "HasChunk"
                             \/ /\ reqs'[mine'[d]].done
                                /\ reqs'[mine'[d]].answer = "ok" /\ op[d] # "HasChunk" =>
                                      id[d] \in stored'
        BY <1>1 DEF WaitInv
      <4>1. d # c /\ pc[d] = "wait" /\ mine'[d] = mine[d]
        BY <1>1, <3>1
      <4>2. mine[d] # 0 /\ reqs'[mine[d]] = reqs[mine[d]]
        BY <3>4, <4>1 DEF WaitInv
      <4>3. ASSUME NEW e \in Clients, Owner(e)
            PROVE  e # c /\ Owner(e)' /\ mine'[e] = mine[e]
        BY <1>1, <2>1, <4>3
      <4> QED
        BY <2>1, <4>1, <4>2, <4>3 DEF WaitInv
    <3>9. OkMeansStored'
      BY <1>1, <2>1, <3>1 DEF OkMeansStored
    <3> QED
      BY <3>6, <3>7, <3>8, <3>9
  <2> QED
    BY <2>2, <2>3
<1>5. CASE Upstream(c)
  <2>1. /\ pc[c] = "upstream" /\ pc'[c] = "mark" /\ UNCHANGED <<queue, reqs, mine>>
    BY <1>5 DEF Upstream, TypeOK
  <2>2. answer'[c] = "ok" /\ op[c] # "HasChunk" => id[c] \in stored'
    BY <1>5 DEF Upstream, Answers, TypeOK, Ops
  <2>3. OwnerInv'
    BY <1>1, <2>1, <2>2 DEF OwnerInv
  <2>4. QueueInv'
    BY <1>1, <2>1 DEF QueueInv
  <2>5. WaitInv'
    BY <1>1, <2>1 DEF WaitInv
  <2>6. OkMeansStored'
    BY <1>1, <2>1 DEF OkMeansStored
  <2> QED
    BY <2>3, <2>4, <2>5, <2>6
<1>6. CASE MarkDone(c)
  <2>1. /\ pc[c] = "mark" /\ pc'[c] = "delete" /\ UNCHANGED <<stored, queue, mine, answer>>
        /\ reqs' = [reqs EXCEPT ![mine[c]] = [done |-> TRUE, answer |-> answer[c]]]
    BY <1>6 DEF MarkDone, Marked, TypeOK
  <2>2. mine[c] \in 1..Len(reqs)
    BY <1>2, <2>1 DEF OwnerInv
  <2>3. /\ reqs'[mine[c]] = [done |-> TRUE, answer |-> answer[c]]
        /\ \A r \in 1..Len(reqs) : r # mine[c] => reqs'[r] = reqs[r]
    BY <2>1, <2>2 DEF TypeOK
  <2>4. OwnerInv'
    <3>1. ASSUME NEW d \in Clients, Owner(d), d # c
          PROVE  reqs'[mine[d]] = reqs[mine[d]]
      BY <1>2, <2>1, <2>3, <3>1 DEF OwnerInv
    <3> QED
      BY <1>1, <2>1, <2>3, <3>1 DEF OwnerInv
  <2>5. QueueInv'
    BY <1>1, <2>1 DEF QueueInv
  <2>6. WaitInv'
    <3> SUFFICES ASSUME NEW d \in Clients, pc'[d] = "wait"
                 PROVE  /\ mine[d] # 0
                        /\ \/ \E e \in Clients :
                                 /\ Owner(e)' /\ mine[e] = mine[d] /\ id[e] = id[d]
                                 /\ op[d] # "HasChunk" => op[e] # "HasChunk"
                           \/ /\ reqs'[mine[d]].done
                              /\ reqs'[mine[d]].answer = "ok" /\ op[d] # "HasChunk" =>
                                    id[d] \in stored
      BY <1>1, <2>1 DEF WaitInv
    <3>1. pc[d] = "wait" /\ mine[d] # 0 /\ mine[d] \in 1..Len(reqs)
      BY <1>1, <1>2, <2>1 DEF WaitInv
    <3>2. CASE \E e \in Clients :
                  /\ Owner(e) /\ mine[e] = mine[d] /\ id[e] = id[d]
                  /\ op[d] # "HasChunk" => op[e] # "HasChunk"
      BY <1>1, <2>1, <3>1, <3>2
    <3>3. CASE /\ reqs[mine[d]].done
               /\ reqs[mine[d]].answer = "ok" /\ op[d] # "HasChunk" => id[d] \in stored
      <4>1. mine[d] # mine[c]
        BY <2>1, <3>3 DEF OwnerInv
      <4> QED
        BY <2>3, <3>1, <3>3, <4>1
    <3> QED
      BY <3>1, <3>2, <3>3 DEF WaitInv
  <2>7. OkMeansStored'
    BY <1>1, <2>1 DEF OkMeansStored
  <2> QED
    BY <2>4, <2>5, <2>6, <2>7
<1>7. CASE Delete(c)
  <2>1. /\ pc[c] = "delete" /\ pc'[c] = "idle" /\ UNCHANGED <<stored, reqs, answer>>
        /\ queue' = [queue EXCEPT ![op[c]][id[c]] = 0]
    BY <1>7 DEF Delete, Dropped, TypeOK
  <2>2. /\ queue'[op[c]][id[c]] = 0
        /\ \A m \in Ops, i \in IDs : m # op[c] \/ i # id[c] => queue'[m][i] = queue[m][i]
    BY <1>2, <2>1 DEF TypeOK
  <2>3. ASSUME NEW d \in Clients, Owner(d), d # c
        PROVE  queue'[op[d]][id[d]] = queue[op[d]][id[d]]
    BY <1>2, <2>1, <2>2, <2>3 DEF OwnerInv
  <2>4. OwnerInv'
    BY <1>1, <2>1, <2>3 DEF OwnerInv
  <2>5. QueueInv'
    BY <1>1, <2>1, <2>2 DEF QueueInv
  <2>6. WaitInv'
    <3> SUFFICES ASSUME NEW d \in Clients, pc'[d] = "wait"
                 PROVE  /\ mine'[d] # 0
                        /\ \/ \E e \in Clients :
                                 /\ Owner(e)' /\ mine'[e] = mine'[d] /\ id[e] = id[d]
                                 /\ op[d] # "HasChunk" => op[e] # "HasChunk"
                           \/ /\ reqs[mine'[d]].done
                              /\ reqs[mine'[d]].answer = "ok" /\ op[d] # "HasChunk" =>
                                    id[d] \in stored
      BY <1>1, <2>1 DEF WaitInv
    <3>1. d # c /\ pc[d] = "wait" /\ mine'[d] = mine[d] /\ mine[d] # 0
      BY <1>1, <2>1 DEF WaitInv
    <3>2. ASSUME NEW e \in Clients, Owner(e), mine[e] = mine[d], id[e] = id[d],
                 op[d] # "HasChunk" => op[e] # "HasChunk"
          PROVE  \/ Owner(e)' /\ mine'[e] = mine[e]
                 \/ /\ reqs[mine[d]].done
                    /\ reqs[mine[d]].answer = "ok" /\ op[d] # "HasChunk" => id[d] \in stored
      <4>1. CASE e = c
        BY <2>1, <3>2, <4>1 DEF OwnerInv
      <4>2. CASE e # c
        BY <1>1, <3>2, <4>2
      <4> QED
        BY <4>1, <4>2
    <3> QED
      BY <3>1, <3>2 DEF WaitInv
  <2>7. OkMeansStored'
    BY <1>1, <2>1 DEF OkMeansStored, OwnerInv
  <2> QED
    BY <2>4, <2>5, <2>6, <2>7
<1>8. CASE Wait(c)
  <2>1. /\ pc[c] = "wait" /\ pc'[c] = "idle" /\ UNCHANGED <<stored, queue, reqs>>
        /\ answer'[c] = reqs[mine[c]].answer /\ reqs[mine[c]].done
    BY <1>8 DEF Wait, AnswerOf, TypeOK
  <2>2. answer'[c] = "ok" /\ op[c] # "HasChunk" => id[c] \in stored
    <3>1. ASSUME NEW d \in Clients, Owner(d), mine[d] = mine[c], id[d] = id[c],
                 op[c] # "HasChunk" => op[d] # "HasChunk", answer'[c] = "ok",
                 op[c] # "HasChunk"
          PROVE  id[c] \in stored
      <4>1. pc[d] = "delete"
        BY <2>1, <3>1 DEF OwnerInv
      <4>2. answer[d] = "ok" /\ op[d] # "HasChunk"
        BY <2>1, <3>1, <4>1 DEF OwnerInv
      <4>3. id[d] \in stored
        BY <3>1, <4>1, <4>2 DEF OwnerInv
      <4> QED
        BY <3>1, <4>3
    <3> QED
      BY <2>1, <3>1 DEF WaitInv
  <2>3. OwnerInv'
    BY <1>1, <2>1 DEF OwnerInv
  <2>4. QueueInv'
    BY <1>1, <2>1 DEF QueueInv
  <2>5. WaitInv'
    BY <1>1, <2>1 DEF WaitInv
  <2>6. OkMeansStored'
    BY <1>1, <2>1, <2>2 DEF OkMeansStored
  <2> QED
    BY <2>3, <2>4, <2>5, <2>6
<1> QED
  BY <1>3, <1>4, <1>5, <1>6, <1>7, <1>8 DEF Step

\* Every step preserves the invariant.
LEMMA DedupNext == DedupInv /\ [Next]_vars => DedupInv'
<1> SUFFICES ASSUME DedupInv, [Next]_vars PROVE DedupInv'
  OBVIOUS
<1>1. TypeOK'
  BY DedupType
<1>2. ASSUME NEW c \in Clients, Step(c) PROVE DedupInv'
  BY <1>1, <1>2, DedupStep DEF DedupInv
<1>3. ASSUME NEW c \in Clients, NEW m \in Ops, NEW i \in IDs, Call(c, m, i) PROVE DedupInv'
  <2>1. /\ UNCHANGED <<stored, queue, reqs, mine>>
        /\ pc[c] = "idle" /\ pc'[c] \in {"peek", "lookup"}
        /\ \A d \in Clients : d # c => /\ pc'[d] = pc[d] /\ answer'[d] = answer[d]
                                       /\ op'[d] = op[d] /\ id'[d] = id[d]
    BY <1>3 DEF Call, DedupInv, TypeOK
  <2>2. OwnerInv' /\ OkMeansStored'
    BY <2>1 DEF DedupInv, OwnerInv, OkMeansStored, Owner
  <2>3. QueueInv' /\ WaitInv'
    BY <2>1 DEF DedupInv, QueueInv, WaitInv, Owner
  <2> QED
    BY <1>1, <2>2, <2>3 DEF DedupInv
<1>4. CASE UNCHANGED vars
  BY <1>1, <1>4 DEF vars, DedupInv, OwnerInv, QueueInv, WaitInv, OkMeansStored, Owner
<1> QED
  BY <1>2, <1>3, <1>4 DEF Next, Ended

-----------------------------------------------------------------------------

\* The invariant holds throughout.
THEOREM DedupInvariance == Spec => []DedupInv
BY DedupInit, DedupNext, PTL DEF Spec

\* At most one request for a chunk is upstream at a time, in each queue.
THEOREM Deduplicates == Spec => []OneUpstreamRequest
<1>1. DedupInv => OneUpstreamRequest
  BY DEF DedupInv, OwnerInv, OneUpstreamRequest, Sends, Owner
<1> QED
  BY <1>1, DedupInvariance, PTL

\* A caller is told that a chunk is there, or that it was stored, only when
\* the upstream store holds it, also when the answer is somebody else's.
THEOREM AnswersTrue == Spec => []OkMeansStored
<1>1. DedupInv => OkMeansStored
  BY DEF DedupInv
<1> QED
  BY <1>1, DedupInvariance, PTL

\* Once all calls have returned no request is left in a queue.
THEOREM Drains == Spec => []QueuesDrained
<1>1. DedupInv => QueuesDrained
  BY DEF DedupInv, QueueInv, QueuesDrained, Owner
<1> QED
  BY <1>1, DedupInvariance, PTL

-----------------------------------------------------------------------------
(* No stale answers.                                                        *)

\* What a call does to the requests and to its own answer: a caller gets the request
\* of somebody with the same chunk, an answer that is right when the store gives it,
\* or the answer of the request it waits for.
LEMMA StepAnswers ==
    ASSUME DedupInv, NEW c \in Clients, Step(c)
    PROVE  /\ pc[c] # "idle" /\ sure' = sure
           /\ \A d \in Clients : d # c /\ Holds(d) =>
                 reqs'[mine'[d]].answer \in
                    {reqs[mine[d]].answer} \cup (IF id[d] = id[c] THEN {answer[c]} ELSE {})
           /\ answer'[c] \in {answer[c]} \cup (IF id[c] \in stored THEN {"ok", "error"}
                                               ELSE {"ok", "missing", "error"})
                              \cup (IF pc[c] = "wait" THEN {reqs[mine[c]].answer} ELSE {})
           /\ Holds(c)' => \/ reqs'[mine'[c]].answer \in {"none", answer[c]}
                           \/ Holds(c) /\ reqs'[mine'[c]].answer = reqs[mine[c]].answer
                           \/ \E d \in Clients : /\ d # c /\ Holds(d) /\ id[d] = id[c]
                                                 /\ reqs'[mine'[c]].answer = reqs[mine[d]].answer
<1> USE DEF Owner, Holds, call
<1>0. /\ TypeOK /\ OwnerInv /\ QueueInv /\ WaitInv
      /\ op' = op /\ id' = id /\ stored \subseteq stored'
      /\ \A d \in Clients : d # c =>
            pc'[d] = pc[d] /\ mine'[d] = mine[d] /\ answer'[d] = answer[d]
  BY OthersKeep DEF DedupInv
<1>1. /\ \A d \in Clients : op[d] \in Ops /\ id[d] \in IDs
      /\ \A d \in Clients : Holds(d) => mine[d] \in 1..Len(reqs)
      /\ Len(reqs) \in Nat /\ "StoreChunk" \in Ops
  <2>1. Len(reqs) \in Nat /\ \A d \in Clients : mine[d] \in 0..Len(reqs)
    BY <1>0 DEF TypeOK
  <2>2. \A d \in Clients : op[d] \in Ops /\ id[d] \in IDs
    BY <1>0 DEF TypeOK
  <2>3. \A d \in Clients : Holds(d) => mine[d] # 0
    BY <1>0 DEF OwnerInv, WaitInv
  <2> QED
    BY <2>1, <2>2, <2>3 DEF Ops
<1>2. CASE Peek(c)
  <2>1. UNCHANGED <<reqs, answer, sure>> /\ pc[c] = "peek"
    BY <1>2 DEF Peek
  <2>2. CASE queue["StoreChunk"][id[c]] # 0
    <3>1. pc'[c] = "wait" /\ mine'[c] = queue["StoreChunk"][id[c]]
      BY <1>0, <1>2, <2>2 DEF Peek, TypeOK
    <3>2. PICK d \in Clients : Owner(d) /\ id[d] = id[c] /\ mine[d] = mine'[c]
      BY <1>0, <1>1, <2>2, <3>1 DEF QueueInv
    <3> QED
      BY <1>0, <2>1, <3>1, <3>2
  <2>3. CASE queue["StoreChunk"][id[c]] = 0
    <3>1. pc'[c] = "lookup"
      BY <1>0, <1>2, <2>3 DEF Peek, TypeOK
    <3> QED
      BY <1>0, <2>1, <3>1
  <2> QED
    BY <2>2, <2>3
<1>3. CASE Lookup(c)
  <2>1. UNCHANGED <<answer, sure>> /\ pc[c] = "lookup"
    BY <1>3 DEF Lookup
  <2>2. CASE queue[op[c]][id[c]] # 0
    <3>1. pc'[c] = "wait" /\ mine'[c] = queue[op[c]][id[c]] /\ UNCHANGED reqs
      BY <1>0, <1>3, <2>2 DEF Lookup, TypeOK
    <3>2. PICK d \in Clients : Owner(d) /\ id[d] = id[c] /\ mine[d] = mine'[c]
      BY <1>0, <1>1, <2>2, <3>1 DEF QueueInv
    <3> QED
      BY <1>0, <2>1, <3>1, <3>2
  <2>3. CASE queue[op[c]][id[c]] = 0
    <3>1. /\ reqs' = Append(reqs, [done |-> FALSE, answer |-> "none"])
          /\ mine'[c] = Len(reqs) + 1
      BY <1>0, <1>3, <2>3 DEF Lookup, TypeOK
    <3>2. /\ reqs'[mine'[c]].answer = "none"
          /\ \A r \in 1..Len(reqs) : reqs'[r] = reqs[r]
      BY <1>0, <1>1, <3>1 DEF TypeOK
    <3> QED
      BY <1>0, <1>1, <2>1, <3>2
  <2> QED
    BY <2>2, <2>3
<1>4. CASE Upstream(c)
  <2>1. UNCHANGED <<reqs, mine, sure>> /\ pc[c] = "upstream"
    BY <1>4 DEF Upstream
  <2>2. answer'[c] \in Answers(op[c], id[c])
    BY <1>0, <1>4 DEF Upstream, TypeOK
  <2>3. answer'[c] \in (IF id[c] \in stored THEN {"ok", "error"}
                        ELSE {"ok", "missing", "error"})
    BY <2>2 DEF Answers
  <2> QED
    BY <1>0, <2>1, <2>3
<1>5. CASE MarkDone(c)
  <2>1. /\ UNCHANGED <<mine, answer, sure>> /\ pc[c] = "mark"
        /\ reqs' = [reqs EXCEPT ![mine[c]] = [done |-> TRUE, answer |-> answer[c]]]
    BY <1>5 DEF MarkDone, Marked
  <2>2. mine[c] \in 1..Len(reqs)
    BY <1>1, <2>1
  <2>3. /\ reqs'[mine[c]].answer = answer[c]
        /\ \A r \in 1..Len(reqs) : r # mine[c] => reqs'[r] = reqs[r]
    BY <1>0, <2>1, <2>2 DEF TypeOK
  <2>4. ~reqs[mine[c]].done
    BY <1>0, <2>1 DEF OwnerInv
  <2>5. ASSUME NEW d \in Clients, d # c, Holds(d), mine[d] = mine[c] PROVE id[d] = id[c]
    BY <1>0, <2>1, <2>4, <2>5 DEF OwnerInv, WaitInv
  <2> QED
    BY <1>0, <1>1, <2>1, <2>3, <2>5
<1>6. CASE Delete(c)
  <2>1. UNCHANGED <<reqs, answer, sure>> /\ pc[c] = "delete" /\ pc'[c] = "idle"
    BY <1>0, <1>6 DEF Delete, TypeOK
  <2> QED
    BY <1>0, <2>1
<1>7. CASE Wait(c)
  <2>1. /\ UNCHANGED <<reqs, sure>> /\ pc[c] = "wait" /\ pc'[c] = "idle"
        /\ answer'[c] = reqs[mine[c]].answer
    BY <1>0, <1>7 DEF Wait, AnswerOf, TypeOK
  <2> QED
    BY <1>0, <2>1
<1> QED
  BY <1>2, <1>3, <1>4, <1>5, <1>6, <1>7 DEF Step

\* Every step preserves SureInv.
LEMMA SureNext == DedupInv /\ SureInv /\ [Next]_vars => SureInv'
<1> SUFFICES ASSUME DedupInv, SureInv, [Next]_vars PROVE SureInv'
  OBVIOUS
<1>0. TypeOK
  BY DEF DedupInv
<1>1. ASSUME NEW c \in Clients, Step(c) PROVE SureInv'
  <2>1. /\ op' = op /\ id' = id /\ stored \subseteq stored'
        /\ \A d \in Clients : d # c =>
              pc'[d] = pc[d] /\ mine'[d] = mine[d] /\ answer'[d] = answer[d]
    BY <1>0, <1>1, OthersKeep
  <2>2. pc[c] # "idle" /\ sure' = sure
    BY <1>1, StepAnswers
  <2>3. \A d \in Clients : d # c => (Holds(d)' <=> Holds(d))
    BY <2>1 DEF Holds, Owner
  <2>4. ASSUME NEW b \in Clients, sure[b], pc[b] # "idle", id[b] = id[c]
        PROVE  /\ answer'[c] # "missing"
               /\ Holds(c)' => reqs'[mine'[c]].answer # "missing"
               /\ \A d \in Clients : d # c /\ Holds(d) /\ id[d] = id[b] =>
                     reqs'[mine'[d]].answer # "missing"
    <3>1. /\ id[c] \in stored /\ answer[c] # "missing"
          /\ Holds(c) => reqs[mine[c]].answer # "missing"
      BY <2>2, <2>4 DEF SureInv
    <3>2. ASSUME NEW d \in Clients, Holds(d), id[d] = id[b]
          PROVE  reqs[mine[d]].answer # "missing"
      BY <2>4, <3>2 DEF SureInv, Holds, Owner
    <3>3. answer'[c] # "missing"
      <4>1. pc[c] = "wait" => Holds(c)
        BY DEF Holds
      <4> QED
        BY <1>1, <3>1, <4>1, StepAnswers
    <3>4. Holds(c)' => reqs'[mine'[c]].answer # "missing"
      <4>1. CASE reqs'[mine'[c]].answer \in {"none", answer[c]}
        BY <3>1, <4>1
      <4>2. CASE Holds(c) /\ reqs'[mine'[c]].answer = reqs[mine[c]].answer
        BY <3>1, <4>2
      <4>3. CASE \E d \in Clients : /\ d # c /\ Holds(d) /\ id[d] = id[c]
                                   /\ reqs'[mine'[c]].answer = reqs[mine[d]].answer
        BY <2>4, <3>2, <4>3
      <4> QED
        BY <1>1, <4>1, <4>2, <4>3, StepAnswers
    <3>5. \A d \in Clients : d # c /\ Holds(d) /\ id[d] = id[b] =>
             reqs'[mine'[d]].answer # "missing"
      BY <1>1, <3>1, <3>2, StepAnswers
    <3> QED
      BY <3>3, <3>4, <3>5
  <2>5. ASSUME NEW b \in Clients, sure'[b]
        PROVE  id[b] \in stored' /\ answer'[b] # "missing"
    <3>1. CASE b = c
      BY <2>1, <2>2, <2>4, <2>5, <3>1 DEF SureInv
    <3>2. CASE b # c
      BY <2>1, <2>2, <2>5, <3>2 DEF SureInv
    <3> QED
      BY <3>1, <3>2
  <2>6. ASSUME NEW b \in Clients, sure'[b], pc'[b] # "idle",
               NEW d \in Clients, pc'[d] # "idle", id[d] = id[b]
        PROVE  answer'[d] # "missing" /\ (Holds(d)' => reqs'[mine'[d]].answer # "missing")
    <3>1. sure[b] /\ pc[b] # "idle" /\ pc[d] # "idle"
      BY <2>1, <2>2, <2>6
    <3>2. CASE d = c
      BY <2>4, <2>6, <3>1, <3>2
    <3>3. CASE d # c /\ id[b] # id[c]
      <4>1. /\ answer[d] # "missing" /\ answer'[d] = answer[d]
            /\ Holds(d) => reqs[mine[d]].answer # "missing"
        BY <2>1, <2>6, <3>1, <3>3 DEF SureInv
      <4>2. Holds(d) => reqs'[mine'[d]].answer = reqs[mine[d]].answer
        BY <1>1, <2>6, <3>3, StepAnswers
      <4> QED
        BY <2>3, <3>3, <4>1, <4>2
    <3>4. CASE d # c /\ id[b] = id[c]
      <4>1. answer'[d] # "missing"
        BY <2>1, <2>6, <3>1, <3>4 DEF SureInv
      <4> QED
        BY <2>3, <2>4, <2>6, <3>1, <3>4, <4>1
    <3> QED
      BY <3>2, <3>3, <3>4
  <2> QED
    BY <2>1, <2>5, <2>6 DEF SureInv
<1>2. ASSUME NEW c \in Clients, NEW m \in Ops, NEW i \in IDs, Call(c, m, i) PROVE SureInv'
  <2>1. /\ UNCHANGED <<stored, reqs, mine>> /\ pc[c] = "idle" /\ pc'[c] \in {"peek", "lookup"}
        /\ answer'[c] = "none" /\ id'[c] = i
        /\ sure'[c] = (i \in stored /\ \A d \in Clients : pc[d] # "idle" /\ id[d] = i => sure[d])
        /\ \A d \in Clients : d # c => /\ pc'[d] = pc[d] /\ answer'[d] = answer[d]
                                       /\ id'[d] = id[d] /\ sure'[d] = sure[d]
    BY <1>0, <1>2 DEF Call, TypeOK
  <2>2. ~Holds(c)' /\ \A d \in Clients : d # c => (Holds(d)' <=> Holds(d))
    BY <2>1 DEF Holds, Owner
  <2>3. sure'[c] => i \in stored /\ \A d \in Clients : pc[d] # "idle" /\ id[d] = i => sure[d]
    BY <2>1, Zenon
  <2>4. ASSUME NEW b \in Clients, sure'[b]
        PROVE  id'[b] \in stored' /\ answer'[b] # "missing"
    BY <2>1, <2>3, <2>4 DEF SureInv
  <2>5. ASSUME NEW b \in Clients, sure'[b], pc'[b] # "idle",
               NEW d \in Clients, pc'[d] # "idle", id'[d] = id'[b]
        PROVE  answer'[d] # "missing" /\ (Holds(d)' => reqs'[mine'[d]].answer # "missing")
    <3>1. CASE d = c
      BY <2>1, <2>2, <3>1
    <3>2. CASE d # c /\ b = c
      <4>1. sure[d] /\ pc[d] # "idle"
        BY <2>1, <2>3, <2>5, <3>2
      <4> QED
        BY <2>1, <2>2, <3>2, <4>1 DEF SureInv
    <3>3. CASE d # c /\ b # c
      BY <2>1, <2>2, <2>5, <3>3 DEF SureInv
    <3> QED
      BY <3>1, <3>2, <3>3
  <2> QED
    BY <2>4, <2>5 DEF SureInv
<1>3. CASE UNCHANGED vars
  BY <1>3 DEF vars, SureInv, Holds, Owner
<1> QED
  BY <1>1, <1>2, <1>3 DEF Next, Ended

\* A chunk that is stored when a call begins is not reported missing to it, whichever
\* request it joins, unless a call from before the chunk was stored is under way then.
THEOREM AnswersFresh == Spec => []NoStaleAnswers
<1>1. Init => SureInv
  BY DEF Init, SureInv
<1>2. SureInv => NoStaleAnswers
  BY DEF SureInv, NoStaleAnswers
<1> QED
  BY <1>1, <1>2, SureNext, DedupInvariance, PTL DEF Spec

=============================================================================
