----------------------------- MODULE DedupQueue -----------------------------
(***************************************************************************)
(* DedupQueue (dedupqueue.go) and WriteDedupQueue (writededupqueue.go): a  *)
(* wrapper of a store that joins concurrent requests for the same chunk.   *)
(* The first caller sends the request upstream, the others wait for its    *)
(* answer.  GetChunk also joins a StoreChunk of the same chunk.            *)
(*                                                                         *)
(* A request object outlives its place in the queue: callers that wait     *)
(* hold a pointer to it.  Requests are therefore numbered, and a queue     *)
(* maps a chunk to the number of the request that is in flight.            *)
(***************************************************************************)
EXTENDS Integers, Sequences, FiniteSets

CONSTANTS
    Clients,    \* goroutines that use the queue
    IDs,        \* chunks
    MaxCalls,   \* bound on the number of calls
    MayFail     \* upstream calls may fail

Ops == {"GetChunk", "HasChunk", "StoreChunk"}

ASSUME CallsAssumption == MaxCalls \in Nat
ASSUME FailAssumption  == MayFail \in BOOLEAN

VARIABLES
    stored,     \* the chunks in the upstream store
    queue,      \* the requests map of each of the three queues, 0 if none
    reqs,       \* the request objects made so far: done and the answer
    pc,         \* where each client is
    op, id,     \* the method and the chunk of its call
    mine,       \* the request it made, or waits for
    answer,     \* what its last call returned
    sure,       \* its call began with the chunk stored, and so did all that were
                \* under way for the chunk then
    calls       \* calls made so far

vars == <<stored, queue, reqs, pc, op, id, mine, answer, sure, calls>>
call == <<op, id, calls>>

-----------------------------------------------------------------------------

\* A client calls one of the methods.  GetChunk looks at the store queue
\* first, the others go straight to their own.
Call(c, m, i) ==
    /\ pc[c] = "idle"
    /\ calls < MaxCalls
    /\ calls' = calls + 1
    /\ op' = [op EXCEPT ![c] = m]
    /\ id' = [id EXCEPT ![c] = i]
    /\ answer' = [answer EXCEPT ![c] = "none"]
    /\ sure' = [sure EXCEPT ![c] =
                   i \in stored /\ \A d \in Clients : pc[d] # "idle" /\ id[d] = i => sure[d]]
    /\ pc' = [pc EXCEPT ![c] = IF m = "GetChunk" THEN "peek" ELSE "lookup"]
    /\ UNCHANGED <<stored, queue, reqs, mine>>

\* WriteDedupQueue.GetChunk: join the StoreChunk that is in flight, or get
\* the chunk as usual.
Peek(c) ==
    /\ pc[c] = "peek"
    /\ LET r == queue["StoreChunk"][id[c]]
       IN  IF r # 0
           THEN mine' = [mine EXCEPT ![c] = r] /\ pc' = [pc EXCEPT ![c] = "wait"]
           ELSE pc' = [pc EXCEPT ![c] = "lookup"] /\ UNCHANGED mine
    /\ UNCHANGED <<stored, queue, reqs, answer, sure, call>>

\* The place of a new request in a queue.  Mutant: it is not put there.
EnqueueNothing(m, i) == queue
Enqueue(m, i)        == [queue EXCEPT ![m][i] = Len(reqs) + 1]

\* loadOrStore, under the lock of the queue.
Lookup(c) ==
    /\ pc[c] = "lookup"
    /\ LET r == queue[op[c]][id[c]]
       IN  \/ /\ r # 0
              /\ mine' = [mine EXCEPT ![c] = r]
              /\ pc' = [pc EXCEPT ![c] = "wait"]
              /\ UNCHANGED <<queue, reqs>>
           \/ /\ r = 0
              /\ reqs' = Append(reqs, [done |-> FALSE, answer |-> "none"])
              /\ queue' = Enqueue(op[c], id[c])
              /\ mine' = [mine EXCEPT ![c] = Len(reqs) + 1]
              /\ pc' = [pc EXCEPT ![c] = "upstream"]
    /\ UNCHANGED <<stored, answer, sure, call>>

\* What the upstream store may answer.  For HasChunk "ok" and "missing" are
\* true and false, for GetChunk "missing" is ChunkMissing.
Answers(m, i) ==
    (IF m = "StoreChunk" \/ i \in stored THEN {"ok"} ELSE {"missing"})
    \cup (IF MayFail THEN {"error"} ELSE {})

\* The call of the upstream store returns.  A StoreChunk that failed may or
\* may not have stored the chunk.
Upstream(c) ==
    /\ pc[c] = "upstream"
    /\ \E a \in Answers(op[c], id[c]) :
          /\ answer' = [answer EXCEPT ![c] = a]
          /\ \/ op[c] = "StoreChunk" /\ stored' = stored \cup {id[c]}
             \/ ~(op[c] = "StoreChunk" /\ a = "ok") /\ UNCHANGED stored
    /\ pc' = [pc EXCEPT ![c] = "mark"]
    /\ UNCHANGED <<queue, reqs, mine, sure, call>>

\* The requests after markDone(r, a).  Mutant: not on an error.
MarkedOnSuccess(r, a) == IF a = "error" THEN reqs
                         ELSE [reqs EXCEPT ![r] = [done |-> TRUE, answer |-> a]]
Marked(r, a)          == [reqs EXCEPT ![r] = [done |-> TRUE, answer |-> a]]

\* markDone: keep the answer and wake the waiting callers.
MarkDone(c) ==
    /\ pc[c] = "mark"
    /\ reqs' = Marked(mine[c], answer[c])
    /\ pc' = [pc EXCEPT ![c] = "delete"]
    /\ UNCHANGED <<stored, queue, mine, answer, sure, call>>

\* The queue after a request for chunk i is dropped.  Mutant: only a request
\* that succeeded is dropped.
DroppedOnSuccess(c, m, i) ==
    IF answer[c] # "ok" THEN queue ELSE [queue EXCEPT ![m][i] = 0]
Dropped(c, m, i)          == [queue EXCEPT ![m][i] = 0]

\* Drop the request from the queue and return.
Delete(c) ==
    /\ pc[c] = "delete"
    /\ queue' = Dropped(c, op[c], id[c])
    /\ mine' = [mine EXCEPT ![c] = 0]
    /\ pc' = [pc EXCEPT ![c] = "idle"]
    /\ UNCHANGED <<stored, reqs, answer, sure, call>>

\* What a caller that joined request r returns.  Mutant: the data alone.
AnswerData(r) == IF reqs[r].answer = "error" THEN "ok" ELSE reqs[r].answer
AnswerOf(r)   == reqs[r].answer

\* wait: the channel of the request is closed, its answer is taken.
Wait(c) ==
    /\ pc[c] = "wait"
    /\ reqs[mine[c]].done
    /\ answer' = [answer EXCEPT ![c] = AnswerOf(mine[c])]
    /\ mine' = [mine EXCEPT ![c] = 0]
    /\ pc' = [pc EXCEPT ![c] = "idle"]
    /\ UNCHANGED <<stored, queue, reqs, sure, call>>

Init ==
    /\ stored \in SUBSET IDs
    /\ queue = [m \in Ops |-> [i \in IDs |-> 0]]
    /\ reqs = <<>>
    /\ pc = [c \in Clients |-> "idle"]
    /\ op = [c \in Clients |-> "GetChunk"]
    /\ id \in [Clients -> IDs]
    /\ mine = [c \in Clients |-> 0]
    /\ answer = [c \in Clients |-> "none"]
    /\ sure = [c \in Clients |-> FALSE]
    /\ calls = 0

Step(c) == Peek(c) \/ Lookup(c) \/ Upstream(c) \/ MarkDone(c) \/ Delete(c) \/ Wait(c)

\* The bound on the calls is reached.
Ended == calls = MaxCalls /\ (\A c \in Clients : pc[c] = "idle") /\ UNCHANGED vars

Next ==
    \/ \E c \in Clients : Step(c)
    \/ \E c \in Clients, m \in Ops, i \in IDs : Call(c, m, i)
    \/ Ended

\* The upstream store answers, and every goroutine that can run does.
Fairness == \A c \in Clients : WF_vars(Step(c))

Spec == Init /\ [][Next]_vars /\ Fairness

-----------------------------------------------------------------------------
(* Properties.                                                             *)

\* Every variable keeps its type.
TypeOK ==
    /\ stored \subseteq IDs
    /\ queue \in [Ops -> [IDs -> 0..Len(reqs)]]
    /\ reqs \in Seq([done : BOOLEAN, answer : {"none", "ok", "missing", "error"}])
    /\ pc \in [Clients -> {"idle", "peek", "lookup", "upstream", "mark", "delete", "wait"}]
    /\ op \in [Clients -> Ops]
    /\ id \in [Clients -> IDs]
    /\ mine \in [Clients -> 0..Len(reqs)]
    /\ answer \in [Clients -> {"none", "ok", "missing", "error"}]
    /\ sure \in [Clients -> BOOLEAN]
    /\ calls \in 0..MaxCalls

Sends(c, m, i) == pc[c] \in {"upstream", "mark", "delete"} /\ op[c] = m /\ id[c] = i

\* "concurrent requests for the same chunk will result in just one request to
\* the upstream store" (dedupqueue.go:12-13, writededupqueue.go:10-11).
OneUpstreamRequest ==
    \A m \in Ops, i \in IDs : \A c, d \in Clients :
        Sends(c, m, i) /\ Sends(d, m, i) => c = d

\* Nobody gets a chunk that is not in the store: a GetChunk that joins a
\* StoreChunk returns the data only once it is stored, and a StoreChunk that
\* joins another succeeds only with it.
OkMeansStored ==
    \A c \in Clients :
        pc[c] = "idle" /\ op[c] # "HasChunk" /\ answer[c] = "ok" => id[c] \in stored

\* A chunk that is stored when a call begins is not reported missing to it,
\* whichever request it joins, done or not, as long as no call from before the
\* chunk was stored is still under way: of those a request may be left that
\* has its answer and is not yet deleted.
NoStaleAnswers == \A c \in Clients : sure[c] => answer[c] # "missing"

\* When all calls have returned the queues hold nothing, however they ended
\* ("drop the request from the queue to avoid keeping all the chunk data in
\* memory", dedupqueue.go:52-53).
QueuesDrained ==
    (\A c \in Clients : pc[c] = "idle") => \A m \in Ops, i \in IDs : queue[m][i] = 0

\* Every call returns: nobody waits for a request that is never marked done.
CallsReturn == \A c \in Clients : pc[c] # "idle" ~> pc[c] = "idle"

-----------------------------------------------------------------------------
(* The inductive invariant (DedupQueueProofs).                             *)

Owner(c) == pc[c] \in {"upstream", "mark", "delete"}

\* The caller that sends a request upstream has it in the queue, alone, and
\* only its markDone completes it.
OwnerInv ==
    /\ \A c \in Clients : Owner(c) =>
          /\ mine[c] # 0 /\ queue[op[c]][id[c]] = mine[c]
          /\ reqs[mine[c]].done <=> pc[c] = "delete"
          /\ pc[c] = "delete" => reqs[mine[c]].answer = answer[c]
          /\ pc[c] # "upstream" /\ answer[c] = "ok" /\ op[c] # "HasChunk" =>
                id[c] \in stored
    /\ \A c, d \in Clients : Owner(c) /\ Owner(d) /\ mine[c] = mine[d] => c = d

\* What is in a queue belongs to a caller that has yet to delete it.
QueueInv ==
    \A m \in Ops, i \in IDs : queue[m][i] # 0 =>
        \E c \in Clients : Owner(c) /\ op[c] = m /\ id[c] = i /\ mine[c] = queue[m][i]

\* A caller that waits does so for a request on its chunk that somebody will
\* complete, or that is complete.
WaitInv ==
    \A c \in Clients : pc[c] = "wait" =>
        /\ mine[c] # 0
        /\ \/ \E d \in Clients :
                 /\ Owner(d) /\ mine[d] = mine[c] /\ id[d] = id[c]
                 /\ op[c] # "HasChunk" => op[d] # "HasChunk"
           \/ /\ reqs[mine[c]].done
              /\ reqs[mine[c]].answer = "ok" /\ op[c] # "HasChunk" => id[c] \in stored

DedupInv == TypeOK /\ OwnerInv /\ QueueInv /\ WaitInv /\ OkMeansStored

Holds(c) == Owner(c) \/ pc[c] = "wait"

\* While a call that began sure is under way, no call for its chunk, and no
\* request that one holds, has the answer "missing".
SureInv ==
    \A c \in Clients : sure[c] =>
        /\ id[c] \in stored /\ answer[c] # "missing"
        /\ pc[c] # "idle" =>
              \A d \in Clients : pc[d] # "idle" /\ id[d] = id[c] =>
                  /\ answer[d] # "missing"
                  /\ Holds(d) => reqs[mine[d]].answer # "missing"

=============================================================================
