---------------------------- MODULE ChunkService ----------------------------
(***************************************************************************)
(* What a chunk store promises its clients, however many stores, caches    *)
(* and servers lie behind it: a chunk is delivered, or reported missing,   *)
(* according to what is available at some moment of the call.  A failure   *)
(* is an answer only after something went wrong, or to a call that is      *)
(* refused.  Then, and only then, the answer to HasChunk may be wrong, and *)
(* a chunk that only a cache has may be reported missing.                  *)
(* Each client makes one call.                                             *)
(***************************************************************************)
EXTENDS Integers, FiniteSets

CONSTANTS Clients, Ids

VARIABLES
    avail,      \* the chunks that can be had from a store
    extra,      \* other chunks, which only a cache has
    calls,      \* client -> [op, id, answer]
    epoch,      \* how often the stores were configured
    trouble     \* something went wrong

vars == <<avail, extra, calls, epoch, trouble>>

Ops    == {"get", "has", "put"}
NoCall == [op |-> "none", id |-> 0, answer |-> "none"]

\* Answers that are right at this moment, knowing whether something is wrong.
Right(op, id, wrong) ==
    CASE op = "get" -> (IF id \in avail \cup extra THEN {"chunk"} ELSE {})
                       \cup (IF id \notin avail /\ (id \in extra => wrong) THEN {"missing"} ELSE {})
      [] op = "has" -> IF wrong THEN {"yes", "no"}
                       ELSE IF id \in avail \cup extra THEN {"yes"} ELSE {"no"}
      [] op = "put" -> IF id \in avail THEN {"ok"} ELSE {}

Init ==
    /\ avail \in SUBSET Ids /\ extra = {}
    /\ calls = [c \in Clients |-> NoCall]
    /\ epoch = 0 /\ trouble = FALSE

\* Some calls are refused, whatever the store holds.
Call(c) ==
    /\ calls[c] = NoCall
    /\ \E op \in Ops, id \in Ids, a \in {"wait", "refused"} :
          calls' = [calls EXCEPT ![c] = [op |-> op, id |-> id, answer |-> a]]
    /\ UNCHANGED <<avail, extra, epoch, trouble>>

Answer(c) ==
    /\ calls[c].answer = "wait"
    /\ trouble' \in {trouble, TRUE}
    /\ \E a \in Right(calls[c].op, calls[c].id, trouble')
               \cup (IF trouble' THEN {"error"} ELSE {}) :
          calls' = [calls EXCEPT ![c].answer = a]
    /\ UNCHANGED <<avail, extra, epoch>>

\* An answer gets lost.  The client asks again or gives up.
Lose(c) ==
    /\ calls[c].answer \notin {"none", "wait", "refused"}
    /\ \E a \in {"wait", "error"} : calls' = [calls EXCEPT ![c].answer = a]
    /\ trouble' = TRUE
    /\ UNCHANGED <<avail, extra, epoch>>

\* A chunk that some client stores becomes available, perhaps before and
\* perhaps after this client got its answer.
Store ==
    /\ \E c \in Clients :
          /\ calls[c].op = "put" /\ calls[c].answer # "refused"
          /\ avail' = avail \cup {calls[c].id}
    /\ UNCHANGED <<extra, calls, epoch, trouble>>

\* Another set of stores is configured.
Configure ==
    /\ epoch' = epoch + 1
    /\ avail' \in SUBSET Ids /\ extra' \in SUBSET Ids
    /\ UNCHANGED <<calls, trouble>>

\* Something goes wrong, and chunks in the cache may be damaged.
GoWrong ==
    /\ trouble' = TRUE
    /\ extra' \in SUBSET extra
    /\ UNCHANGED <<avail, calls, epoch>>

Next == (\E c \in Clients : Call(c) \/ Answer(c) \/ Lose(c)) \/ Store \/ Configure \/ GoWrong

Spec == Init /\ [][Next]_vars
=============================================================================
