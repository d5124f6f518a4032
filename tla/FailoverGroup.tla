--------------------------- MODULE FailoverGroup ---------------------------
(***************************************************************************)
(* FailoverGroup (failover.go): a store made of several stores that hold   *)
(* the same chunks.  One of them is active; an error from it makes the     *)
(* next one active and the request is tried again.  Requests run           *)
(* concurrently and share only the number of the active store.             *)
(***************************************************************************)
EXTENDS Integers

CONSTANTS
    N,          \* len(g.stores); the stores are 0..N-1, as in the code
    Clients,    \* goroutines that use the group
    Reliable    \* which stores may be the ones that never return an error

Stores == 0..(N - 1)

ASSUME NAssumption        == N \in Nat \ {0}
ASSUME ReliableAssumption == Reliable \subseteq SUBSET Stores

VARIABLES
    reliable,   \* the stores that never return an unexpected error
    active,     \* g.active
    pc,         \* where each client is: idle, select, call, fail
    op,         \* the method it called
    tries,      \* the loop variable i of its request
    used,       \* the store that current() gave it
    result      \* what its last request returned: ok, missing, error

vars == <<reliable, active, pc, op, tries, used, result>>

Ops == {"GetChunk", "HasChunk"}

\* A client calls GetChunk or HasChunk.
Call(c, m) ==
    /\ pc[c] = "idle"
    /\ pc' = [pc EXCEPT ![c] = "select"]
    /\ op' = [op EXCEPT ![c] = m]
    /\ result' = [result EXCEPT ![c] = "none"]
    /\ UNCHANGED <<reliable, active, tries, used>>

\* The locals of the request are gone once it returns.
Return(c, r) == /\ pc' = [pc EXCEPT ![c] = "idle"]
                /\ result' = [result EXCEPT ![c] = r]
                /\ tries' = [tries EXCEPT ![c] = 0]
                /\ used' = [used EXCEPT ![c] = 0]

\* The loop condition, then current() under the read lock; when every attempt
\* is used up, the last error goes to the caller.
Select(c) ==
    /\ pc[c] = "select"
    /\ \/ /\ tries[c] < N
          /\ pc' = [pc EXCEPT ![c] = "call"]
          /\ used' = [used EXCEPT ![c] = active]
          /\ UNCHANGED <<result, tries>>
       \/ /\ tries[c] >= N
          /\ Return(c, "error")
    /\ UNCHANGED <<reliable, active, op>>

\* What the store answered ends the request: the chunk (or a bool), or that
\* the chunk is missing, which HasChunk does not tell from a success.
Answer(c) ==
    /\ pc[c] = "call"
    /\ \E r \in IF op[c] = "GetChunk" THEN {"ok", "missing"} ELSE {"ok"} : Return(c, r)
    /\ UNCHANGED <<reliable, active, op>>

\* The store returned another error, which is kept for the caller.
StoreError(c) ==
    /\ pc[c] = "call"
    /\ used[c] \notin reliable
    /\ pc' = [pc EXCEPT ![c] = "fail"]
    /\ UNCHANGED <<reliable, active, op, tries, used, result>>

\* The store that is active after an error from i: the next one, unless
\* another request moved on already.  Mutant: move on in any case.
AfterErrorAlways(i) == (active + 1) % N
AfterError(i)       == IF i # active THEN active ELSE (active + 1) % N

\* The loop counts its attempts.  Mutant: it tries until a store answers.
UncountedTry(i) == i
NextTry(i)      == i + 1

\* errorFrom under the lock, then the next turn of the loop.
ErrorFrom(c) ==
    /\ pc[c] = "fail"
    /\ active' = AfterError(used[c])
    /\ tries' = [tries EXCEPT ![c] = NextTry(@)]
    /\ pc' = [pc EXCEPT ![c] = "select"]
    /\ UNCHANGED <<reliable, op, used, result>>

Init ==
    /\ reliable \in Reliable
    /\ active = 0
    /\ pc = [c \in Clients |-> "idle"]
    /\ op = [c \in Clients |-> "GetChunk"]
    /\ tries = [c \in Clients |-> 0]
    /\ used = [c \in Clients |-> 0]
    /\ result = [c \in Clients |-> "none"]

Step(c) == Select(c) \/ Answer(c) \/ StoreError(c) \/ ErrorFrom(c)

Next == \E c \in Clients : Step(c) \/ \E m \in Ops : Call(c, m)

\* A store answers every call, in one way or another.
Fairness == \A c \in Clients : WF_vars(Step(c))

Spec == Init /\ [][Next]_vars /\ Fairness

-----------------------------------------------------------------------------
(* Properties.                                                             *)

\* Every variable keeps its type; the active store is one of the group.
TypeOK ==
    /\ reliable \subseteq Stores
    /\ active \in Stores
    /\ pc \in [Clients -> {"idle", "select", "call", "fail"}]
    /\ op \in [Clients -> Ops]
    /\ tries \in [Clients -> 0..N]
    /\ used \in [Clients -> Stores]
    /\ result \in [Clients -> {"none", "ok", "missing", "error"}]

\* One store that keeps working is enough, wherever it is in the rotation and
\* however many requests fail over at the same time: no request fails, which
\* is what a failover group is for (failover.go:10-15).
ReliableStoreServes == reliable # {} => \A c \in Clients : result[c] # "error"

\* Once a reliable store is active it stays active: late errors of requests
\* that used an earlier store do not move the group away from it.
StaysOnReliable == [][(active \in reliable) => active' = active]_vars

\* Every request returns, because the number of attempts is bounded even when
\* other requests keep rotating the stores.
RequestsReturn == \A c \in Clients : pc[c] = "select" ~> pc[c] = "idle"

-----------------------------------------------------------------------------
(* The invariant behind ReliableStoreServes (FailoverGroupProofs).         *)

\* How far the rotation is from store h.
Distance(i, h) == IF i <= h THEN h - i ELSE h + N - i

\* Every failure a request has seen is one step of the rotation towards h,
\* which never passes h.
Progress(h) ==
    \A c \in Clients :
        /\ pc[c] = "select" => tries[c] + Distance(active, h) < N
        /\ pc[c] \in {"call", "fail"} =>
              /\ tries[c] + Distance(used[c], h) < N
              /\ Distance(active, h) <= Distance(used[c], h)
              /\ pc[c] = "fail" => used[c] # h

ProgressInv == \A h \in reliable : Progress(h)
\* A store is only called while attempts are left, all of them at first.
TriesInv    == \A c \in Clients : /\ pc[c] \in {"call", "fail"} => tries[c] < N
                                  /\ pc[c] = "idle" => tries[c] = 0
FailoverInv == TypeOK /\ TriesInv /\ ProgressInv /\ ReliableStoreServes

=============================================================================
