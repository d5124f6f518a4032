---------------------------- MODULE ChunkServer -----------------------------
(***************************************************************************)
(* desync chunk-server with its clients and the stores behind it.          *)
(*                                                                         *)
(*   RemoteHTTP (client, retries) --network--> HTTPHandler                 *)
(*      -> SwapStore -> Cache [RepairableCache] -> StoreRouter -> stores   *)
(*                                                                         *)
(* A request that is lost or times out leaves its handler running: the     *)
(* client sends another one.  On SIGHUP the stores are configured anew and *)
(* swapped: SwapStore waits for the requests that use the old ones, and    *)
(* closes those.  Stores are local, http, s3, gcs, sftp, or ssh: an ssh    *)
(* store is a pool of sessions with ProtocolServers, and such a server     *)
(* ends when it was asked for a chunk that it does not have.               *)
(*                                                                         *)
(* The DedupQueue between SwapStore and Cache is the subject of module     *)
(* DedupQueue, groups of stores in the router that of FailoverGroup.       *)
(***************************************************************************)
EXTENDS Integers, Sequences, FiniteSets, SequencesExt

CONSTANTS
    Clients,
    Ids,            \* chunks
    Stores,         \* names of stores
    Kind,           \* store -> "local", "http", "s3", "gcs", "sftp", "ssh"
    Holdings,       \* what the stores can hold at first
    Configs,        \* what a store file can say: [stores, cached]
    Options,        \* command lines: [writable, skipVerify,
                    \* cacheRepair, strangers: clients with wrong credentials or
                    \* another chunk format]
    ErrorRetry,     \* attempts of a client
    Sessions,       \* sessions of an ssh store
    MaxReloads,
    MaxFaults       \* lost messages, failing stores, damaged chunks

ASSUME ClientsAssumption == IsFiniteSet(Clients)
ASSUME HoldingsAssumption == Holdings \subseteq [Stores -> SUBSET Ids]
ASSUME ConfigsAssumption == \A f \in Configs : f.stores \in Seq(Stores) /\ f.cached \in BOOLEAN
ASSUME RetryAssumption == ErrorRetry \in Nat
ASSUME SessionsAssumption == Sessions \in Nat \ {0}
ASSUME BoundsAssumption == MaxReloads \in Nat /\ MaxFaults \in Nat

VARIABLES
    opt,        \* the options of this server
    held,       \* store -> chunks in it
    cache,      \* chunk -> "none", "good" or "bad"
    conf,       \* the configuration in SwapStore, with its number
    swap,       \* the one that Swap waits to put in, or NoConf
    pool,       \* number -> pool of the ssh store: which sessions are alive
    call,       \* client -> [op, id, attempt, result]
    handler,    \* <<client, attempt>> -> state of the handler
    died,       \* an ssh session has ended
    faults      \* how many things went wrong

vars == <<opt, held, cache, conf, swap, pool, call, handler, died, faults>>

Attempts == 1..(IF ErrorRetry = 0 THEN 1 ELSE ErrorRetry)
Ops      == {"get", "has", "put"}
Numbers  == 0..MaxReloads
NoConf   == [number |-> -1, stores |-> <<>>, cached |-> FALSE]

\* at: "none", "lock", "cache", "router", "ssh", "fill", "stored" or "replied".
NoHandler == [at |-> "none", number |-> -1, i |-> 1, alive |-> FALSE, status |-> 0, body |-> "none"]

Conf(f, n)  == [number |-> n, stores |-> f.stores, cached |-> f.cached]
NewSessions == [j \in 1..Sessions |-> TRUE]

\* chunkServerStore: there has to be a store, and a writable server has one that
\* can be written to, and no cache.
Accepted(o, f) ==
    /\ f.stores # <<>>
    /\ o.writable => Len(f.stores) = 1 /\ ~f.cached /\ Kind[f.stores[1]] # "ssh"

Init ==
    \E o \in Options, f \in Configs :
        /\ Accepted(o, f)
        /\ opt = o /\ conf = Conf(f, 0) /\ swap = NoConf
        /\ held \in Holdings
        /\ cache = [id \in Ids |-> "none"]
        /\ pool = [n \in Numbers |-> IF n = 0 THEN NewSessions ELSE <<>>]
        /\ call = [c \in Clients |-> [op |-> "none", id |-> 0, attempt |-> 0, result |-> "none"]]
        /\ handler = [h \in Clients \X Attempts |-> NoHandler]
        /\ died = FALSE /\ faults = 0

Fault == faults < MaxFaults /\ faults' = faults + 1

Refused(c, op) == c \in opt.strangers \/ (op = "put" /\ ~opt.writable)

-----------------------------------------------------------------------------
(* The client: IssueRetryableHttpRequest.                                  *)

clientRest == <<opt, held, cache, conf, swap, pool, died>>

Begin(c) ==
    /\ call[c].op = "none"
    /\ \E op \in Ops, id \in Ids :
          call' = [call EXCEPT ![c] = [op |-> op, id |-> id, attempt |-> 1, result |-> "wait"]]
    /\ handler' = [handler EXCEPT ![<<c, 1>>].at = "lock"]
    /\ UNCHANGED <<faults, clientRest>>

\* An error or a status of 500 and more: try again, or give up.  The handlers
\* that run then are hs.
TryAgain(c, hs) ==
    LET a == call[c].attempt IN
    IF a >= ErrorRetry
    THEN call' = [call EXCEPT ![c].result = "error"] /\ handler' = hs
    ELSE /\ call' = [call EXCEPT ![c].attempt = a + 1]
         /\ handler' = [hs EXCEPT ![<<c, a + 1>>].at = "lock"]

\* What GetChunk, HasChunk and StoreChunk make of the response.  The client
\* verifies the chunk.
ResultOf(op, h) ==
    CASE h.status = 404 -> IF op = "get" THEN "missing" ELSE IF op = "has" THEN "no" ELSE "error"
      [] h.status = 200 -> IF op = "has" THEN "yes" ELSE IF op = "put" THEN "ok"
                           ELSE IF h.body = "good" THEN "chunk" ELSE "error"
      [] OTHER -> "error"

Waiting(c) == call[c].result = "wait"
Current(c) == handler[<<c, call[c].attempt>>]

Respond(c) ==
    /\ Waiting(c) /\ Current(c).at = "replied"
    /\ IF Current(c).status >= 500 THEN TryAgain(c, handler)
       ELSE /\ call' = [call EXCEPT ![c].result = ResultOf(call[c].op, Current(c))]
            /\ UNCHANGED handler
    /\ UNCHANGED <<faults, clientRest>>

\* The request is lost, or the response is lost or late: then the handler has
\* run, or runs on.
TimeOut(c) ==
    /\ Waiting(c) /\ Fault
    /\ \/ TryAgain(c, handler)
       \/ /\ Current(c).at = "lock"
          /\ TryAgain(c, [handler EXCEPT ![<<c, call[c].attempt>>] = NoHandler])
    /\ UNCHANGED clientRest

Client(c) == Begin(c) \/ Respond(c) \/ TimeOut(c)

-----------------------------------------------------------------------------
(* Handlers.  From "lock" to "replied" they hold the read lock of          *)
(* SwapStore.                                                              *)

InStore(h) == handler[h].at \in {"cache", "router", "ssh", "fill", "stored"}
Op(h) == call[h[1]].op
Id(h) == call[h[1]].id

\* The status is written when the method of SwapStore has returned.
Reply(h, status, body) ==
    handler' = [handler EXCEPT ![h] = [@ EXCEPT !.at = "replied", !.status = status, !.body = body]]

\* ServeHTTP: 401 or 400 for strangers, and for writes to a server that is not
\* writable: these ask SwapStore for its name, under the lock.
Refuse(h) ==
    /\ handler[h].at = "lock" /\ Refused(h[1], Op(h))
    /\ h[1] \in opt.strangers \/ swap = NoConf
    /\ Reply(h, 400, "none")
    /\ UNCHANGED <<opt, held, cache, conf, swap, pool, call, died, faults>>

\* RLock: not while Swap waits for the lock.
RLock(h) ==
    /\ handler[h].at = "lock" /\ ~Refused(h[1], Op(h)) /\ swap = NoConf
    /\ handler' = [handler EXCEPT ![h].at = IF conf.cached THEN "cache" ELSE "router",
                                  ![h].number = conf.number]
    /\ UNCHANGED <<opt, held, cache, conf, swap, pool, call, died, faults>>

\* NewChunkFromStorage verifies what GetChunk reads, unless told not to.
Verifies(h) == Op(h) = "get" /\ ~opt.skipVerify

\* RepairableCache: an invalid chunk is a missing one.
Repairs(h) == Verifies(h) /\ opt.cacheRepair

\* Cache.GetChunk and HasChunk ask the cache first.  When the file cannot be
\* read, its chunk is invalid as well.
AskCache(h) ==
    /\ handler[h].at = "cache"
    /\ LET c == cache[Id(h)]
           invalid == c = "bad" /\ Verifies(h)
           OnMiss == handler' = [handler EXCEPT ![h].at = "router"]
       IN  \/ /\ IF c = "none" \/ (invalid /\ Repairs(h)) THEN OnMiss
                 ELSE Reply(h, IF invalid THEN 500 ELSE 200, c)
              /\ UNCHANGED faults
           \/ /\ Fault
              /\ IF Repairs(h) THEN OnMiss ELSE Reply(h, 500, "none")
    /\ UNCHANGED <<opt, held, cache, conf, swap, pool, call, died>>

-----------------------------------------------------------------------------
(* StoreRouter, and what its stores answer: "yes", "no" or "error".        *)

\* GetChunk of the stores fails when all of its attempts fail.  HasChunk of s3
\* and sftp stores takes every error for no.
OnFault(kind, op) == IF op = "has" /\ kind \in {"s3", "sftp"} THEN "no" ELSE "error"

\* RemoteSSH.HasChunk returns the ChunkMissing of its GetChunk as an error.
SshAnswer(op, alive, has) ==
    IF ~alive THEN "error" ELSE IF has THEN "yes" ELSE IF op = "has" THEN "error" ELSE "no"

\* On "no" the router goes on to the next store, on an error it stops.  Mutant:
\* errors are passed over.
PassOverErrors(a) == a \in {"no", "error"}
NextStore(a) == a = "no"

\* The answer a of a store.  A chunk from a store goes into the cache.
Routed(h, a) ==
    IF NextStore(a)
    THEN IF handler[h].i = Len(conf.stores) THEN Reply(h, 404, "none")
         ELSE handler' = [handler EXCEPT ![h].at = "router", ![h].i = @ + 1]
    ELSE IF a = "error" THEN Reply(h, 500, "none")
    ELSE IF Op(h) = "get" /\ conf.cached THEN handler' = [handler EXCEPT ![h].at = "fill"]
    ELSE Reply(h, 200, "good")

StoreOf(h) == conf.stores[handler[h].i]
KindOf(h)  == Kind[StoreOf(h)]
Has(h)     == Id(h) \in held[StoreOf(h)]

AskStore(h) ==
    /\ handler[h].at = "router" /\ Op(h) \in {"get", "has"} /\ KindOf(h) # "ssh"
    /\ \/ /\ Routed(h, IF Has(h) THEN "yes" ELSE "no")
          /\ UNCHANGED faults
       \/ /\ Fault
          /\ Routed(h, OnFault(KindOf(h), Op(h)))
    /\ UNCHANGED <<opt, held, cache, conf, swap, pool, call, died>>

\* RemoteSSH.GetChunk: the next session of the pool ...
TakeSession(h) ==
    /\ handler[h].at = "router" /\ Op(h) \in {"get", "has"} /\ KindOf(h) = "ssh"
    /\ pool[handler[h].number] # <<>>
    /\ pool' = [pool EXCEPT ![handler[h].number] = Tail(@)]
    /\ handler' = [handler EXCEPT ![h].at = "ssh", ![h].alive = Head(pool[handler[h].number])]
    /\ UNCHANGED <<opt, held, cache, conf, swap, call, died, faults>>

\* ... goes back whatever happened.  Mutant: not after an error.
BackIfAlive(p, alive) == IF alive THEN Append(p, alive) ELSE p
PutBack(p, alive) == Append(p, alive)

\* ProtocolServer.Serve ends when the chunk is missing, and on errors.
ServesOn(alive, has) == alive /\ has

\* RequestChunk on a session.  After a chunk that is invalid the session can
\* still be used.
AskSession(h) ==
    /\ handler[h].at = "ssh"
    /\ LET alive == handler[h].alive
           Done(ok, left) ==
               /\ Routed(h, SshAnswer(Op(h), ok, Has(h)))
               /\ pool' = [pool EXCEPT ![handler[h].number] = PutBack(@, left)]
               /\ died' = (died \/ ~left)
       IN  \/ Done(alive, ServesOn(alive, Has(h))) /\ UNCHANGED faults
           \/ Fault /\ \E left \in {FALSE, alive /\ Has(h)} : Done(FALSE, left)
    /\ UNCHANGED <<opt, held, cache, conf, swap, call>>

\* Cache.GetChunk: StoreChunk of the cache, which may fail.
FillCache(h) ==
    /\ handler[h].at = "fill"
    /\ \/ cache' = [cache EXCEPT ![Id(h)] = "good"] /\ Reply(h, 200, "good") /\ UNCHANGED faults
       \/ Fault /\ Reply(h, 500, "none") /\ UNCHANGED cache
    /\ UNCHANGED <<opt, held, conf, swap, pool, call, died>>

\* StoreChunk of the one store of a writable server.  A write that fails may
\* have been complete.
PutChunk(h) ==
    /\ handler[h].at = "router" /\ Op(h) = "put"
    /\ \/ /\ held' = [held EXCEPT ![StoreOf(h)] = @ \cup {Id(h)}]
          /\ handler' = [handler EXCEPT ![h].at = "stored"]
          /\ UNCHANGED faults
       \/ UNCHANGED held /\ Fault /\ Reply(h, 500, "none")
    /\ UNCHANGED <<opt, cache, conf, swap, pool, call, died>>

Stored(h) ==
    /\ handler[h].at = "stored"
    /\ \/ Reply(h, 200, "none") /\ UNCHANGED faults
       \/ Fault /\ Reply(h, 500, "none")
    /\ UNCHANGED <<opt, held, cache, conf, swap, pool, call, died>>

Handler(h) ==
    \/ Refuse(h) \/ RLock(h) \/ AskCache(h) \/ AskStore(h) \/ TakeSession(h) \/ AskSession(h)
    \/ FillCache(h) \/ PutChunk(h) \/ Stored(h)

-----------------------------------------------------------------------------
(* SIGHUP.                                                                 *)

\* The store file is read and the stores are opened; a failure is reported and
\* changes nothing.
Reload ==
    /\ swap = NoConf /\ conf.number < MaxReloads
    /\ \E f \in Configs :
          /\ Accepted(opt, f)
          /\ swap' = Conf(f, conf.number + 1)
          /\ pool' = [pool EXCEPT ![conf.number + 1] = NewSessions]
    /\ UNCHANGED <<opt, held, cache, conf, call, handler, died, faults>>

\* Close of an ssh store waits for all of its sessions.
CloseSessions(n) ==
    /\ Len(pool[n]) = Sessions
    /\ pool' = [pool EXCEPT ![n] = <<>>]

\* Swap takes the lock when no reader holds it, closes the old stores and puts
\* in the new ones.  Mutant: without the lock.
NoLock == TRUE
NoReaders == \A h \in Clients \X Attempts : ~InStore(h)

Swap ==
    /\ swap # NoConf /\ NoReaders
    /\ CloseSessions(conf.number)
    /\ conf' = swap /\ swap' = NoConf
    /\ UNCHANGED <<opt, held, cache, call, handler, died, faults>>

\* A chunk file of the cache is damaged.
Damage ==
    /\ Fault
    /\ \E id \in Ids : cache[id] = "good" /\ cache' = [cache EXCEPT ![id] = "bad"]
    /\ UNCHANGED <<opt, held, conf, swap, pool, call, handler, died>>

Answered == (\A c \in Clients : call[c].result \notin {"none", "wait"}) /\ UNCHANGED vars

Next ==
    \/ \E c \in Clients : Client(c)
    \/ \E h \in Clients \X Attempts : Handler(h)
    \/ Reload \/ Swap \/ Damage \/ Answered

Fairness ==
    /\ \A c \in Clients : WF_vars(Respond(c))
    /\ \A h \in Clients \X Attempts : WF_vars(Handler(h))
    /\ WF_vars(Swap)

Spec == Init /\ [][Next]_vars /\ Fairness

-----------------------------------------------------------------------------
(* Properties.                                                             *)

\* The chunks that the stores of the present configuration have, and those that
\* only the cache has.
InStores(id) == \E s \in Range(conf.stores) : id \in held[s]
Avail == {id \in Ids : InStores(id)}
Extra == {id \in Ids : conf.cached /\ cache[id] = "good" /\ ~InStores(id)}

AnswerTo(c) ==
    IF call[c].op # "none" /\ Refused(c, call[c].op) THEN "refused"
    ELSE IF Waiting(c) /\ Current(c).at = "replied" /\ Current(c).status < 500
    THEN ResultOf(call[c].op, Current(c))
    ELSE call[c].result

Calls   == [c \in Clients |-> [op |-> call[c].op, id |-> call[c].id, answer |-> AnswerTo(c)]]
Trouble == faults > 0 \/ died

Service == INSTANCE ChunkService WITH
    avail <- Avail, extra <- Extra, calls <- Calls, epoch <- conf.number, trouble <- Trouble

\* The server with everything behind it is a ChunkService: a chunk that some
\* store of the configuration has is never reported missing, also when other
\* stores fail, sessions have ended, requests are repeated while earlier ones
\* still run, and stores are swapped; damaged chunks never reach a client; and
\* without failures every answer is right.
ImplementsChunkService == Service!Spec

\* No request uses stores that were closed: those of a handler are the present
\* ones, and an ssh store has all of its sessions.
NoUseAfterClose ==
    \A h \in Clients \X Attempts : InStore(h) =>
        /\ handler[h].number = conf.number
        /\ Len(pool[conf.number])
             + Cardinality({k \in Clients \X Attempts : handler[k].at = "ssh"}) = Sessions

\* Every call returns: no handler waits for ever for a session or for the lock,
\* and no reload for the handlers.
RequestsAnswered == \A c \in Clients : Waiting(c) ~> ~Waiting(c)
-----------------------------------------------------------------------------
(* The inductive invariant.                                                *)

Handlers == Clients \X Attempts
OnSsh    == {k \in Handlers : handler[k].at = "ssh"}

Results      == {"none", "wait", "missing", "no", "error", "yes", "ok", "chunk"}
ConfTypes    == [number : Numbers, stores : Seq(Stores), cached : BOOLEAN]
HandlerTypes ==
    [at : {"none", "lock", "cache", "router", "ssh", "fill", "stored", "replied"},
     number : Int, i : Nat, alive : BOOLEAN, status : {0, 200, 400, 404, 500},
     body : {"none", "good", "bad"}]

TypeInv ==
    /\ opt \in Options /\ died \in BOOLEAN /\ faults \in Nat
    /\ held \in [Stores -> SUBSET Ids]
    /\ cache \in [Ids -> {"none", "good", "bad"}]
    /\ conf \in ConfTypes /\ Accepted(opt, conf)
    /\ swap # NoConf => swap \in ConfTypes /\ Accepted(opt, swap) /\ swap.number = conf.number + 1
    /\ pool \in [Numbers -> Seq(BOOLEAN)]
    /\ call \in [Clients -> [op : Ops \cup {"none"}, id : Ids \cup {0}, attempt : Nat,
                             result : Results]]
    /\ handler \in [Handlers -> HandlerTypes]

\* The sessions of the present ssh store are in its pool or with a handler, and
\* those of the next one are all there.
PoolInv ==
    /\ Len(pool[conf.number]) + Cardinality(OnSsh) = Sessions
    /\ swap # NoConf => pool[swap.number] = NewSessions

\* The attempts of a client, one after the other.
CallInv ==
    \A c \in Clients :
        /\ IF call[c].op = "none"
           THEN call[c].id = 0 /\ call[c].attempt = 0 /\ call[c].result = "none"
           ELSE call[c].id \in Ids /\ call[c].attempt \in Attempts /\ call[c].result # "none"
        /\ \A a \in Attempts : a > call[c].attempt => handler[<<c, a>>] = NoHandler

\* What only happens after something went wrong: bad chunks, sessions that have
\* ended, and errors.
TroubleInv ==
    /\ \A id \in Ids : cache[id] = "bad" => faults > 0
    /\ ~died => pool \in [Numbers -> Seq({TRUE})]
    /\ \A h \in Handlers : /\ handler[h].status >= 500 => Trouble
                           /\ handler[h].at = "ssh" /\ ~handler[h].alive => died

\* The stores before the present one have not got the chunk.
Passed(h) ==
    \A j \in 1..(handler[h].i - 1) :
        Op(h) = "get" \/ ~Trouble => Id(h) \notin held[conf.stores[j]]

\* A handler in the stores uses the present configuration, as far as it goes.
HandlerOk(h) ==
    /\ handler[h].at # "none" => Op(h) # "none"
    /\ handler[h].at = "lock" => handler[h].i = 1
    /\ InStore(h) => /\ handler[h].number = conf.number /\ ~Refused(h[1], Op(h))
                     /\ handler[h].i \in 1..Len(conf.stores) /\ Passed(h)
    /\ handler[h].at \in {"cache", "fill"} => conf.cached
    /\ handler[h].at = "fill" => Op(h) = "get"
    /\ handler[h].at = "ssh" => Op(h) \in {"get", "has"}
    /\ handler[h].at = "stored" => Op(h) = "put"
    /\ handler[h].at \in {"fill", "stored"} => InStores(Id(h))
    /\ /\ handler[h].at \in {"router", "ssh"} /\ conf.cached /\ ~Trouble
       /\ cache[Id(h)] = "good"
       => InStores(Id(h))

HandlerInv == \A h \in Handlers : HandlerOk(h)

ServerInv == TypeInv /\ PoolInv /\ CallInv /\ TroubleInv /\ HandlerInv
=============================================================================
