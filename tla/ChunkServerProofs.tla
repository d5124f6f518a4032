-------------------------- MODULE ChunkServerProofs -------------------------
(* Proofs about ChunkServer, for any number of clients, attempts, stores,   *)
(* sessions, reloads and failures: stores are not used after they were      *)
(* closed, and the server with everything behind it is a ChunkService.      *)
EXTENDS ChunkServer, FiniteSetTheorems, SequenceTheorems, TLAPS

-----------------------------------------------------------------------------
(* What steps have in common.                                               *)

\* Attempts are numbered from 1.
LEMMA AttemptFacts ==
    /\ Attempts \subseteq Nat \ {0} /\ 1 \in Attempts /\ IsFiniteSet(Attempts)
    /\ \A a \in Attempts : a < ErrorRetry => a + 1 \in Attempts
<1>1. PICK n \in Nat \ {0} : Attempts = 1..n /\ (ErrorRetry # 0 => n = ErrorRetry) 
  BY RetryAssumption DEF Attempts
<1>2. IsFiniteSet(1..n)
  BY FS_Interval
<1> QED
  BY <1>1, <1>2, RetryAssumption

\* The handlers are a finite set of pairs.
LEMMA HandlersFinite == IsFiniteSet(Handlers)
BY ClientsAssumption, AttemptFacts, FS_Product DEF Handlers

\* A handler is that of a client.
LEMMA HandlerPair ==
    ASSUME NEW h \in Handlers
    PROVE  h[1] \in Clients /\ h[2] \in Attempts /\ h = <<h[1], h[2]>>
BY DEF Handlers

\* A server that is writable has one store and no cache.
LEMMA ConfFacts ==
    ASSUME TypeInv
    PROVE  /\ conf.stores \in Seq(Stores) /\ Len(conf.stores) \in Nat /\ conf.cached \in BOOLEAN
           /\ conf.number \in Numbers /\ Numbers \subseteq Nat
           /\ \A j \in 1..Len(conf.stores) : /\ conf.stores[j] \in Stores
                                             /\ conf.stores[j] \in Range(conf.stores)
           /\ opt.writable => Len(conf.stores) = 1 /\ ~conf.cached
<1>1. /\ conf.stores \in Seq(Stores) /\ conf.cached \in BOOLEAN
      /\ conf.number \in Numbers /\ Numbers \subseteq Nat
  BY BoundsAssumption DEF TypeInv, ConfTypes, Numbers
<1>2. \A j \in 1..Len(conf.stores) : conf.stores[j] \in Range(conf.stores)
  BY <1>1 DEF Range
<1> QED
  BY <1>1, <1>2 DEF TypeInv, Accepted

\* The chunk of a request.
LEMMA CallFacts ==
    ASSUME TypeInv, CallInv, NEW h \in Handlers, Op(h) # "none"
    PROVE  Id(h) \in Ids /\ Op(h) \in Ops
BY HandlerPair DEF TypeInv, CallInv, Op, Id

\* What a reply changes.
LEMMA ReplyEffect ==
    ASSUME TypeInv, NEW h \in Handlers, NEW st \in {200, 400, 404, 500},
           NEW b \in {"none", "good", "bad"}, Reply(h, st, b)
    PROVE  /\ handler' \in [Handlers -> HandlerTypes]
           /\ handler'[h].at = "replied" /\ handler'[h].status = st /\ handler'[h].body = b
           /\ \A k \in Handlers : k # h => handler'[k] = handler[k]
<1>0. handler \in [Handlers -> HandlerTypes] /\ handler[h] \in HandlerTypes
  BY DEF TypeInv
<1> DEFINE y == [handler[h] EXCEPT !.at = "replied"]
           z == [y EXCEPT !.status = st]
           x == [z EXCEPT !.body = b]
<1> DEFINE f == [handler[h] EXCEPT !.at = "replied", !.status = st, !.body = b]
<1>a. handler' = [handler EXCEPT ![h] = f]
  BY <1>0 DEF Reply
<1>b. f = x
  OBVIOUS
<1> HIDE DEF f
<1>1. handler' = [handler EXCEPT ![h] = x]
  BY <1>a, <1>b
<1>2. y \in HandlerTypes /\ y.at = "replied"
  BY <1>0 DEF HandlerTypes
<1> HIDE DEF y
<1>3. z \in HandlerTypes /\ z.at = "replied" /\ z.status = st
  BY <1>2 DEF HandlerTypes
<1> HIDE DEF z
<1>4. x \in HandlerTypes /\ x.at = "replied" /\ x.status = st /\ x.body = b
  BY <1>3 DEF HandlerTypes
<1> HIDE DEF x
<1> QED
  BY <1>0, <1>1, <1>4

\* What a step that only moves a handler changes.
LEMMA MoveEffect ==
    ASSUME TypeInv, NEW h \in Handlers, NEW x \in HandlerTypes,
           handler' = [handler EXCEPT ![h] = x]
    PROVE  /\ handler' \in [Handlers -> HandlerTypes] /\ handler'[h] = x
           /\ \A k \in Handlers : k # h => handler'[k] = handler[k]
BY DEF TypeInv

\* Where Routed takes a handler, and that it changes no other one.
LEMMA RoutedEffect ==
    ASSUME TypeInv, NEW h \in Handlers, InStore(h), HandlerOk(h),
           NEW a \in {"yes", "no", "error"}, Routed(h, a)
    PROVE  /\ handler' \in [Handlers -> HandlerTypes]
           /\ \A k \in Handlers : k # h => handler'[k] = handler[k]
           /\ \/ /\ a = "no" /\ handler[h].i = Len(conf.stores)
                 /\ handler'[h].at = "replied" /\ handler'[h].status = 404
              \/ /\ a = "no" /\ handler[h].i < Len(conf.stores) /\ handler'[h].at = "router"
                 /\ handler'[h].i = handler[h].i + 1 /\ handler'[h].number = handler[h].number
                 /\ handler'[h].status = handler[h].status
              \/ /\ a = "error"
                 /\ handler'[h].at = "replied" /\ handler'[h].status = 500
              \/ /\ a = "yes" /\ Op(h) = "get" /\ conf.cached /\ handler'[h].at = "fill"
                 /\ handler'[h].i = handler[h].i /\ handler'[h].number = handler[h].number
                 /\ handler'[h].status = handler[h].status
              \/ /\ a = "yes" /\ ~(Op(h) = "get" /\ conf.cached)
                 /\ handler'[h].at = "replied" /\ handler'[h].status = 200
                 /\ handler'[h].body = "good"
<1>0. /\ handler \in [Handlers -> HandlerTypes] /\ handler[h].i \in 1..Len(conf.stores)
      /\ Len(conf.stores) \in Nat
  BY ConfFacts DEF TypeInv, HandlerOk
<1>1. CASE a = "no" /\ handler[h].i = Len(conf.stores)
  BY <1>1, ReplyEffect DEF Routed, NextStore
<1>2. CASE a = "no" /\ handler[h].i # Len(conf.stores)
  <2>1. handler' = [handler EXCEPT ![h].at = "router", ![h].i = @ + 1]
    BY <1>2 DEF Routed, NextStore
  <2> DEFINE y == [handler[h] EXCEPT !.at = "router"]
             x == [y EXCEPT !.i = handler[h].i + 1]
  <2>2. handler' = [handler EXCEPT ![h] = x]
    BY <1>0, <2>1
  <2>3. /\ y \in HandlerTypes /\ y.at = "router"
        /\ y.number = handler[h].number /\ y.status = handler[h].status
    BY <1>0 DEF HandlerTypes
  <2> HIDE DEF y
  <2>4. /\ x \in HandlerTypes /\ x.at = "router" /\ x.i = handler[h].i + 1
        /\ x.number = handler[h].number /\ x.status = handler[h].status
    BY <1>0, <2>3 DEF HandlerTypes
  <2> HIDE DEF x
  <2> QED
    BY <1>0, <1>2, <2>2, <2>4, MoveEffect
<1>3. CASE a = "error"
  BY <1>3, ReplyEffect DEF Routed, NextStore
<1>4. CASE a = "yes" /\ Op(h) = "get" /\ conf.cached
  <2>1. handler' = [handler EXCEPT ![h].at = "fill"]
    BY <1>4 DEF Routed, NextStore
  <2> DEFINE x == [handler[h] EXCEPT !.at = "fill"]
  <2>2. handler' = [handler EXCEPT ![h] = x]
    BY <1>0, <2>1
  <2>3. /\ x \in HandlerTypes /\ x.at = "fill" /\ x.i = handler[h].i
        /\ x.number = handler[h].number /\ x.status = handler[h].status
    BY <1>0 DEF HandlerTypes
  <2> HIDE DEF x
  <2> QED
    BY <1>0, <1>4, <2>2, <2>3, MoveEffect
<1>5. CASE a = "yes" /\ ~(Op(h) = "get" /\ conf.cached)
  BY <1>5, ReplyEffect DEF Routed, NextStore
<1> QED
  BY <1>1, <1>2, <1>3, <1>4, <1>5


-----------------------------------------------------------------------------
(* What a handler does not change.                                          *)

\* A step of handler h leaves the calls, the configurations and the other handlers
\* alone.
Frame(h) ==
    /\ UNCHANGED <<opt, conf, swap, call>>
    /\ handler[h].at # "none"
    /\ handler' \in [Handlers -> HandlerTypes]
    /\ \A k \in Handlers : k # h => handler'[k] = handler[k]

\* Chunks that are stored, that get into the cache, and failures: none of this
\* invalidates what another handler has found out.
Grows ==
    /\ Trouble => Trouble'
    /\ \A s \in Stores : held[s] \subseteq held'[s]
    /\ held' # held => opt.writable
    /\ \A id \in Ids : cache'[id] = "good" => cache[id] = "good" \/ InStores(id)

\* A handler that does not move.
LEMMA OthersKeep ==
    ASSUME TypeInv, CallInv, NEW k \in Handlers, HandlerOk(k), Grows,
           handler'[k] = handler[k], UNCHANGED <<opt, conf>>,
           call'[k[1]].op = call[k[1]].op, call'[k[1]].id = call[k[1]].id
    PROVE  HandlerOk(k)'
<1>1. Op(k)' = Op(k) /\ Id(k)' = Id(k) /\ Refused(k[1], Op(k))' = Refused(k[1], Op(k))
  BY DEF Op, Id, Refused
<1>2. InStores(Id(k)) => InStores(Id(k))'
  <2>1. ASSUME NEW s \in Range(conf.stores) PROVE s \in Stores
    BY ConfFacts DEF Range
  <2> QED
    BY <1>1, <2>1 DEF InStores, Grows
<1>3. InStore(k)' = InStore(k)
  BY DEF InStore
<1>4. InStore(k) => Passed(k)'
  <2> SUFFICES ASSUME InStore(k) PROVE Passed(k)'
    OBVIOUS
  <2>1. Passed(k) /\ handler[k].i \in 1..Len(conf.stores)
    BY DEF HandlerOk
  <2>2. CASE held' = held
    BY <1>1, <2>1, <2>2 DEF Passed, Grows
  <2>3. CASE opt.writable
    <3>1. handler'[k].i = 1
      BY <2>1, <2>3, ConfFacts
    <3> QED
      BY <3>1 DEF Passed
  <2> QED
    BY <2>2, <2>3 DEF Grows
<1>5. /\ handler[k].at \in {"router", "ssh"} /\ conf.cached /\ ~Trouble'
      /\ cache'[Id(k)] = "good"
      => InStores(Id(k))
  <2>1. handler[k].at \in {"router", "ssh"} => Id(k) \in Ids
    BY CallFacts DEF HandlerOk
  <2> QED
    BY <2>1 DEF HandlerOk, Grows
<1>6. /\ handler[k].at # "none" => Op(k) # "none"
      /\ handler[k].at = "lock" => handler[k].i = 1
      /\ InStore(k) => /\ handler[k].number = conf.number /\ ~Refused(k[1], Op(k))
                       /\ handler[k].i \in 1..Len(conf.stores)
      /\ handler[k].at \in {"cache", "fill"} => conf.cached
      /\ handler[k].at = "fill" => Op(k) = "get"
      /\ handler[k].at = "ssh" => Op(k) \in {"get", "has"}
      /\ handler[k].at = "stored" => Op(k) = "put"
      /\ handler[k].at \in {"fill", "stored"} => InStores(Id(k))
  BY DEF HandlerOk
<1> HIDE DEF HandlerOk
<1> QED
  BY <1>1, <1>2, <1>3, <1>4, <1>5, <1>6 DEF HandlerOk

\* After a step of h, HandlerInv has to be shown for h.
LEMMA HandlersKeep ==
    ASSUME TypeInv, CallInv, HandlerInv, NEW h \in Handlers, Frame(h), Grows, HandlerOk(h)'
    PROVE  HandlerInv'
<1>1. ASSUME NEW k \in Handlers, k # h PROVE HandlerOk(k)'
  BY <1>1, OthersKeep DEF Frame, HandlerInv
<1> QED
  BY <1>1 DEF HandlerInv

\* The attempts of a client are its own business.
LEMMA CallsKeep ==
    ASSUME TypeInv, CallInv, NEW h \in Handlers, Frame(h)
    PROVE  CallInv'
<1>1. ASSUME NEW c \in Clients, NEW a \in Attempts, a > call[c].attempt
      PROVE  handler'[<<c, a>>] = NoHandler
  <2>1. handler[<<c, a>>] = NoHandler /\ <<c, a>> \in Handlers
    BY <1>1 DEF CallInv, Handlers
  <2>2. <<c, a>> # h
    BY <2>1 DEF Frame, NoHandler
  <2> QED
    BY <2>1, <2>2 DEF Frame
<1> QED
  BY <1>1 DEF CallInv, Frame

\* The pool is as it was unless a session is taken or put back.
LEMMA PoolKeeps ==
    ASSUME PoolInv, NEW h \in Handlers, Frame(h), UNCHANGED pool,
           (handler'[h].at = "ssh") <=> (handler[h].at = "ssh")
    PROVE  PoolInv'
<1>1. OnSsh' = OnSsh
  BY DEF OnSsh, Frame
<1> QED
  BY <1>1 DEF PoolInv, Frame

\* What is to be shown of a step of handler h.
LEMMA HandlerStepKeeps ==
    ASSUME ServerInv, NEW h \in Handlers, Frame(h), Grows, HandlerOk(h)', PoolInv',
           faults' \in Nat, faults' >= faults, died' \in BOOLEAN, died => died',
           held' \in [Stores -> SUBSET Ids], cache' \in [Ids -> {"none", "good", "bad"}],
           \A id \in Ids : cache'[id] = "bad" => cache[id] = "bad",
           pool' \in [Numbers -> Seq(BOOLEAN)], ~died' => pool' \in [Numbers -> Seq({TRUE})],
           handler'[h].status >= 500 => Trouble',
           handler'[h].at = "ssh" /\ ~handler'[h].alive => died'
    PROVE  ServerInv'
<1>1. TypeInv'
  BY DEF ServerInv, TypeInv, Frame, Accepted
<1>2. CallInv'
  BY CallsKeep DEF ServerInv
<1>3. HandlerInv'
  BY HandlersKeep DEF ServerInv
<1>4. TroubleInv'
  <2>1. \A id \in Ids : cache'[id] = "bad" => faults' > 0
    BY DEF ServerInv, TroubleInv, TypeInv
  <2>2. ASSUME NEW k \in Handlers
        PROVE  /\ handler'[k].status >= 500 => Trouble'
               /\ handler'[k].at = "ssh" /\ ~handler'[k].alive => died'
    <3>1. CASE k = h
      BY <3>1
    <3>2. CASE k # h
      <4>1. handler'[k] = handler[k]
        BY <3>2 DEF Frame
      <4> QED
        BY <4>1 DEF ServerInv, TroubleInv, Grows
    <3> QED
      BY <3>1, <3>2
  <2> QED
    BY <2>1, <2>2 DEF TroubleInv
<1> QED
  BY <1>1, <1>2, <1>3, <1>4 DEF ServerInv

\* The same for one that leaves the stores, the cache and the sessions alone.
LEMMA PlainStepKeeps ==
    ASSUME ServerInv, NEW h \in Handlers, Frame(h), HandlerOk(h)',
           UNCHANGED <<held, cache, pool, died>>, faults' \in Nat, faults' >= faults,
           handler[h].at # "ssh", handler'[h].at # "ssh", handler'[h].status >= 500 => Trouble'
    PROVE  ServerInv' /\ Grows
<1>1. Grows
  BY DEF Grows, Trouble, ServerInv, TypeInv
<1>2. PoolInv'
  BY PoolKeeps DEF ServerInv
<1> QED
  BY <1>1, <1>2, HandlerStepKeeps DEF ServerInv, TypeInv, TroubleInv

\* A handler that has replied has nothing more to say.
LEMMA RepliedOk ==
    ASSUME NEW h \in Handlers, HandlerOk(h), handler[h].at # "none", UNCHANGED call,
           handler'[h].at = "replied"
    PROVE  HandlerOk(h)'
BY DEF HandlerOk, InStore, Op

\* A failure is counted.
LEMMA FaultFacts ==
    ASSUME TypeInv, Fault
    PROVE  faults' \in Nat /\ faults' >= faults /\ faults' > 0 /\ Trouble'
BY DEF TypeInv, Fault, Trouble

-----------------------------------------------------------------------------
(* The steps of a handler.                                                  *)

\* Requests that are refused.
LEMMA RefuseKeeps ==
    ASSUME ServerInv, NEW h \in Handlers, Refuse(h)
    PROVE  ServerInv' /\ Frame(h) /\ Grows
<1>0. TypeInv /\ HandlerOk(h) /\ faults \in Nat
  BY DEF ServerInv, HandlerInv, TypeInv
<1>1. /\ Frame(h) /\ handler'[h].at = "replied" /\ handler'[h].status = 400
  BY <1>0, ReplyEffect DEF Refuse, Frame
<1>2. HandlerOk(h)'
  BY <1>0, <1>1, RepliedOk DEF Refuse
<1> QED
  BY <1>0, <1>1, <1>2, PlainStepKeeps DEF Refuse

\* The read lock is taken with the present configuration.
LEMMA RLockKeeps ==
    ASSUME ServerInv, NEW h \in Handlers, RLock(h)
    PROVE  ServerInv' /\ Frame(h) /\ Grows /\ handler'[h].at \in {"cache", "router"}
<1>0. /\ TypeInv /\ TroubleInv /\ HandlerOk(h) /\ faults \in Nat /\ handler[h] \in HandlerTypes
      /\ handler \in [Handlers -> HandlerTypes] /\ conf.number \in Nat
  BY ConfFacts DEF ServerInv, HandlerInv, TypeInv
<1> DEFINE at == IF conf.cached THEN "cache" ELSE "router"
           y == [handler[h] EXCEPT !.at = at]
           x == [y EXCEPT !.number = conf.number]
<1>1. handler' = [handler EXCEPT ![h] = x]
  BY <1>0 DEF RLock
<1>2. /\ y \in HandlerTypes /\ y.at = at
      /\ y.i = handler[h].i /\ y.status = handler[h].status
  BY <1>0 DEF HandlerTypes
<1> HIDE DEF y
<1>3. /\ x \in HandlerTypes /\ x.at = at /\ x.number = conf.number
      /\ x.i = handler[h].i /\ x.status = handler[h].status
  BY <1>0, <1>2 DEF HandlerTypes
<1> HIDE DEF x
<1>4. Frame(h) /\ handler'[h] = x
  BY <1>0, <1>1, <1>3, MoveEffect DEF Frame, RLock
<1>5. HandlerOk(h)'
  <2>1. handler'[h].i = 1 /\ Op(h) # "none"
    BY <1>0, <1>3, <1>4 DEF HandlerOk, RLock
  <2>2. Len(conf.stores) \in Nat \ {0}
    BY <1>0, ConfFacts DEF TypeInv, Accepted
  <2>3. Passed(h)'
    BY <2>1 DEF Passed
  <2>4. Op(h)' = Op(h) /\ Id(h)' = Id(h) /\ conf' = conf /\ opt' = opt
        /\ ~Refused(h[1], Op(h))'
    BY DEF RLock, Op, Id, Refused
  <2> QED
    BY <1>3, <1>4, <2>1, <2>2, <2>3, <2>4 DEF HandlerOk, InStore
<1>6. handler'[h].status >= 500 => Trouble'
  BY <1>0, <1>3, <1>4 DEF TroubleInv, Trouble, RLock
<1> QED
  BY <1>0, <1>3, <1>4, <1>5, <1>6, PlainStepKeeps DEF RLock

\* What the cache can answer: nothing, a chunk, or an error.
LEMMA AskCacheEffect ==
    ASSUME TypeInv, CallInv, NEW h \in Handlers, HandlerOk(h), AskCache(h)
    PROVE  /\ Frame(h) /\ UNCHANGED <<held, cache, pool, died>>
           /\ faults' \in Nat /\ faults' >= faults
           /\ \/ /\ handler'[h].at = "router" /\ handler'[h].i = handler[h].i
                 /\ handler'[h].number = handler[h].number
                 /\ handler'[h].status = handler[h].status
                 /\ cache[Id(h)] # "good" \/ Trouble'
                 /\ faults' = faults \/ Trouble'
              \/ /\ handler'[h].at = "replied" /\ handler'[h].status = 200
                 /\ handler'[h].body = cache[Id(h)] /\ cache[Id(h)] \in {"good", "bad"}
                 /\ faults' = faults
              \/ /\ handler'[h].at = "replied" /\ handler'[h].status = 500
                 /\ cache[Id(h)] = "bad" \/ Trouble'
                 /\ faults' = faults \/ Trouble'
<1>0. /\ handler[h] \in HandlerTypes /\ faults \in Nat /\ Id(h) \in Ids
      /\ cache[Id(h)] \in {"none", "good", "bad"} /\ handler \in [Handlers -> HandlerTypes]
  BY CallFacts DEF TypeInv, HandlerOk, AskCache
<1> DEFINE x == [handler[h] EXCEPT !.at = "router"]
           invalid == cache[Id(h)] = "bad" /\ Verifies(h)
           OnMiss == handler' = [handler EXCEPT ![h].at = "router"]
<1>1. /\ x \in HandlerTypes /\ x.at = "router" /\ x.i = handler[h].i
      /\ x.number = handler[h].number /\ x.status = handler[h].status
  BY <1>0 DEF HandlerTypes
<1>2. OnMiss => handler' = [handler EXCEPT ![h] = x]
  BY <1>0
<1> HIDE DEF x
<1>3. OnMiss => Frame(h) /\ handler'[h] = x
  BY <1>1, <1>2, MoveEffect DEF Frame, AskCache
<1> HIDE DEF OnMiss
<1>4. \A st \in {200, 500}, b \in {"none", "good", "bad"} :
         Reply(h, st, b) => /\ Frame(h) /\ handler'[h].at = "replied"
                            /\ handler'[h].status = st /\ handler'[h].body = b
  BY ReplyEffect DEF Frame, AskCache
<1>5. UNCHANGED <<held, cache, pool, died>>
  BY DEF AskCache
<1>6. CASE /\ faults' = faults
           /\ cache[Id(h)] = "none" \/ (invalid /\ Repairs(h))
           /\ OnMiss
  BY <1>0, <1>1, <1>3, <1>5, <1>6
<1>7. CASE /\ faults' = faults /\ cache[Id(h)] # "none"
           /\ Reply(h, IF invalid THEN 500 ELSE 200, cache[Id(h)])
  <2>1. CASE invalid
    BY <1>0, <1>4, <1>5, <1>7, <2>1
  <2>2. CASE ~invalid
    BY <1>0, <1>4, <1>5, <1>7, <2>2
  <2> QED
    BY <2>1, <2>2
<1>8. CASE Fault /\ OnMiss
  BY <1>1, <1>3, <1>5, <1>8, FaultFacts
<1>9. CASE Fault /\ Reply(h, 500, "none")
  BY <1>4, <1>5, <1>9, FaultFacts
<1> QED
  BY <1>6, <1>7, <1>8, <1>9 DEF AskCache, OnMiss

\* The cache is asked.
LEMMA AskCacheKeeps ==
    ASSUME ServerInv, NEW h \in Handlers, AskCache(h)
    PROVE  ServerInv' /\ Grows
<1>0. TypeInv /\ CallInv /\ TroubleInv /\ HandlerOk(h) /\ handler[h].at = "cache"
  BY DEF ServerInv, HandlerInv, AskCache
<1>e. Frame(h) /\ UNCHANGED <<held, cache, pool, died>> /\ faults' \in Nat /\ faults' >= faults
  BY <1>0, AskCacheEffect
<1>t. Trouble => Trouble'
  BY <1>0, <1>e DEF Trouble, TypeInv
<1>1. handler'[h].at \in {"router", "replied"} /\ (handler'[h].status >= 500 => Trouble')
  <2>1. cache[Id(h)] = "bad" => Trouble
    BY <1>0, CallFacts DEF TroubleInv, Trouble, HandlerOk
  <2>2. handler[h].status >= 500 => Trouble
    BY <1>0 DEF TroubleInv
  <2> QED
    BY <1>0, <1>t, <2>1, <2>2, AskCacheEffect
<1>2. HandlerOk(h)'
  <2>1. CASE handler'[h].at = "replied"
    BY <1>0, <1>e, <2>1, RepliedOk DEF Frame
  <2>2. CASE handler'[h].at = "router"
    <3>1. /\ handler'[h].i = handler[h].i /\ handler'[h].number = handler[h].number
          /\ cache[Id(h)] # "good" \/ Trouble'
      BY <1>0, <2>2, AskCacheEffect
    <3>2. Op(h)' = Op(h) /\ Id(h)' = Id(h) /\ Refused(h[1], Op(h))' = Refused(h[1], Op(h))
      BY <1>e DEF Frame, Op, Id, Refused
    <3>3. Passed(h)'
      BY <1>0, <1>e, <1>t, <3>1, <3>2 DEF Passed, HandlerOk, InStore, Frame
    <3> QED
      BY <1>0, <1>e, <2>2, <3>1, <3>2, <3>3 DEF HandlerOk, InStore, Frame
  <2> QED
    BY <1>1, <2>1, <2>2
<1> QED
  BY <1>0, <1>e, <1>1, <1>2, PlainStepKeeps

\* What a handler knows after the answer of a store.
LEMMA RoutedOk ==
    ASSUME TypeInv, CallInv, TroubleInv, NEW h \in Handlers, HandlerOk(h),
           handler[h].at \in {"router", "ssh"}, Op(h) \in {"get", "has"},
           NEW a \in {"yes", "no", "error"}, Routed(h, a),
           UNCHANGED <<opt, held, cache, conf, swap, call>>,
           a = "yes" => Has(h), a = "no" => ~Has(h) \/ (Op(h) = "has" /\ Trouble'),
           a = "error" => Trouble', Trouble => Trouble'
    PROVE  /\ Frame(h) /\ HandlerOk(h)' /\ handler'[h].at \in {"router", "fill", "replied"}
           /\ handler'[h].status >= 500 => Trouble'
<1>1. InStore(h)
  BY DEF InStore
<1>2. /\ handler' \in [Handlers -> HandlerTypes]
      /\ \A k \in Handlers : k # h => handler'[k] = handler[k]
  BY <1>1, RoutedEffect
<1>3. Frame(h) /\ handler'[h].at \in {"router", "fill", "replied"}
  BY <1>1, <1>2, RoutedEffect DEF Frame
<1>4. handler'[h].status >= 500 => Trouble'
  <2>1. handler[h].status >= 500 => Trouble'
    BY DEF TroubleInv
  <2> QED
    BY <1>1, <2>1, RoutedEffect
<1>5. Op(h)' = Op(h) /\ Id(h)' = Id(h) /\ Refused(h[1], Op(h))' = Refused(h[1], Op(h))
  BY DEF Op, Id, Refused
<1>6. /\ handler[h].i \in 1..Len(conf.stores) /\ Passed(h) /\ Len(conf.stores) \in Nat
      /\ StoreOf(h) \in Range(conf.stores) /\ handler[h].number = conf.number
      /\ ~Refused(h[1], Op(h))
  BY <1>1, ConfFacts DEF HandlerOk, StoreOf
<1>7. CASE handler'[h].at = "replied"
  <2>1. HandlerOk(h)'
    BY <1>7, RepliedOk
  <2> QED
    BY <1>3, <1>4, <2>1
<1>8. CASE handler'[h].at = "router"
  <2>1. /\ a = "no" /\ handler[h].i < Len(conf.stores)
        /\ handler'[h].i = handler[h].i + 1 /\ handler'[h].number = handler[h].number
    BY <1>1, <1>8, RoutedEffect
  <2>2. Passed(h)'
    <3> SUFFICES ASSUME NEW j \in 1..(handler'[h].i - 1), Op(h) = "get" \/ ~Trouble'
                 PROVE  Id(h) \notin held[conf.stores[j]]
      BY <1>5 DEF Passed
    <3>1. CASE j = handler[h].i
      BY <2>1, <3>1 DEF Has, StoreOf
    <3>2. CASE j # handler[h].i
      BY <1>6, <2>1, <3>2 DEF Passed
    <3> QED
      BY <3>1, <3>2
  <2>3. InStores(Id(h))' = InStores(Id(h))
    BY <1>5 DEF InStores
  <2>4. HandlerOk(h)'
    BY <1>5, <1>6, <1>8, <2>1, <2>2, <2>3 DEF HandlerOk, InStore
  <2> QED
    BY <1>3, <1>4, <2>4
<1>9. CASE handler'[h].at = "fill"
  <2>1. /\ a = "yes" /\ Op(h) = "get" /\ conf.cached
        /\ handler'[h].i = handler[h].i /\ handler'[h].number = handler[h].number
    BY <1>1, <1>9, RoutedEffect
  <2>2. Passed(h)'
    BY <1>5, <1>6, <2>1 DEF Passed
  <2>3. InStores(Id(h))'
    BY <1>5, <1>6, <2>1 DEF InStores, Has
  <2>4. HandlerOk(h)'
    BY <1>5, <1>6, <1>9, <2>1, <2>2, <2>3 DEF HandlerOk, InStore
  <2> QED
    BY <1>3, <1>4, <2>4
<1> QED
  BY <1>3, <1>7, <1>8, <1>9

\* What a store that is not an ssh store can answer.
LEMMA AskStoreAnswer ==
    ASSUME TypeInv, NEW h \in Handlers, AskStore(h)
    PROVE  \E a \in {"yes", "no", "error"} :
              /\ Routed(h, a) /\ faults' \in Nat /\ faults' >= faults
              /\ faults' = faults \/ Trouble'
              /\ a = "yes" => Has(h)
              /\ a = "no" => ~Has(h) \/ (Op(h) = "has" /\ Trouble')
              /\ a = "error" => Trouble'
<1>1. CASE Routed(h, IF Has(h) THEN "yes" ELSE "no") /\ UNCHANGED faults
  <2>1. faults \in Nat
    BY DEF TypeInv
  <2>2. CASE Has(h)
    BY <1>1, <2>1, <2>2
  <2>3. CASE ~Has(h)
    BY <1>1, <2>1, <2>3
  <2> QED
    BY <2>2, <2>3
<1>2. CASE Fault /\ Routed(h, OnFault(KindOf(h), Op(h)))
  <2>1. OnFault(KindOf(h), Op(h)) = "error" \/ (OnFault(KindOf(h), Op(h)) = "no" /\ Op(h) = "has")
    BY DEF OnFault
  <2> QED
    BY <1>2, <2>1, FaultFacts
<1> QED
  BY <1>1, <1>2 DEF AskStore

\* A store is asked.
LEMMA AskStoreKeeps ==
    ASSUME ServerInv, NEW h \in Handlers, AskStore(h)
    PROVE  ServerInv' /\ Frame(h) /\ Grows
<1>0. /\ TypeInv /\ CallInv /\ TroubleInv /\ HandlerOk(h) /\ handler[h].at = "router"
      /\ Op(h) \in {"get", "has"} /\ UNCHANGED <<opt, held, cache, conf, swap, pool, call, died>>
  BY DEF ServerInv, HandlerInv, AskStore
<1>1. PICK a \in {"yes", "no", "error"} :
              /\ Routed(h, a) /\ faults' \in Nat /\ faults' >= faults
              /\ a = "yes" => Has(h)
              /\ a = "no" => ~Has(h) \/ (Op(h) = "has" /\ Trouble')
              /\ a = "error" => Trouble'
  BY <1>0, AskStoreAnswer
<1>2. Trouble => Trouble'
  BY <1>0, <1>1 DEF Trouble, TypeInv
<1>3. /\ Frame(h) /\ HandlerOk(h)' /\ handler'[h].at \in {"router", "fill", "replied"}
      /\ handler'[h].status >= 500 => Trouble'
  BY <1>0, <1>1, <1>2, RoutedOk
<1> QED
  BY <1>0, <1>1, <1>3, PlainStepKeeps

\* A session is taken from the pool.
LEMMA TakeSessionKeeps ==
    ASSUME ServerInv, NEW h \in Handlers, TakeSession(h)
    PROVE  ServerInv' /\ Frame(h) /\ Grows /\ handler'[h].at = "ssh"
<1> DEFINE n == conf.number
<1>0. /\ TypeInv /\ CallInv /\ TroubleInv /\ PoolInv /\ HandlerOk(h) /\ handler[h].at = "router"
      /\ Op(h) \in {"get", "has"} /\ n \in Numbers /\ handler[h].number = n
      /\ UNCHANGED <<opt, held, cache, conf, swap, call, died, faults>>
      /\ faults \in Nat /\ died \in BOOLEAN /\ held \in [Stores -> SUBSET Ids]
      /\ cache \in [Ids -> {"none", "good", "bad"}] /\ handler[h] \in HandlerTypes
      /\ handler \in [Handlers -> HandlerTypes]
  BY ConfFacts DEF ServerInv, HandlerInv, TakeSession, HandlerOk, InStore, TypeInv
<1> HIDE DEF n
<1>1. /\ pool \in [Numbers -> Seq(BOOLEAN)] /\ pool[n] \in Seq(BOOLEAN) /\ pool[n] # <<>>
      /\ pool' = [pool EXCEPT ![n] = Tail(@)]
  BY <1>0 DEF TakeSession, TypeInv
<1>2. /\ Tail(pool[n]) \in Seq(BOOLEAN) /\ Len(Tail(pool[n])) = Len(pool[n]) - 1
      /\ Head(pool[n]) \in BOOLEAN /\ Len(pool[n]) \in Nat
  BY <1>1, HeadTailProperties, LenProperties
<1> DEFINE y == [handler[h] EXCEPT !.at = "ssh"]
           x == [y EXCEPT !.alive = Head(pool[n])]
<1>3. handler' = [handler EXCEPT ![h] = x]
  BY <1>0 DEF TakeSession
<1>4. /\ y \in HandlerTypes /\ y.at = "ssh" /\ y.number = handler[h].number
      /\ y.i = handler[h].i /\ y.status = handler[h].status
  BY <1>0 DEF HandlerTypes
<1> HIDE DEF y
<1>5. /\ x \in HandlerTypes /\ x.at = "ssh" /\ x.number = handler[h].number
      /\ x.i = handler[h].i /\ x.status = handler[h].status /\ x.alive = Head(pool[n])
  BY <1>2, <1>4 DEF HandlerTypes
<1> HIDE DEF x
<1>6. Frame(h) /\ handler'[h] = x
  BY <1>0, <1>3, <1>5, MoveEffect DEF Frame
<1>7. HandlerOk(h)'
  <2>1. Op(h)' = Op(h) /\ Id(h)' = Id(h) /\ Refused(h[1], Op(h))' = Refused(h[1], Op(h))
    BY <1>0 DEF Op, Id, Refused
  <2>2. Trouble' = Trouble /\ InStores(Id(h))' = InStores(Id(h))
    BY <1>0, <2>1 DEF Trouble, InStores
  <2>3. Passed(h)'
    BY <1>0, <1>5, <1>6, <2>1, <2>2 DEF Passed, HandlerOk, InStore
  <2> QED
    BY <1>0, <1>5, <1>6, <2>1, <2>2, <2>3 DEF HandlerOk, InStore, n
<1>8. Grows
  BY <1>0 DEF Grows, Trouble
<1>9. PoolInv'
  <2>1. OnSsh' = OnSsh \cup {h} /\ h \notin OnSsh
    BY <1>0, <1>5, <1>6 DEF OnSsh, Frame
  <2>2. IsFiniteSet(OnSsh)
    BY HandlersFinite, FS_Subset DEF OnSsh
  <2>3. Cardinality(OnSsh') = Cardinality(OnSsh) + 1 /\ Cardinality(OnSsh) \in Nat
    BY <2>1, <2>2, FS_AddElement, FS_CardinalityType
  <2>4. Len(pool'[n]) + Cardinality(OnSsh') = Sessions
    BY <1>0, <1>1, <1>2, <2>3 DEF PoolInv, n
  <2>5. swap # NoConf => pool'[swap.number] = NewSessions
    <3>1. swap # NoConf => swap.number \in Numbers /\ swap.number # n
      BY <1>0, ConfFacts DEF TypeInv, ConfTypes, n
    <3> QED
      BY <1>0, <1>1, <3>1 DEF PoolInv
  <2> QED
    BY <1>0, <2>4, <2>5 DEF PoolInv, NewSessions, n
<1>10. ~died => pool' \in [Numbers -> Seq({TRUE})] /\ Head(pool[n]) = TRUE
  <2> SUFFICES ASSUME ~died
               PROVE  pool' \in [Numbers -> Seq({TRUE})] /\ Head(pool[n]) = TRUE
    OBVIOUS
  <2>1. pool \in [Numbers -> Seq({TRUE})]
    BY <1>0 DEF TroubleInv
  <2>2. pool[n] \in Seq({TRUE})
    BY <1>0, <2>1
  <2>3. Tail(pool[n]) \in Seq({TRUE}) /\ Head(pool[n]) \in {TRUE}
    BY <1>1, <2>2, HeadTailProperties
  <2> QED
    BY <1>1, <2>1, <2>3
<1>11. pool' \in [Numbers -> Seq(BOOLEAN)]
  BY <1>1, <1>2
<1>12. handler'[h].status >= 500 => Trouble'
  BY <1>0, <1>5, <1>6 DEF TroubleInv, Trouble
<1>13. ~handler'[h].alive => died'
  BY <1>0, <1>5, <1>6, <1>10, Zenon
<1>14. /\ faults' \in Nat /\ faults' >= faults
       /\ held' \in [Stores -> SUBSET Ids] /\ cache' \in [Ids -> {"none", "good", "bad"}]
       /\ \A id \in Ids : cache'[id] = "bad" => cache[id] = "bad"
  BY <1>0
<1>17. /\ died' \in BOOLEAN /\ (died => died')
       /\ ~died' => pool' \in [Numbers -> Seq({TRUE})]
  BY <1>0, <1>10, Zenon
<1>15. handler'[h].at = "ssh"
  BY <1>5, <1>6
<1>16. ServerInv'
  BY <1>6, <1>7, <1>8, <1>9, <1>11, <1>12, <1>13, <1>14, <1>17, HandlerStepKeeps
<1> QED
  BY <1>6, <1>8, <1>15, <1>16

\* What comes back from a session, and what is left of it.
LEMMA AskSessionAnswer ==
    ASSUME TypeInv, TroubleInv, NEW h \in Handlers, AskSession(h), Op(h) \in {"get", "has"}
    PROVE  \E a \in {"yes", "no", "error"}, left \in BOOLEAN :
              /\ Routed(h, a) /\ faults' \in Nat /\ faults' >= faults
              /\ pool' = [pool EXCEPT ![handler[h].number] = Append(@, left)]
              /\ died' = (died \/ ~left)
              /\ a = "yes" => Has(h) /\ faults' = faults
              /\ a = "no" => ~Has(h) /\ Op(h) = "get"
              /\ a # "yes" => Trouble'
<1>0. /\ faults \in Nat /\ died \in BOOLEAN /\ handler[h].at = "ssh"
      /\ handler[h].alive \in BOOLEAN
  BY DEF TypeInv, AskSession, HandlerTypes
<1>1. CASE /\ Routed(h, SshAnswer(Op(h), handler[h].alive, Has(h)))
           /\ pool' = [pool EXCEPT ![handler[h].number] =
                          PutBack(@, ServesOn(handler[h].alive, Has(h)))]
           /\ died' = (died \/ ~ServesOn(handler[h].alive, Has(h)))
           /\ UNCHANGED faults
  <2> DEFINE left == handler[h].alive /\ Has(h)
             a == SshAnswer(Op(h), handler[h].alive, Has(h))
  <2>1. /\ left \in BOOLEAN /\ died' = (died \/ ~left)
        /\ pool' = [pool EXCEPT ![handler[h].number] = Append(@, left)]
    BY <1>1, Zenon DEF PutBack, ServesOn
  <2>2. /\ a \in {"yes", "no", "error"} /\ (a = "yes" => left)
        /\ a = "no" => ~Has(h) /\ Op(h) = "get"
    BY <1>0 DEF SshAnswer
  <2>3. a # "yes" => ~left
    BY <1>0 DEF SshAnswer
  <2>4. ~left => Trouble'
    BY <2>1 DEF Trouble
  <2>5. Routed(h, a) /\ faults' \in Nat /\ faults' >= faults /\ faults' = faults
    BY <1>0, <1>1
  <2>6. left => Has(h)
    OBVIOUS
  <2> HIDE DEF left, a
  <2> QED
    BY <2>1, <2>2, <2>3, <2>4, <2>5, <2>6
<1>2. ASSUME NEW left \in {FALSE, handler[h].alive /\ Has(h)}, Fault,
             Routed(h, SshAnswer(Op(h), FALSE, Has(h))),
             pool' = [pool EXCEPT ![handler[h].number] = PutBack(@, left)],
             died' = (died \/ ~left)
      PROVE  \E a \in {"yes", "no", "error"}, lives \in BOOLEAN :
                /\ Routed(h, a) /\ faults' \in Nat /\ faults' >= faults
                /\ pool' = [pool EXCEPT ![handler[h].number] = Append(@, lives)]
                /\ died' = (died \/ ~lives)
                /\ a = "yes" => Has(h) /\ faults' = faults
                /\ a = "no" => ~Has(h) /\ Op(h) = "get"
                /\ a # "yes" => Trouble'
  <2>1. SshAnswer(Op(h), FALSE, Has(h)) = "error"
    BY DEF SshAnswer
  <2>2. /\ Routed(h, "error") /\ left \in BOOLEAN
        /\ pool' = [pool EXCEPT ![handler[h].number] = Append(@, left)]
    BY <1>2, <2>1, Zenon DEF PutBack
  <2>3. faults' \in Nat /\ faults' >= faults /\ Trouble'
    BY <1>2, FaultFacts
  <2> WITNESS "error" \in {"yes", "no", "error"}, left \in BOOLEAN
  <2> QED
    BY <1>2, <2>2, <2>3
<1> QED
  BY <1>1, <1>2 DEF AskSession

\* A session is asked, and goes back to the pool.
LEMMA AskSessionKeeps ==
    ASSUME ServerInv, NEW h \in Handlers, AskSession(h)
    PROVE  ServerInv' /\ Frame(h) /\ Grows
<1> DEFINE n == conf.number
<1>0. /\ TypeInv /\ CallInv /\ TroubleInv /\ PoolInv /\ HandlerOk(h) /\ handler[h].at = "ssh"
      /\ Op(h) \in {"get", "has"} /\ n \in Numbers /\ handler[h].number = n
      /\ UNCHANGED <<opt, held, cache, conf, swap, call>>
      /\ faults \in Nat /\ died \in BOOLEAN /\ held \in [Stores -> SUBSET Ids]
      /\ cache \in [Ids -> {"none", "good", "bad"}]
      /\ pool \in [Numbers -> Seq(BOOLEAN)] /\ pool[n] \in Seq(BOOLEAN)
  BY ConfFacts DEF ServerInv, HandlerInv, AskSession, HandlerOk, InStore, TypeInv
<1> HIDE DEF n
<1>1. PICK a \in {"yes", "no", "error"}, left \in BOOLEAN :
              /\ Routed(h, a) /\ faults' \in Nat /\ faults' >= faults
              /\ pool' = [pool EXCEPT ![handler[h].number] = Append(@, left)]
              /\ died' = (died \/ ~left)
              /\ a = "yes" => Has(h) /\ faults' = faults
              /\ a = "no" => ~Has(h) /\ Op(h) = "get"
              /\ a # "yes" => Trouble'
  BY <1>0, AskSessionAnswer
<1>2. died' \in BOOLEAN /\ (died => died') /\ (~died' => left)
  BY <1>1, Zenon
<1>3. Trouble => Trouble'
  BY <1>0, <1>1, <1>2 DEF Trouble
<1>4. /\ Frame(h) /\ HandlerOk(h)' /\ handler'[h].at \in {"router", "fill", "replied"}
      /\ handler'[h].status >= 500 => Trouble'
  BY <1>0, <1>1, <1>3, RoutedOk
<1>5. Grows
  BY <1>0, <1>3 DEF Grows
<1>6. pool'[n] = Append(pool[n], left) /\ \A m \in Numbers : m # n => pool'[m] = pool[m]
  BY <1>0, <1>1
<1>7. Append(pool[n], left) \in Seq(BOOLEAN) /\ Len(Append(pool[n], left)) = Len(pool[n]) + 1
      /\ Len(pool[n]) \in Nat
  BY <1>0, AppendProperties, LenProperties
<1>8. pool' \in [Numbers -> Seq(BOOLEAN)]
  BY <1>0, <1>1, <1>7
<1>9. ~died' => pool' \in [Numbers -> Seq({TRUE})]
  <2> SUFFICES ASSUME ~died' PROVE pool' \in [Numbers -> Seq({TRUE})]
    OBVIOUS
  <2>1. pool \in [Numbers -> Seq({TRUE})] /\ left \in {TRUE}
    BY <1>0, <1>2, Zenon DEF TroubleInv
  <2>2. pool[n] \in Seq({TRUE})
    BY <1>0, <2>1
  <2>3. Append(pool[n], left) \in Seq({TRUE})
    BY <2>1, <2>2, AppendProperties
  <2> QED
    BY <1>0, <1>1, <2>1, <2>3
<1>10. PoolInv'
  <2>1. OnSsh' = OnSsh \ {h} /\ h \in OnSsh
    BY <1>0, <1>4 DEF OnSsh, Frame
  <2>2. IsFiniteSet(OnSsh)
    BY HandlersFinite, FS_Subset DEF OnSsh
  <2>3. Cardinality(OnSsh') = Cardinality(OnSsh) - 1 /\ Cardinality(OnSsh) \in Nat
    BY <2>1, <2>2, FS_RemoveElement, FS_CardinalityType
  <2>4. Len(pool'[n]) + Cardinality(OnSsh') = Sessions
    BY <1>0, <1>6, <1>7, <2>3 DEF PoolInv, n
  <2>5. swap # NoConf => pool'[swap.number] = NewSessions
    <3>1. swap # NoConf => swap.number \in Numbers /\ swap.number # n
      BY <1>0, ConfFacts DEF TypeInv, ConfTypes, n
    <3> QED
      BY <1>0, <1>6, <3>1 DEF PoolInv
  <2> QED
    BY <1>0, <2>4, <2>5 DEF PoolInv, NewSessions, n
<1>11. /\ held' \in [Stores -> SUBSET Ids] /\ cache' \in [Ids -> {"none", "good", "bad"}]
       /\ \A id \in Ids : cache'[id] = "bad" => cache[id] = "bad"
       /\ handler'[h].at # "ssh"
  BY <1>0, <1>4
<1> QED
  BY <1>1, <1>2, <1>4, <1>5, <1>8, <1>9, <1>10, <1>11, HandlerStepKeeps

\* A chunk from a store is put into the cache.
LEMMA FillCacheKeeps ==
    ASSUME ServerInv, NEW h \in Handlers, FillCache(h)
    PROVE  ServerInv' /\ Frame(h) /\ Grows
<1>0. /\ TypeInv /\ CallInv /\ TroubleInv /\ HandlerOk(h) /\ handler[h].at = "fill"
      /\ UNCHANGED <<opt, held, conf, swap, pool, call, died>> /\ faults \in Nat
      /\ cache \in [Ids -> {"none", "good", "bad"}] /\ Id(h) \in Ids /\ InStores(Id(h))
  BY CallFacts DEF ServerInv, HandlerInv, FillCache, TypeInv, HandlerOk
<1>1. \A st \in {200, 500}, b \in {"none", "good"} :
         Reply(h, st, b) => /\ Frame(h) /\ handler'[h].at = "replied"
                            /\ handler'[h].status = st /\ HandlerOk(h)'
  BY <1>0, ReplyEffect, RepliedOk DEF Frame
<1>2. CASE Fault /\ Reply(h, 500, "none") /\ UNCHANGED cache
  <2>1. faults' \in Nat /\ faults' >= faults /\ Trouble'
    BY <1>0, <1>2, FaultFacts
  <2> QED
    BY <1>0, <1>1, <1>2, <2>1, PlainStepKeeps
<1>3. CASE /\ cache' = [cache EXCEPT ![Id(h)] = "good"] /\ Reply(h, 200, "good")
           /\ UNCHANGED faults
  <2>1. /\ Frame(h) /\ handler'[h].at = "replied" /\ handler'[h].status = 200 /\ HandlerOk(h)'
    BY <1>1, <1>3
  <2>2. /\ cache' \in [Ids -> {"none", "good", "bad"}]
        /\ \A id \in Ids : /\ cache'[id] = "bad" => cache[id] = "bad"
                           /\ cache'[id] = "good" => cache[id] = "good" \/ InStores(id)
    BY <1>0, <1>3
  <2>3. Grows
    BY <1>0, <1>3, <2>2 DEF Grows, Trouble
  <2>4. PoolInv'
    BY <1>0, <2>1, PoolKeeps DEF ServerInv
  <2> QED
    BY <1>0, <1>3, <2>1, <2>2, <2>3, <2>4, HandlerStepKeeps DEF TypeInv, TroubleInv
<1> QED
  BY <1>2, <1>3 DEF FillCache

\* A chunk is written to the one store of a writable server.
LEMMA PutChunkKeeps ==
    ASSUME ServerInv, NEW h \in Handlers, PutChunk(h)
    PROVE  ServerInv' /\ Frame(h) /\ Grows /\ opt.writable /\ handler'[h].at \in {"stored", "replied"}
<1>0. /\ TypeInv /\ CallInv /\ TroubleInv /\ HandlerOk(h) /\ handler[h].at = "router"
      /\ UNCHANGED <<opt, cache, conf, swap, pool, call, died>> /\ faults \in Nat
      /\ held \in [Stores -> SUBSET Ids] /\ Id(h) \in Ids /\ Op(h) = "put"
      /\ handler[h] \in HandlerTypes /\ handler \in [Handlers -> HandlerTypes]
  BY CallFacts DEF ServerInv, HandlerInv, PutChunk, TypeInv, HandlerOk
<1>1. /\ opt.writable /\ ~Refused(h[1], Op(h)) /\ handler[h].i \in 1..Len(conf.stores)
      /\ handler[h].number = conf.number
      /\ Len(conf.stores) = 1 /\ ~conf.cached /\ StoreOf(h) \in Stores
      /\ StoreOf(h) \in Range(conf.stores)
  BY <1>0, ConfFacts DEF HandlerOk, InStore, Refused, StoreOf
<1>2. CASE UNCHANGED held /\ Fault /\ Reply(h, 500, "none")
  <2>1. /\ Frame(h) /\ handler'[h].at = "replied" /\ handler'[h].status = 500
    BY <1>0, <1>2, ReplyEffect DEF Frame
  <2>2. HandlerOk(h)'
    BY <1>0, <2>1, RepliedOk
  <2>3. faults' \in Nat /\ faults' >= faults /\ Trouble'
    BY <1>0, <1>2, FaultFacts
  <2> QED
    BY <1>0, <1>1, <1>2, <2>1, <2>2, <2>3, PlainStepKeeps
<1>3. CASE /\ held' = [held EXCEPT ![StoreOf(h)] = @ \cup {Id(h)}]
           /\ handler' = [handler EXCEPT ![h].at = "stored"]
           /\ UNCHANGED faults
  <2> DEFINE x == [handler[h] EXCEPT !.at = "stored"]
  <2>1. /\ x \in HandlerTypes /\ x.at = "stored" /\ x.i = handler[h].i
        /\ x.number = handler[h].number /\ x.status = handler[h].status
    BY <1>0 DEF HandlerTypes
  <2>2. handler' = [handler EXCEPT ![h] = x]
    BY <1>0, <1>3
  <2> HIDE DEF x
  <2>3. Frame(h) /\ handler'[h] = x
    BY <1>0, <2>1, <2>2, MoveEffect DEF Frame
  <2>4. /\ held' \in [Stores -> SUBSET Ids] /\ Id(h) \in held'[StoreOf(h)]
        /\ \A s \in Stores : held[s] \subseteq held'[s]
    BY <1>0, <1>1, <1>3
  <2>5. Op(h)' = Op(h) /\ Id(h)' = Id(h) /\ Refused(h[1], Op(h))' = Refused(h[1], Op(h))
    BY <1>0 DEF Op, Id, Refused
  <2>6. InStores(Id(h))'
    BY <1>0, <1>1, <2>4, <2>5 DEF InStores
  <2>7. Passed(h)'
    BY <1>1, <2>1, <2>3 DEF Passed
  <2>8. HandlerOk(h)'
    BY <1>0, <1>1, <2>1, <2>3, <2>5, <2>6, <2>7 DEF HandlerOk, InStore
  <2>9. Grows
    BY <1>0, <1>1, <1>3, <2>4 DEF Grows, Trouble
  <2>10. PoolInv'
    BY <1>0, <2>1, <2>3, PoolKeeps DEF ServerInv
  <2>11. handler'[h].status >= 500 => Trouble'
    BY <1>0, <1>3, <2>1, <2>3 DEF TroubleInv, Trouble
  <2>12. /\ faults' \in Nat /\ faults' >= faults
         /\ cache' \in [Ids -> {"none", "good", "bad"}]
         /\ \A id \in Ids : cache'[id] = "bad" => cache[id] = "bad"
    BY <1>0, <1>3 DEF TypeInv
  <2>13. died' \in BOOLEAN /\ (died => died')
    BY <1>0, Zenon DEF TypeInv
  <2>14. /\ pool' \in [Numbers -> Seq(BOOLEAN)]
         /\ ~died' => pool' \in [Numbers -> Seq({TRUE})]
    BY <1>0, Zenon DEF TypeInv, TroubleInv
  <2>15. handler'[h].at = "ssh" /\ ~handler'[h].alive => died'
    BY <2>1, <2>3
  <2>16. ServerInv'
    BY <2>3, <2>4, <2>8, <2>9, <2>10, <2>11, <2>12, <2>13, <2>14, <2>15, HandlerStepKeeps
  <2> QED
    BY <1>1, <2>1, <2>3, <2>9, <2>16
<1> QED
  BY <1>2, <1>3 DEF PutChunk

\* The write is over.
LEMMA StoredKeeps ==
    ASSUME ServerInv, NEW h \in Handlers, Stored(h)
    PROVE  ServerInv' /\ Frame(h) /\ Grows
<1>0. /\ TypeInv /\ HandlerOk(h) /\ handler[h].at = "stored" /\ faults \in Nat
      /\ UNCHANGED <<opt, held, cache, conf, swap, pool, call, died>>
  BY DEF ServerInv, HandlerInv, Stored, TypeInv
<1>1. \A st \in {200, 500} :
         Reply(h, st, "none") => /\ Frame(h) /\ handler'[h].at = "replied"
                                 /\ handler'[h].status = st /\ HandlerOk(h)'
  BY <1>0, ReplyEffect, RepliedOk DEF Frame
<1>2. CASE Reply(h, 200, "none") /\ UNCHANGED faults
  BY <1>0, <1>1, <1>2, PlainStepKeeps
<1>3. CASE Fault /\ Reply(h, 500, "none")
  <2>1. faults' \in Nat /\ faults' >= faults /\ Trouble'
    BY <1>0, <1>3, FaultFacts
  <2> QED
    BY <1>0, <1>1, <1>3, <2>1, PlainStepKeeps
<1> QED
  BY <1>2, <1>3 DEF Stored

\* All of them.
LEMMA HandlerKeeps ==
    ASSUME ServerInv, NEW h \in Handlers, Handler(h)
    PROVE  ServerInv'
BY RefuseKeeps, RLockKeeps, AskCacheKeeps, AskStoreKeeps, TakeSessionKeeps, AskSessionKeeps,
   FillCacheKeeps, PutChunkKeeps, StoredKeeps DEF Handler

-----------------------------------------------------------------------------
(* The steps of a client.                                                   *)

CallTypes == [op : Ops \cup {"none"}, id : Ids \cup {0}, attempt : Nat, result : Results]

\* What is to be shown of a step of a client: it starts handlers, or drops requests
\* that wait for the lock.
LEMMA ClientStepKeeps ==
    ASSUME ServerInv, UNCHANGED clientRest, faults' \in Nat, faults' >= faults,
           call' \in [Clients -> CallTypes], handler' \in [Handlers -> HandlerTypes], CallInv',
           \A k \in Handlers :
              \/ /\ handler'[k] = handler[k]
                 /\ call'[k[1]].op = call[k[1]].op /\ call'[k[1]].id = call[k[1]].id
              \/ handler'[k] = NoHandler /\ handler[k].at # "ssh"
              \/ /\ handler'[k].at = "lock" /\ handler'[k].i = 1 /\ handler'[k].status = 0
                 /\ handler[k].at # "ssh" /\ call'[k[1]].op # "none"
    PROVE  ServerInv'
<1>0. /\ TypeInv /\ PoolInv /\ CallInv /\ TroubleInv /\ HandlerInv
      /\ UNCHANGED <<opt, held, cache, conf, swap, pool, died>>
  BY DEF ServerInv, clientRest
<1>1. Grows
  BY <1>0 DEF Grows, Trouble, TypeInv
<1>2. TypeInv'
  BY <1>0 DEF TypeInv, Accepted, CallTypes
<1>3. PoolInv'
  <2>1. OnSsh' = OnSsh
    BY DEF OnSsh, NoHandler
  <2> QED
    BY <1>0, <2>1 DEF PoolInv
<1>4. ASSUME NEW k \in Handlers PROVE HandlerOk(k)'
  <2>1. CASE /\ handler'[k] = handler[k]
             /\ call'[k[1]].op = call[k[1]].op /\ call'[k[1]].id = call[k[1]].id
    BY <1>0, <1>1, <2>1, OthersKeep DEF HandlerInv
  <2>2. CASE handler'[k] = NoHandler
    BY <2>2 DEF HandlerOk, InStore, NoHandler
  <2>3. CASE handler'[k].at = "lock" /\ handler'[k].i = 1 /\ call'[k[1]].op # "none"
    BY <2>3 DEF HandlerOk, InStore, Op
  <2> QED
    BY <2>1, <2>2, <2>3
<1>5. TroubleInv'
  <2>1. \A id \in Ids : cache'[id] = "bad" => faults' > 0
    BY <1>0 DEF TroubleInv, TypeInv
  <2>2. ASSUME NEW k \in Handlers
        PROVE  /\ handler'[k].status >= 500 => Trouble'
               /\ handler'[k].at = "ssh" /\ ~handler'[k].alive => died'
    <3>1. CASE handler'[k] = handler[k]
      BY <1>0, <1>1, <3>1 DEF TroubleInv, Grows
    <3>2. CASE handler'[k] = NoHandler
      BY <3>2 DEF NoHandler
    <3>3. CASE handler'[k].at = "lock" /\ handler'[k].status = 0
      BY <3>3
    <3> QED
      BY <3>1, <3>2, <3>3
  <2> QED
    BY <1>0, <2>1, <2>2 DEF TroubleInv
<1> QED
  BY <1>2, <1>3, <1>4, <1>5 DEF ServerInv, HandlerInv

\* A client starts.
LEMMA BeginEffect ==
    ASSUME TypeInv, CallInv, NEW c \in Clients, Begin(c)
    PROVE  /\ call' \in [Clients -> CallTypes] /\ handler' \in [Handlers -> HandlerTypes]
           /\ \A d \in Clients : d # c => call'[d] = call[d]
           /\ call'[c].op \in Ops /\ call'[c].id \in Ids /\ call'[c].attempt = 1
           /\ call'[c].result = "wait"
           /\ <<c, 1>> \in Handlers /\ handler'[<<c, 1>>].at = "lock"
           /\ handler'[<<c, 1>>].i = 1 /\ handler'[<<c, 1>>].status = 0
           /\ \A k \in Handlers : k # <<c, 1>> => handler'[k] = handler[k]
           /\ \A k \in Handlers : k[1] = c => handler[k] = NoHandler
           /\ call[c].id = 0 /\ call[c].result = "none"
<1>0. /\ call \in [Clients -> CallTypes] /\ handler \in [Handlers -> HandlerTypes]
      /\ <<c, 1>> \in Handlers
  BY AttemptFacts DEF TypeInv, CallTypes, Handlers
<1>1. PICK op \in Ops, id \in Ids :
         call' = [call EXCEPT ![c] = [op |-> op, id |-> id, attempt |-> 1, result |-> "wait"]]
  BY DEF Begin
<1> DEFINE r == [op |-> op, id |-> id, attempt |-> 1, result |-> "wait"]
<1>2. r \in CallTypes /\ r.op = op /\ r.id = id /\ r.attempt = 1 /\ r.result = "wait"
  BY DEF CallTypes, Results
<1> HIDE DEF r
<1>3. call' = [call EXCEPT ![c] = r]
  BY <1>1 DEF r
<1>4. /\ call' \in [Clients -> CallTypes] /\ call'[c] = r
      /\ \A d \in Clients : d # c => call'[d] = call[d]
  BY <1>0, <1>2, <1>3
<1>5. /\ call[c].id = 0 /\ call[c].result = "none" /\ call[c].attempt = 0
      /\ \A k \in Handlers : k[1] = c => handler[k] = NoHandler
  <2>1. call[c].id = 0 /\ call[c].result = "none" /\ call[c].attempt = 0
    BY DEF CallInv, Begin
  <2>2. ASSUME NEW k \in Handlers, k[1] = c PROVE handler[k] = NoHandler
    <3>1. k = <<c, k[2]>> /\ k[2] \in Attempts /\ k[2] > 0
      BY <2>2, HandlerPair, AttemptFacts
    <3> QED
      BY <2>1, <3>1 DEF CallInv
  <2> QED
    BY <2>1, <2>2
<1> DEFINE x == [handler[<<c, 1>>] EXCEPT !.at = "lock"]
<1>6. handler' = [handler EXCEPT ![<<c, 1>>] = x]
  BY <1>0 DEF Begin
<1>7. x \in HandlerTypes /\ x.at = "lock" /\ x.i = 1 /\ x.status = 0
  <2>1. handler[<<c, 1>>] \in HandlerTypes /\ handler[<<c, 1>>] = NoHandler
    BY <1>0, <1>5
  <2>2. /\ x \in HandlerTypes /\ x.at = "lock" /\ x.i = handler[<<c, 1>>].i
        /\ x.status = handler[<<c, 1>>].status
    BY <2>1 DEF HandlerTypes
  <2> HIDE DEF x
  <2>3. handler[<<c, 1>>].i = 1 /\ handler[<<c, 1>>].status = 0
    BY <2>1 DEF NoHandler
  <2> QED
    BY <2>2, <2>3
<1> HIDE DEF x
<1>8. /\ handler' \in [Handlers -> HandlerTypes] /\ handler'[<<c, 1>>] = x
      /\ \A k \in Handlers : k # <<c, 1>> => handler'[k] = handler[k]
  BY <1>0, <1>6, <1>7
<1> QED
  BY <1>0, <1>2, <1>4, <1>5, <1>7, <1>8

\* The invariant holds then.
LEMMA BeginKeeps ==
    ASSUME ServerInv, NEW c \in Clients, Begin(c)
    PROVE  ServerInv'
<1>0. TypeInv /\ CallInv /\ faults' = faults /\ faults \in Nat /\ UNCHANGED clientRest
  BY DEF ServerInv, TypeInv, Begin
<1>1. /\ call' \in [Clients -> CallTypes] /\ handler' \in [Handlers -> HandlerTypes]
      /\ \A d \in Clients : d # c => call'[d] = call[d]
      /\ call'[c].op \in Ops /\ call'[c].id \in Ids /\ call'[c].attempt = 1
      /\ call'[c].result = "wait"
      /\ <<c, 1>> \in Handlers /\ handler'[<<c, 1>>].at = "lock"
      /\ handler'[<<c, 1>>].i = 1 /\ handler'[<<c, 1>>].status = 0
      /\ \A k \in Handlers : k # <<c, 1>> => handler'[k] = handler[k]
      /\ \A k \in Handlers : k[1] = c => handler[k] = NoHandler
  BY <1>0, BeginEffect
<1>2. call'[c].op # "none"
  BY <1>1 DEF Ops
<1>3. CallInv'
  <2>1. ASSUME NEW d \in Clients, NEW a \in Attempts, a > call'[d].attempt
        PROVE  handler'[<<d, a>>] = NoHandler
    <3>1. <<d, a>> \in Handlers /\ <<d, a>>[1] = d
      BY DEF Handlers
    <3>2. CASE d = c
      BY <1>1, <2>1, <3>1, <3>2
    <3>3. CASE d # c
      BY <1>0, <1>1, <2>1, <3>1, <3>3 DEF CallInv
    <3> QED
      BY <3>2, <3>3
  <2>2. ASSUME NEW d \in Clients
        PROVE  IF call'[d].op = "none"
               THEN call'[d].id = 0 /\ call'[d].attempt = 0 /\ call'[d].result = "none"
               ELSE call'[d].id \in Ids /\ call'[d].attempt \in Attempts
                    /\ call'[d].result # "none"
    <3>1. CASE d = c
      BY <1>1, <1>2, <3>1, AttemptFacts
    <3>2. CASE d # c
      BY <1>0, <1>1, <3>2 DEF CallInv
    <3> QED
      BY <3>1, <3>2
  <2> QED
    BY <2>1, <2>2 DEF CallInv
<1>4. ASSUME NEW k \in Handlers
      PROVE  \/ /\ handler'[k] = handler[k]
                /\ call'[k[1]].op = call[k[1]].op /\ call'[k[1]].id = call[k[1]].id
             \/ handler'[k] = NoHandler /\ handler[k].at # "ssh"
             \/ /\ handler'[k].at = "lock" /\ handler'[k].i = 1 /\ handler'[k].status = 0
                /\ handler[k].at # "ssh" /\ call'[k[1]].op # "none"
  <2>1. CASE k = <<c, 1>>
    BY <1>1, <1>2, <2>1 DEF NoHandler
  <2>2. CASE k # <<c, 1>> /\ k[1] = c
    BY <1>1, <2>2 DEF NoHandler
  <2>3. CASE k # <<c, 1>> /\ k[1] # c
    BY <1>1, <2>3, HandlerPair
  <2> QED
    BY <2>1, <2>2, <2>3
<1> QED
  BY <1>0, <1>1, <1>3, <1>4, ClientStepKeeps

\* Another attempt, or none.
LEMMA TryAgainEffect ==
    ASSUME TypeInv, CallInv, NEW c \in Clients, Waiting(c),
           NEW hs \in [Handlers -> HandlerTypes], TryAgain(c, hs),
           \A k \in Handlers : handler[k] = NoHandler => hs[k] = NoHandler
    PROVE  /\ call' \in [Clients -> CallTypes] /\ handler' \in [Handlers -> HandlerTypes]
           /\ \A d \in Clients : d # c => call'[d] = call[d]
           /\ call'[c].op = call[c].op /\ call'[c].id = call[c].id
           /\ call[c].attempt \in Attempts /\ call'[c].attempt \in Attempts
           /\ \/ /\ call'[c].result = "error" /\ call'[c].attempt = call[c].attempt
                 /\ handler' = hs
              \/ LET h == <<c, call[c].attempt + 1>> IN
                 /\ call'[c].result = "wait" /\ call'[c].attempt = call[c].attempt + 1
                 /\ h \in Handlers /\ handler[h] = NoHandler
                 /\ handler'[h].at = "lock" /\ handler'[h].i = 1 /\ handler'[h].status = 0
                 /\ \A k \in Handlers : k # h => handler'[k] = hs[k]
<1> DEFINE a == call[c].attempt
<1>0. /\ call \in [Clients -> CallTypes] /\ call[c] \in CallTypes
      /\ call[c].result = "wait" /\ a \in Attempts /\ a \in Nat
  BY AttemptFacts DEF TypeInv, CallTypes, CallInv, Waiting
<1>1. CASE a >= ErrorRetry
  <2>1. call' = [call EXCEPT ![c].result = "error"] /\ handler' = hs
    BY <1>1 DEF TryAgain
  <2> DEFINE x == [call[c] EXCEPT !.result = "error"]
  <2>2. call' = [call EXCEPT ![c] = x]
    BY <1>0, <2>1
  <2>3. /\ x \in CallTypes /\ x.op = call[c].op /\ x.id = call[c].id
        /\ x.attempt = a /\ x.result = "error"
    BY <1>0 DEF CallTypes, Results
  <2> HIDE DEF x
  <2>4. /\ call' \in [Clients -> CallTypes] /\ call'[c] = x
        /\ \A d \in Clients : d # c => call'[d] = call[d]
    BY <1>0, <2>2, <2>3
  <2> QED
    BY <1>0, <2>1, <2>3, <2>4
<1>2. CASE ~(a >= ErrorRetry)
  <2> DEFINE h == <<c, a + 1>>
             x == [call[c] EXCEPT !.attempt = a + 1]
             y == [hs[h] EXCEPT !.at = "lock"]
  <2>1. a + 1 \in Attempts /\ h \in Handlers /\ a + 1 > a
    BY <1>0, <1>2, AttemptFacts, RetryAssumption DEF Handlers
  <2>2. handler[h] = NoHandler
    BY <2>1 DEF CallInv
  <2>3. /\ hs[h] = NoHandler /\ hs[h] \in HandlerTypes
        /\ hs[h].i = 1 /\ hs[h].status = 0
    <3>1. hs[h] = NoHandler /\ hs[h] \in HandlerTypes
      BY <2>1, <2>2
    <3> HIDE DEF h
    <3> QED
      BY <3>1 DEF NoHandler
  <2>4. call' = [call EXCEPT ![c].attempt = a + 1] /\ handler' = [hs EXCEPT ![h].at = "lock"]
    BY <1>2 DEF TryAgain
  <2>5. call' = [call EXCEPT ![c] = x] /\ handler' = [hs EXCEPT ![h] = y]
    BY <1>0, <2>1, <2>4
  <2>6. /\ x \in CallTypes /\ x.op = call[c].op /\ x.id = call[c].id
        /\ x.attempt = a + 1 /\ x.result = "wait"
    BY <1>0 DEF CallTypes
  <2>7. y \in HandlerTypes /\ y.at = "lock" /\ y.i = hs[h].i /\ y.status = hs[h].status
    BY <2>3 DEF HandlerTypes
  <2> HIDE DEF h, x, y
  <2>8. /\ call' \in [Clients -> CallTypes] /\ call'[c] = x
        /\ \A d \in Clients : d # c => call'[d] = call[d]
    BY <1>0, <2>5, <2>6
  <2>9. /\ handler' \in [Handlers -> HandlerTypes] /\ handler'[h] = y
        /\ \A k \in Handlers : k # h => handler'[k] = hs[k]
    BY <2>1, <2>5, <2>7
  <2> QED
    BY <1>0, <2>1, <2>2, <2>3, <2>6, <2>7, <2>8, <2>9 DEF h
<1> QED
  BY <1>1, <1>2

\* Trying again, after a bad response or without one.
LEMMA TryAgainKeeps ==
    ASSUME ServerInv, NEW c \in Clients, Waiting(c), UNCHANGED clientRest,
           faults' \in Nat, faults' >= faults,
           NEW hs \in [Handlers -> HandlerTypes], TryAgain(c, hs),
           \A k \in Handlers : hs[k] = handler[k] \/ (hs[k] = NoHandler /\ handler[k].at # "ssh")
    PROVE  ServerInv'
<1>0. TypeInv /\ CallInv
  BY DEF ServerInv
<1>1. \A k \in Handlers : handler[k] = NoHandler => hs[k] = NoHandler
  OBVIOUS
<1>2. /\ call' \in [Clients -> CallTypes] /\ handler' \in [Handlers -> HandlerTypes]
      /\ \A d \in Clients : d # c => call'[d] = call[d]
      /\ call'[c].op = call[c].op /\ call'[c].id = call[c].id
      /\ call[c].attempt \in Attempts /\ call'[c].attempt \in Attempts
  BY <1>0, <1>1, TryAgainEffect
<1>3. call[c].op # "none" /\ call[c].id \in Ids /\ call'[c].result # "none"
  <2>1. call[c].op # "none" /\ call[c].id \in Ids
    BY <1>0 DEF CallInv, Waiting
  <2>2. call'[c].result \in {"error", "wait"}
    BY <1>0, <1>1, TryAgainEffect
  <2> QED
    BY <2>1, <2>2
<1>4. ASSUME NEW k \in Handlers
      PROVE  \/ handler'[k] = handler[k] /\ handler'[k] = hs[k]
             \/ handler'[k] = NoHandler /\ handler[k].at # "ssh" /\ handler'[k] = hs[k]
             \/ /\ handler'[k].at = "lock" /\ handler'[k].i = 1 /\ handler'[k].status = 0
                /\ handler[k] = NoHandler /\ k = <<c, call'[c].attempt>>
  <2>1. CASE handler' = hs
    BY <2>1
  <2>2. CASE LET h == <<c, call[c].attempt + 1>> IN
                /\ call'[c].attempt = call[c].attempt + 1
                /\ h \in Handlers /\ handler[h] = NoHandler
                /\ handler'[h].at = "lock" /\ handler'[h].i = 1 /\ handler'[h].status = 0
                /\ \A j \in Handlers : j # h => handler'[j] = hs[j]
    <3>1. CASE k = <<c, call[c].attempt + 1>>
      BY <2>2, <3>1
    <3>2. CASE k # <<c, call[c].attempt + 1>>
      BY <2>2, <3>2
    <3> QED
      BY <3>1, <3>2
  <2> QED
    BY <1>0, <1>1, <2>1, <2>2, TryAgainEffect
<1>5. call'[c].attempt >= call[c].attempt /\ call[c].attempt \in Nat /\ call'[c].attempt \in Nat
  <2>1. call[c].attempt \in Nat /\ call'[c].attempt \in Nat
    BY <1>2, AttemptFacts
  <2>2. call'[c].attempt = call[c].attempt \/ call'[c].attempt = call[c].attempt + 1
    BY <1>0, <1>1, TryAgainEffect
  <2> QED
    BY <2>1, <2>2
<1>6. CallInv'
  <2>1. ASSUME NEW d \in Clients, NEW b \in Attempts, b > call'[d].attempt
        PROVE  handler'[<<d, b>>] = NoHandler
    <3>1. <<d, b>> \in Handlers
      BY DEF Handlers
    <3>2. b > call[d].attempt
      <4>1. CASE d = c
        <5>1. b \in Nat
          BY AttemptFacts
        <5> QED
          BY <1>5, <2>1, <4>1, <5>1
      <4>2. CASE d # c
        BY <1>2, <2>1, <4>2
      <4> QED
        BY <4>1, <4>2
    <3>3. handler[<<d, b>>] = NoHandler /\ hs[<<d, b>>] = NoHandler
      BY <1>0, <1>1, <3>1, <3>2 DEF CallInv
    <3>4. <<d, b>> # <<c, call'[c].attempt>>
      <4>1. CASE d = c
        BY <1>2, <2>1, <4>1, AttemptFacts
      <4> QED
        BY <4>1
    <3> QED
      BY <1>4, <3>1, <3>3, <3>4
  <2>2. ASSUME NEW d \in Clients
        PROVE  IF call'[d].op = "none"
               THEN call'[d].id = 0 /\ call'[d].attempt = 0 /\ call'[d].result = "none"
               ELSE call'[d].id \in Ids /\ call'[d].attempt \in Attempts
                    /\ call'[d].result # "none"
    <3>1. CASE d = c
      BY <1>2, <1>3, <3>1
    <3>2. CASE d # c
      BY <1>0, <1>2, <3>2 DEF CallInv
    <3> QED
      BY <3>1, <3>2
  <2> QED
    BY <2>1, <2>2 DEF CallInv
<1>7. ASSUME NEW k \in Handlers
      PROVE  \/ /\ handler'[k] = handler[k]
                /\ call'[k[1]].op = call[k[1]].op /\ call'[k[1]].id = call[k[1]].id
             \/ handler'[k] = NoHandler /\ handler[k].at # "ssh"
             \/ /\ handler'[k].at = "lock" /\ handler'[k].i = 1 /\ handler'[k].status = 0
                /\ handler[k].at # "ssh" /\ call'[k[1]].op # "none"
  <2>1. call'[k[1]].op = call[k[1]].op /\ call'[k[1]].id = call[k[1]].id
    BY <1>2, HandlerPair
  <2>2. CASE handler'[k].at = "lock" /\ handler[k] = NoHandler /\ k = <<c, call'[c].attempt>>
    BY <1>2, <1>3, <1>4, <2>2 DEF NoHandler
  <2> QED
    BY <1>4, <2>1, <2>2
<1> QED
  BY <1>2, <1>6, <1>7, ClientStepKeeps

\* What a client makes of a response is an answer.
LEMMA ResultFacts ==
    ASSUME NEW op, NEW r
    PROVE  ResultOf(op, r) \in {"missing", "no", "error", "yes", "ok", "chunk"}
BY DEF ResultOf

\* A good response ends the call.
LEMMA AnswerEffect ==
    ASSUME TypeInv, NEW c \in Clients, NEW v \in Results,
           call' = [call EXCEPT ![c].result = v]
    PROVE  /\ call' \in [Clients -> CallTypes] /\ call'[c].result = v
           /\ \A d \in Clients : d # c => call'[d] = call[d]
           /\ call'[c].op = call[c].op /\ call'[c].id = call[c].id
           /\ call'[c].attempt = call[c].attempt
<1>0. call \in [Clients -> CallTypes] /\ call[c] \in CallTypes
  BY DEF TypeInv, CallTypes
<1> DEFINE x == [call[c] EXCEPT !.result = v]
<1>1. call' = [call EXCEPT ![c] = x]
  BY <1>0
<1>2. /\ x \in CallTypes /\ x.op = call[c].op /\ x.id = call[c].id
      /\ x.attempt = call[c].attempt /\ x.result = v
  BY <1>0 DEF CallTypes
<1> HIDE DEF x
<1> QED
  BY <1>0, <1>1, <1>2

\* The response arrives.
LEMMA RespondKeeps ==
    ASSUME ServerInv, NEW c \in Clients, Respond(c)
    PROVE  ServerInv'
<1>0. /\ TypeInv /\ CallInv /\ faults' = faults /\ faults \in Nat /\ UNCHANGED clientRest
      /\ Waiting(c) /\ handler \in [Handlers -> HandlerTypes]
  BY DEF ServerInv, TypeInv, Respond
<1>1. CASE TryAgain(c, handler)
  BY <1>0, <1>1, TryAgainKeeps
<1>2. CASE /\ call' = [call EXCEPT ![c].result = ResultOf(call[c].op, Current(c))]
           /\ UNCHANGED handler
  <2> DEFINE v == ResultOf(call[c].op, Current(c))
  <2>1. v \in Results /\ v # "none"
    <3>1. v \in {"missing", "no", "error", "yes", "ok", "chunk"}
      BY ResultFacts
    <3> HIDE DEF v
    <3> QED
      BY <3>1 DEF Results
  <2>2. call' = [call EXCEPT ![c].result = v]
    BY <1>2
  <2> HIDE DEF v
  <2>3. /\ call' \in [Clients -> CallTypes] /\ call'[c].result = v
        /\ \A d \in Clients : d # c => call'[d] = call[d]
        /\ call'[c].op = call[c].op /\ call'[c].id = call[c].id
        /\ call'[c].attempt = call[c].attempt
    BY <1>0, <2>1, <2>2, AnswerEffect
  <2>4. CallInv'
    <3> SUFFICES ASSUME NEW d \in Clients
                 PROVE  /\ IF call'[d].op = "none"
                           THEN call'[d].id = 0 /\ call'[d].attempt = 0 /\ call'[d].result = "none"
                           ELSE call'[d].id \in Ids /\ call'[d].attempt \in Attempts
                                /\ call'[d].result # "none"
                        /\ \A a \in Attempts : a > call'[d].attempt
                                                 => handler'[<<d, a>>] = NoHandler
      BY DEF CallInv
    <3>1. CASE d = c
      BY <1>0, <1>2, <2>1, <2>3, <3>1 DEF CallInv, Waiting
    <3>2. CASE d # c
      BY <1>0, <1>2, <2>3, <3>2 DEF CallInv
    <3> QED
      BY <3>1, <3>2
  <2>5. ASSUME NEW k \in Handlers
        PROVE  /\ handler'[k] = handler[k]
               /\ call'[k[1]].op = call[k[1]].op /\ call'[k[1]].id = call[k[1]].id
    BY <1>2, <2>3, HandlerPair
  <2> QED
    BY <1>0, <1>2, <2>3, <2>4, <2>5, ClientStepKeeps
<1> QED
  BY <1>1, <1>2 DEF Respond

\* The handlers when a request got lost.
LEMMA LostRequest ==
    ASSUME TypeInv, CallInv, NEW c \in Clients, Waiting(c)
    PROVE  LET hs == [handler EXCEPT ![<<c, call[c].attempt>>] = NoHandler]
           IN  /\ hs \in [Handlers -> HandlerTypes] /\ <<c, call[c].attempt>> \in Handlers
               /\ hs[<<c, call[c].attempt>>] = NoHandler
               /\ \A k \in Handlers : k # <<c, call[c].attempt>> => hs[k] = handler[k]
<1>1. NoHandler \in HandlerTypes
  BY DEF NoHandler, HandlerTypes
<1>2. call[c].attempt \in Attempts
  BY DEF CallInv, Waiting
<1>3. <<c, call[c].attempt>> \in Handlers
  BY <1>2 DEF Handlers
<1> QED
  BY <1>1, <1>3 DEF TypeInv

\* No response arrives in time.
LEMMA TimeOutKeeps ==
    ASSUME ServerInv, NEW c \in Clients, TimeOut(c)
    PROVE  ServerInv'
<1>0. /\ TypeInv /\ CallInv /\ faults \in Nat /\ UNCHANGED clientRest
      /\ Waiting(c) /\ handler \in [Handlers -> HandlerTypes]
      /\ faults' \in Nat /\ faults' >= faults
  BY FaultFacts DEF ServerInv, TypeInv, TimeOut
<1>1. CASE TryAgain(c, handler)
  BY <1>0, <1>1, TryAgainKeeps
<1>2. CASE /\ Current(c).at = "lock"
           /\ TryAgain(c, [handler EXCEPT ![<<c, call[c].attempt>>] = NoHandler])
  <2> DEFINE hs == [handler EXCEPT ![<<c, call[c].attempt>>] = NoHandler]
  <2>1. /\ hs \in [Handlers -> HandlerTypes] /\ <<c, call[c].attempt>> \in Handlers
        /\ hs[<<c, call[c].attempt>>] = NoHandler
        /\ \A k \in Handlers : k # <<c, call[c].attempt>> => hs[k] = handler[k]
    BY <1>0, LostRequest
  <2>2. TryAgain(c, hs)
    BY <1>2
  <2> HIDE DEF hs
  <2>3. \A k \in Handlers : hs[k] = handler[k] \/ (hs[k] = NoHandler /\ handler[k].at # "ssh")
    BY <1>2, <2>1 DEF Current
  <2> QED
    BY <1>0, <2>1, <2>2, <2>3, TryAgainKeeps
<1> QED
  BY <1>1, <1>2 DEF TimeOut

-----------------------------------------------------------------------------
(* Configurations and the cache.                                            *)

\* A new ssh store has all of its sessions.
LEMMA SessionFacts ==
    /\ NewSessions \in Seq(BOOLEAN) /\ NewSessions \in Seq({TRUE}) /\ Len(NewSessions) = Sessions
    /\ <<>> \in Seq(BOOLEAN) /\ <<>> \in Seq({TRUE}) /\ Len(<<>>) = 0
<1>1. Sessions \in Nat /\ NewSessions = [j \in 1..Sessions |-> TRUE]
  BY SessionsAssumption DEF NewSessions
<1>2. NewSessions \in Seq({TRUE})
  BY <1>1
<1>3. NewSessions \in Seq(BOOLEAN) /\ Len(NewSessions) = Sessions
  BY <1>1
<1> QED
  BY <1>2, <1>3

\* Stores are opened for the next configuration.
LEMMA ReloadKeeps ==
    ASSUME ServerInv, Reload
    PROVE  ServerInv'
<1>0. /\ TypeInv /\ PoolInv /\ CallInv /\ TroubleInv /\ HandlerInv /\ swap = NoConf
      /\ UNCHANGED <<opt, held, cache, conf, call, handler, died, faults>>
      /\ conf.number \in Nat /\ conf.number \in Numbers /\ conf.number < MaxReloads
  BY ConfFacts DEF ServerInv, Reload
<1>1. PICK f \in Configs : /\ Accepted(opt, f) /\ swap' = Conf(f, conf.number + 1)
                           /\ pool' = [pool EXCEPT ![conf.number + 1] = NewSessions]
  BY DEF Reload
<1> DEFINE n == conf.number + 1
<1>2. n \in Numbers /\ n # conf.number /\ n \in Nat
  BY <1>0, BoundsAssumption DEF Numbers
<1>3. /\ swap' \in ConfTypes /\ swap'.number = n /\ swap'.stores = f.stores
      /\ swap'.cached = f.cached
  BY <1>1, <1>2, ConfigsAssumption DEF Conf, ConfTypes
<1>4. swap' # NoConf /\ Accepted(opt, swap')
  BY <1>1, <1>2, <1>3 DEF NoConf, Accepted
<1> HIDE DEF n
<1>5. pool' = [pool EXCEPT ![n] = NewSessions]
  BY <1>1 DEF n
<1>6. pool' \in [Numbers -> Seq(BOOLEAN)] /\ pool'[n] = NewSessions
      /\ pool'[conf.number] = pool[conf.number]
  BY <1>0, <1>2, <1>5, SessionFacts DEF TypeInv
<1>7. ~died => pool' \in [Numbers -> Seq({TRUE})]
  BY <1>0, <1>2, <1>5, SessionFacts DEF TroubleInv
<1>8. Accepted(opt, conf)' = Accepted(opt, conf) /\ Accepted(opt, swap)' = Accepted(opt, swap')
  BY <1>0 DEF Accepted
<1>9. TypeInv'
  BY <1>0, <1>3, <1>4, <1>6, <1>8 DEF TypeInv, n
<1>10. PoolInv'
  <2>1. OnSsh' = OnSsh
    BY <1>0 DEF OnSsh
  <2> QED
    BY <1>0, <1>3, <1>6, <2>1 DEF PoolInv, NewSessions
<1>11. TroubleInv'
  BY <1>0, <1>7 DEF TroubleInv, Trouble
<1>12. CallInv'
  BY <1>0 DEF CallInv
<1>13. HandlerInv'
  BY <1>0 DEF HandlerInv, HandlerOk, Op, Id, Refused, InStore, InStores, Passed, Trouble
<1> QED
  BY <1>9, <1>10, <1>11, <1>12, <1>13 DEF ServerInv

\* The old stores are closed when nobody uses them.
LEMMA SwapKeeps ==
    ASSUME ServerInv, Swap
    PROVE  ServerInv'
<1>0. /\ TypeInv /\ PoolInv /\ CallInv /\ TroubleInv /\ HandlerInv /\ swap # NoConf
      /\ UNCHANGED <<opt, held, cache, call, handler, died, faults>> /\ conf' = swap
      /\ swap' = NoConf /\ conf.number \in Nat /\ conf.number \in Numbers
      /\ pool' = [pool EXCEPT ![conf.number] = <<>>]
  BY ConfFacts DEF ServerInv, Swap, CloseSessions
<1>1. swap \in ConfTypes /\ swap.number = conf.number + 1 /\ swap.number \in Numbers
      /\ Accepted(opt, swap)
  BY <1>0 DEF TypeInv, ConfTypes
<1>2. Accepted(opt, conf)' = Accepted(opt, swap)
  BY <1>0 DEF Accepted
<1>3. /\ pool' \in [Numbers -> Seq(BOOLEAN)] /\ pool'[swap.number] = pool[swap.number]
  BY <1>0, <1>1, SessionFacts DEF TypeInv
<1>4. ~died => pool' \in [Numbers -> Seq({TRUE})]
  BY <1>0, SessionFacts DEF TroubleInv
<1>5. TypeInv'
  BY <1>0, <1>1, <1>2, <1>3 DEF TypeInv
<1>6. \A k \in Handlers : ~InStore(k)
  BY DEF Swap, NoReaders, Handlers
<1>7. PoolInv'
  <2>1. OnSsh' = {}
    BY <1>0, <1>6 DEF OnSsh, InStore
  <2>2. Cardinality(OnSsh') = 0
    BY <2>1, FS_EmptySet
  <2>3. Len(pool'[conf'.number]) = Sessions
    BY <1>0, <1>3, SessionFacts DEF PoolInv
  <2> QED
    BY <1>0, <2>2, <2>3, SessionsAssumption DEF PoolInv
<1>8. TroubleInv'
  BY <1>0, <1>4 DEF TroubleInv, Trouble
<1>9. CallInv'
  BY <1>0 DEF CallInv
<1>10. HandlerInv'
  BY <1>0, <1>6 DEF HandlerInv, HandlerOk, Op, InStore
<1> QED
  BY <1>5, <1>7, <1>8, <1>9, <1>10 DEF ServerInv

\* A chunk of the cache is damaged.
LEMMA DamageKeeps ==
    ASSUME ServerInv, Damage
    PROVE  ServerInv' /\ Grows
<1>0. /\ TypeInv /\ PoolInv /\ CallInv /\ TroubleInv /\ HandlerInv
      /\ UNCHANGED <<opt, held, conf, swap, pool, call, handler, died>>
      /\ faults' \in Nat /\ faults' > 0 /\ Trouble'
  BY FaultFacts DEF ServerInv, Damage
<1>1. PICK id \in Ids : cache[id] = "good" /\ cache' = [cache EXCEPT ![id] = "bad"]
  BY DEF Damage
<1>2. /\ cache' \in [Ids -> {"none", "good", "bad"}]
      /\ \A i \in Ids : cache'[i] = "good" => cache[i] = "good"
  BY <1>0, <1>1 DEF TypeInv
<1>3. Grows
  BY <1>0, <1>2 DEF Grows
<1>4. TypeInv'
  BY <1>0, <1>2 DEF TypeInv, Accepted
<1>5. PoolInv'
  BY <1>0 DEF PoolInv, OnSsh
<1>6. TroubleInv'
  BY <1>0 DEF TroubleInv
<1>7. CallInv'
  BY <1>0 DEF CallInv
<1>8. HandlerInv'
  BY <1>0, <1>3, OthersKeep DEF HandlerInv
<1> QED
  BY <1>3, <1>4, <1>5, <1>6, <1>7, <1>8 DEF ServerInv

-----------------------------------------------------------------------------
(* The invariant.                                                           *)

\* It holds at first.
LEMMA InitServerInv == Init => ServerInv
<1> SUFFICES ASSUME Init PROVE ServerInv
  OBVIOUS
<1>1. PICK o \in Options, f \in Configs :
         /\ Accepted(o, f) /\ opt = o /\ conf = Conf(f, 0) /\ swap = NoConf
         /\ held \in Holdings /\ cache = [id \in Ids |-> "none"]
         /\ pool = [n \in Numbers |-> IF n = 0 THEN NewSessions ELSE <<>>]
         /\ call = [c \in Clients |-> [op |-> "none", id |-> 0, attempt |-> 0, result |-> "none"]]
         /\ handler = [h \in Clients \X Attempts |-> NoHandler]
         /\ died = FALSE /\ faults = 0
  BY DEF Init
<1>2. 0 \in Numbers /\ conf \in ConfTypes /\ conf.number = 0 /\ Accepted(opt, conf)
  BY <1>1, ConfigsAssumption, BoundsAssumption DEF Conf, ConfTypes, Accepted, Numbers
<1>3. /\ pool \in [Numbers -> Seq(BOOLEAN)] /\ pool \in [Numbers -> Seq({TRUE})]
      /\ pool[0] = NewSessions
  BY <1>1, <1>2, SessionFacts
<1>4. handler \in [Handlers -> HandlerTypes] /\ \A h \in Handlers : handler[h] = NoHandler
  <2>1. NoHandler \in HandlerTypes
    BY DEF NoHandler, HandlerTypes
  <2> QED
    BY <1>1, <2>1 DEF Handlers
<1>5. /\ call \in [Clients -> CallTypes]
      /\ \A c \in Clients : /\ call[c].op = "none" /\ call[c].id = 0 /\ call[c].attempt = 0
                            /\ call[c].result = "none"
  BY <1>1 DEF CallTypes, Ops, Results
<1>6. TypeInv
  BY <1>1, <1>2, <1>3, <1>4, <1>5, HoldingsAssumption DEF TypeInv, CallTypes
<1>7. PoolInv
  <2>1. OnSsh = {}
    BY <1>4 DEF OnSsh, NoHandler
  <2>2. Cardinality(OnSsh) = 0
    BY <2>1, FS_EmptySet
  <2> QED
    BY <1>1, <1>2, <1>3, <2>2, SessionFacts, SessionsAssumption DEF PoolInv
<1>8. CallInv
  BY <1>4, <1>5 DEF CallInv, Handlers
<1>9. TroubleInv
  BY <1>1, <1>3, <1>4 DEF TroubleInv, NoHandler
<1>10. HandlerInv
  BY <1>4 DEF HandlerInv, HandlerOk, InStore, NoHandler
<1> QED
  BY <1>6, <1>7, <1>8, <1>9, <1>10 DEF ServerInv

\* Every step preserves it.
LEMMA NextServerInv == ServerInv /\ [Next]_vars => ServerInv'
<1> SUFFICES ASSUME ServerInv, [Next]_vars PROVE ServerInv'
  OBVIOUS
<1>1. ASSUME NEW c \in Clients, Client(c) PROVE ServerInv'
  BY <1>1, BeginKeeps, RespondKeeps, TimeOutKeeps DEF Client
<1>2. ASSUME NEW h \in Clients \X Attempts, Handler(h) PROVE ServerInv'
  BY <1>2, HandlerKeeps DEF Handlers
<1>3. CASE UNCHANGED vars
  BY <1>3 DEF vars, ServerInv, TypeInv, PoolInv, CallInv, TroubleInv, HandlerInv, HandlerOk, Op, Id,
              Refused, InStore, InStores, Passed, Trouble, Accepted, OnSsh
<1> QED
  BY <1>1, <1>2, <1>3, ReloadKeeps, SwapKeeps, DamageKeeps DEF Next, Answered

\* ServerInv is an invariant of the chunk server: the sessions of an ssh store are
\* all accounted for, a handler in the stores uses the present configuration and
\* knows that the stores it went past have not got its chunk, and nothing bad is
\* seen before something went wrong.
THEOREM ServerInvariance == Spec => []ServerInv
BY InitServerInv, NextServerInv, PTL DEF Spec

\* No request uses stores that SwapStore has closed.
THEOREM NotUsedAfterClose == Spec => []NoUseAfterClose
<1>1. ServerInv => NoUseAfterClose
  BY DEF ServerInv, HandlerInv, HandlerOk, PoolInv, NoUseAfterClose, Handlers, OnSsh
<1> QED
  BY <1>1, ServerInvariance, PTL

-----------------------------------------------------------------------------
(* ChunkServer implements ChunkService: what a step has to do to be one of  *)
(* the service's.                                                           *)

\* Answers of which the service may give one.
Allowed(op, id, wrong) == Service!Right(op, id, wrong) \cup (IF wrong THEN {"error"} ELSE {})

\* The calls of the service when nobody gets another answer.
LEMMA SameCalls ==
    ASSUME \A c \in Clients : /\ call'[c].op = call[c].op /\ call'[c].id = call[c].id
                              /\ AnswerTo(c)' = AnswerTo(c)
    PROVE  Calls' = Calls
BY DEF Calls

\* The calls of the service when one client gets another answer.
LEMMA OneAnswer ==
    ASSUME NEW c \in Clients,
           \A d \in Clients : call'[d].op = call[d].op /\ call'[d].id = call[d].id,
           \A d \in Clients : d # c => AnswerTo(d)' = AnswerTo(d)
    PROVE  Calls' = [Calls EXCEPT ![c].answer = AnswerTo(c)']
<1> DEFINE new == [d \in Clients |-> [op |-> call'[d].op, id |-> call'[d].id,
                                      answer |-> AnswerTo(d)']]
<1>1. Calls' = new
  BY DEF Calls
<1>2. Calls = [d \in Clients |-> [op |-> call[d].op, id |-> call[d].id, answer |-> AnswerTo(d)]]
  BY DEF Calls
<1>3. ASSUME NEW d \in Clients PROVE [Calls EXCEPT ![c].answer = AnswerTo(c)'][d] = new[d]
  BY <1>2
<1>4. DOMAIN [Calls EXCEPT ![c].answer = AnswerTo(c)'] = Clients
  BY <1>2
<1> QED
  BY <1>1, <1>2, <1>3, <1>4

\* Nothing happens that a client could notice, except that something goes wrong.
LEMMA AbsWrong ==
    ASSUME Avail' = Avail, Extra' \subseteq Extra, Calls' = Calls, conf'.number = conf.number,
           Trouble'
    PROVE  Service!Next
BY DEF Service!Next, Service!GoWrong

\* Nothing happens at all, or something goes wrong.
LEMMA AbsSame ==
    ASSUME TypeInv, TypeInv', Avail' = Avail, Extra' = Extra, Calls' = Calls,
           conf'.number = conf.number, Trouble => Trouble'
    PROVE  [Service!Next]_Service!vars
<1>1. CASE Trouble'
  BY <1>1, AbsWrong
<1>2. CASE ~Trouble'
  <2>1. Trouble' = Trouble
    BY <1>2, Zenon DEF Trouble
  <2> QED
    BY <2>1 DEF Service!vars
<1> QED
  BY <1>1, <1>2

\* A client gets an answer.
LEMMA AbsAnswer ==
    ASSUME NEW c \in Clients, Avail' = Avail, Extra' = Extra, conf'.number = conf.number,
           Trouble => Trouble', AnswerTo(c) = "wait",
           AnswerTo(c)' \in Allowed(call[c].op, call[c].id, Trouble'),
           Calls' = [Calls EXCEPT ![c].answer = AnswerTo(c)']
    PROVE  Service!Next
<1>1. Calls[c].answer = "wait" /\ Calls[c].op = call[c].op /\ Calls[c].id = call[c].id
  BY DEF Calls
<1>2. Trouble' \in {Trouble, TRUE}
  BY Zenon DEF Trouble
<1>3. Service!Answer(c)
  BY <1>1, <1>2 DEF Service!Answer, Allowed
<1> QED
  BY <1>3 DEF Service!Next

\* An answer is lost.
LEMMA AbsLose ==
    ASSUME NEW c \in Clients, Avail' = Avail, Extra' = Extra, conf'.number = conf.number,
           Trouble', AnswerTo(c) \notin {"none", "wait", "refused"},
           AnswerTo(c)' \in {"wait", "error"}, Calls' = [Calls EXCEPT ![c].answer = AnswerTo(c)']
    PROVE  Service!Next
<1>1. Calls[c].answer = AnswerTo(c)
  BY DEF Calls
<1>2. Service!Lose(c)
  BY <1>1 DEF Service!Lose
<1> QED
  BY <1>2 DEF Service!Next

\* The answer of a client whose handler and call do not change.
LEMMA AnswerKeeps ==
    ASSUME NEW c \in Clients, call'[c] = call[c], opt' = opt,
           handler'[<<c, call[c].attempt>>] = handler[<<c, call[c].attempt>>]
    PROVE  AnswerTo(c)' = AnswerTo(c)
BY DEF AnswerTo, Refused, Waiting, Current, ResultOf

\* Current is the handler of the current attempt, if there is a call.
LEMMA CurrentFacts ==
    ASSUME TypeInv, CallInv, NEW c \in Clients, call[c].op # "none"
    PROVE  /\ <<c, call[c].attempt>> \in Handlers
           /\ Current(c) = handler[<<c, call[c].attempt>>] /\ Current(c) \in HandlerTypes
<1>1. <<c, call[c].attempt>> \in Handlers
  BY DEF CallInv, Handlers
<1> QED
  BY <1>1 DEF Current, TypeInv

\* A step of a handler is a step of the service if its response, unless that is a
\* failure, is an answer the service may give.
LEMMA HandlerImplements ==
    ASSUME ServerInv, ServerInv', NEW h \in Handlers, Frame(h), handler[h].at # "replied",
           Avail' = Avail, Extra' = Extra, Trouble => Trouble',
           /\ handler'[h].at = "replied" /\ handler'[h].status < 500 /\ ~Refused(h[1], Op(h))
           => ResultOf(Op(h), handler'[h]) \in Allowed(Op(h), Id(h), Trouble')
    PROVE  [Service!Next]_Service!vars
<1> DEFINE c == h[1]
<1>0. /\ TypeInv /\ TypeInv' /\ CallInv /\ c \in Clients /\ h[2] \in Attempts
      /\ h = <<c, h[2]>> /\ UNCHANGED <<opt, conf, swap, call>> /\ HandlerOk(h)
      /\ handler'[h] \in HandlerTypes /\ handler[h] \in HandlerTypes
  BY HandlerPair DEF ServerInv, Frame, HandlerInv, TypeInv
<1>1. call[c].op = Op(h) /\ call[c].id = Id(h) /\ Op(h) # "none" /\ handler[h].at # "none"
  BY <1>0 DEF Op, Id, HandlerOk, Frame
<1>2. ASSUME NEW d \in Clients, d # c PROVE AnswerTo(d)' = AnswerTo(d)
  <2>1. CASE call[d].op = "none"
    <3>1. call'[d].result = call[d].result /\ call[d].result = "none" /\ call'[d].op = "none"
      BY <1>0, <2>1 DEF CallInv
    <3> QED
      BY <2>1, <3>1 DEF AnswerTo, Waiting
  <2>2. CASE call[d].op # "none"
    <3>1. <<d, call[d].attempt>> \in Handlers
      BY <1>0, <2>2, CurrentFacts
    <3>2. <<d, call[d].attempt>> # h
      BY <1>0, <1>2
    <3>3. handler'[<<d, call[d].attempt>>] = handler[<<d, call[d].attempt>>]
      BY <3>1, <3>2 DEF Frame
    <3> QED
      BY <1>0, <3>3, AnswerKeeps
  <2> QED
    BY <2>1, <2>2
<1>3. ASSUME AnswerTo(c)' = AnswerTo(c) PROVE [Service!Next]_Service!vars
  <2>1. Calls' = Calls
    BY <1>0, <1>2, <1>3, SameCalls
  <2> QED
    BY <1>0, <2>1, AbsSame
<1>4. Refused(c, call[c].op)' = Refused(c, call[c].op) /\ Waiting(c)' = Waiting(c)
  BY <1>0 DEF Refused, Waiting
<1>5. CASE Refused(c, call[c].op)
  <2>1. AnswerTo(c)' = AnswerTo(c)
    BY <1>0, <1>1, <1>4, <1>5 DEF AnswerTo
  <2> QED
    BY <1>3, <2>1
<1>6. CASE ~Waiting(c)
  <2>1. AnswerTo(c)' = AnswerTo(c)
    BY <1>0, <1>4, <1>6 DEF AnswerTo
  <2> QED
    BY <1>3, <2>1
<1>7. CASE call[c].attempt # h[2]
  <2>1. <<c, call[c].attempt>> \in Handlers /\ <<c, call[c].attempt>> # h
    BY <1>0, <1>1, <1>7, CurrentFacts
  <2>2. handler'[<<c, call[c].attempt>>] = handler[<<c, call[c].attempt>>]
    BY <2>1 DEF Frame
  <2>3. AnswerTo(c)' = AnswerTo(c)
    BY <1>0, <2>2, AnswerKeeps
  <2> QED
    BY <1>3, <2>3
<1>8. CASE ~Refused(c, call[c].op) /\ Waiting(c) /\ call[c].attempt = h[2]
  <2>1. Current(c) = handler[h] /\ Current(c)' = handler'[h]
    BY <1>0, <1>8 DEF Current
  <2>2. AnswerTo(c) = "wait"
    BY <1>8, <2>1 DEF AnswerTo, Waiting
  <2>3. CASE ~(handler'[h].at = "replied" /\ handler'[h].status < 500)
    <3>1. AnswerTo(c)' = "wait"
      BY <1>0, <1>4, <1>8, <2>1, <2>3 DEF AnswerTo, Waiting
    <3> QED
      BY <1>3, <2>2, <3>1
  <2>4. CASE handler'[h].at = "replied" /\ handler'[h].status < 500
    <3>1. ResultOf(call[c].op, Current(c))' = ResultOf(Op(h), handler'[h])
      BY <1>0, <1>1, <2>1 DEF ResultOf
    <3>2. AnswerTo(c)' = ResultOf(call[c].op, Current(c))'
      BY <1>4, <1>8, <2>1, <2>4 DEF AnswerTo
    <3>3. AnswerTo(c)' \in Allowed(call[c].op, call[c].id, Trouble')
      BY <1>1, <1>8, <2>4, <3>1, <3>2
    <3>4. Calls' = [Calls EXCEPT ![c].answer = AnswerTo(c)']
      BY <1>0, <1>2, OneAnswer
    <3>5. Service!Next
      BY <1>0, <2>2, <3>3, <3>4, AbsAnswer
    <3> QED
      BY <3>5
  <2> QED
    BY <2>3, <2>4
<1> QED
  BY <1>5, <1>6, <1>7, <1>8

\* Which answers the service may give.
LEMMA AllowedFacts ==
    ASSUME NEW id, NEW wrong \in BOOLEAN
    PROVE  /\ wrong => \A op \in Ops : "error" \in Allowed(op, id, wrong)
           /\ id \in Avail \cup Extra => "chunk" \in Allowed("get", id, wrong)
           /\ id \notin Avail /\ (id \in Extra => wrong) => "missing" \in Allowed("get", id, wrong)
           /\ id \in Avail \cup Extra \/ wrong => "yes" \in Allowed("has", id, wrong)
           /\ id \notin Avail \cup Extra \/ wrong => "no" \in Allowed("has", id, wrong)
           /\ id \in Avail => "ok" \in Allowed("put", id, wrong)
BY DEF Allowed, Service!Right, Ops

\* What clients make of the responses.
LEMMA ResultIs ==
    ASSUME NEW r
    PROVE  /\ r.status = 404 => /\ ResultOf("get", r) = "missing" /\ ResultOf("has", r) = "no"
           /\ r.status = 200 => /\ ResultOf("has", r) = "yes" /\ ResultOf("put", r) = "ok"
                                /\ r.body = "good" => ResultOf("get", r) = "chunk"
                                /\ r.body # "good" => ResultOf("get", r) = "error"
BY DEF ResultOf

\* What the stores and the cache have does not change.
LEMMA SameStores ==
    ASSUME UNCHANGED <<held, cache, conf>>
    PROVE  Avail' = Avail /\ Extra' = Extra
BY DEF Avail, Extra, InStores

\* The answer of a store, and of all those before it.
LEMMA RoutedImplements ==
    ASSUME ServerInv, ServerInv', NEW h \in Handlers,
           handler[h].at \in {"router", "ssh"}, Op(h) \in {"get", "has"},
           NEW a \in {"yes", "no", "error"}, Routed(h, a), Frame(h),
           UNCHANGED <<opt, held, cache, conf, swap, call>>,
           a = "yes" => Has(h), a = "no" => ~Has(h) \/ (Op(h) = "has" /\ Trouble'),
           a = "error" => Trouble', Trouble => Trouble'
    PROVE  [Service!Next]_Service!vars
<1>0. /\ TypeInv /\ TypeInv' /\ CallInv /\ HandlerOk(h) /\ InStore(h) /\ Trouble' \in BOOLEAN
      /\ handler[h].i \in 1..Len(conf.stores) /\ Passed(h) /\ Len(conf.stores) \in Nat
      /\ Id(h) \in Ids
  <2>1. TypeInv /\ TypeInv' /\ CallInv /\ HandlerOk(h) /\ InStore(h) /\ Op(h) # "none"
    BY DEF ServerInv, HandlerInv, InStore
  <2>2. Trouble' \in BOOLEAN
    BY Zenon DEF Trouble
  <2>3. Id(h) \in Ids
    BY <2>1, CallFacts
  <2> QED
    BY <2>1, <2>2, <2>3, ConfFacts DEF HandlerOk
<1>1. Avail' = Avail /\ Extra' = Extra
  BY SameStores
<1>2. Has(h) => Id(h) \in Avail
  BY <1>0, ConfFacts DEF Has, StoreOf, Avail, InStores
<1>3. /\ ~Has(h) /\ handler[h].i = Len(conf.stores) /\ (Op(h) = "get" \/ ~Trouble)
      => Id(h) \notin Avail
  <2> SUFFICES ASSUME ~Has(h), handler[h].i = Len(conf.stores), Op(h) = "get" \/ ~Trouble,
                      NEW s \in Range(conf.stores), Id(h) \in held[s]
               PROVE  FALSE
    BY DEF Avail, InStores
  <2>1. PICK j \in 1..Len(conf.stores) : s = conf.stores[j]
    BY <1>0, ConfFacts DEF Range
  <2>2. CASE j = handler[h].i
    BY <2>1, <2>2 DEF Has, StoreOf
  <2>3. CASE j # handler[h].i
    <3>1. j \in 1..(handler[h].i - 1)
      BY <1>0, <2>1, <2>3
    <3> QED
      BY <1>0, <2>1, <3>1 DEF Passed
  <2> QED
    BY <2>2, <2>3
<1>4. Id(h) \in Extra => Trouble
  BY <1>0 DEF Extra, HandlerOk
<1>5. ASSUME handler'[h].at = "replied", handler'[h].status < 500
      PROVE  ResultOf(Op(h), handler'[h]) \in Allowed(Op(h), Id(h), Trouble')
  <2>1. CASE a = "no" /\ handler[h].i = Len(conf.stores) /\ handler'[h].status = 404
    <3>1. CASE Op(h) = "get"
      <4>1. Id(h) \notin Avail
        BY <1>3, <2>1, <3>1
      <4> QED
        BY <1>0, <1>4, <2>1, <3>1, <4>1, ResultIs, AllowedFacts
    <3>2. CASE Op(h) = "has"
      <4>1. Id(h) \notin Avail \cup Extra \/ Trouble'
        BY <1>3, <1>4, <2>1, <3>2
      <4> QED
        BY <1>0, <2>1, <3>2, <4>1, ResultIs, AllowedFacts
    <3> QED
      BY <3>1, <3>2
  <2>2. CASE a = "yes" /\ handler'[h].status = 200 /\ handler'[h].body = "good"
    BY <1>0, <1>2, <2>2, ResultIs, AllowedFacts
  <2> QED
    BY <1>0, <1>5, <2>1, <2>2, RoutedEffect
<1> QED
  BY <1>1, <1>5, HandlerImplements

\* The steps of a handler that do not answer anything.
LEMMA QuietImplements ==
    ASSUME ServerInv, ServerInv', NEW h \in Handlers, Frame(h), handler[h].at # "replied",
           UNCHANGED <<held, cache>>, Trouble => Trouble',
           \/ handler'[h].at # "replied" \/ handler'[h].status = 500 \/ Refused(h[1], Op(h))
    PROVE  [Service!Next]_Service!vars
<1>1. Avail' = Avail /\ Extra' = Extra
  BY SameStores DEF Frame
<1> QED
  BY <1>1, HandlerImplements

\* The cache answers.
LEMMA AskCacheImplements ==
    ASSUME ServerInv, ServerInv', NEW h \in Handlers, AskCache(h)
    PROVE  [Service!Next]_Service!vars
<1>0. /\ TypeInv /\ CallInv /\ HandlerOk(h) /\ TroubleInv /\ handler[h].at = "cache"
      /\ Op(h) # "none" /\ Op(h) \in Ops /\ Id(h) \in Ids /\ conf.cached
      /\ ~Refused(h[1], Op(h))
  BY CallFacts DEF ServerInv, HandlerInv, AskCache, HandlerOk, InStore
<1>1. Frame(h) /\ UNCHANGED <<held, cache, pool, died>> /\ faults' \in Nat /\ faults' >= faults
  BY <1>0, AskCacheEffect
<1>2. Trouble => Trouble'
  BY <1>0, <1>1 DEF Trouble, TypeInv
<1>3. Avail' = Avail /\ Extra' = Extra
  BY <1>1, SameStores DEF Frame
<1>4. Op(h) # "put"
  BY <1>0, ConfFacts DEF Refused
<1>5. Trouble' \in BOOLEAN
  BY Zenon DEF Trouble
<1>6. cache[Id(h)] = "good" => Id(h) \in Avail \cup Extra
  BY <1>0 DEF Avail, Extra
<1>7. cache[Id(h)] = "bad" => Trouble'
  BY <1>0, <1>2 DEF TroubleInv, Trouble
<1>8. ASSUME handler'[h].at = "replied", handler'[h].status < 500
      PROVE  ResultOf(Op(h), handler'[h]) \in Allowed(Op(h), Id(h), Trouble')
  <2>1. /\ handler'[h].status = 200 /\ handler'[h].body = cache[Id(h)]
        /\ cache[Id(h)] \in {"good", "bad"}
    BY <1>0, <1>8, AskCacheEffect
  <2>2. CASE Op(h) = "get"
    BY <1>5, <1>6, <1>7, <2>1, <2>2, ResultIs, AllowedFacts DEF Ops
  <2>3. CASE Op(h) = "has"
    BY <1>5, <1>6, <1>7, <2>1, <2>3, ResultIs, AllowedFacts
  <2> QED
    BY <1>0, <1>4, <2>2, <2>3 DEF Ops
<1> QED
  BY <1>0, <1>1, <1>2, <1>3, <1>8, HandlerImplements

\* A chunk that was got from a store is handed on, whether or not it could be kept.
LEMMA FillCacheImplements ==
    ASSUME ServerInv, ServerInv', NEW h \in Handlers, FillCache(h), Frame(h), Grows
    PROVE  [Service!Next]_Service!vars
<1>0. /\ TypeInv /\ CallInv /\ HandlerOk(h) /\ handler[h].at = "fill" /\ Op(h) = "get"
      /\ Id(h) \in Ids /\ InStores(Id(h)) /\ UNCHANGED <<opt, held, conf, swap, pool, call, died>>
      /\ cache \in [Ids -> {"none", "good", "bad"}] /\ (Trouble => Trouble')
  BY CallFacts DEF ServerInv, HandlerInv, FillCache, HandlerOk, TypeInv, Grows
<1>1. CASE Reply(h, 500, "none") /\ UNCHANGED cache
  <2>1. handler'[h].status = 500
    BY <1>0, <1>1, ReplyEffect
  <2> QED
    BY <1>0, <1>1, <2>1, QuietImplements
<1>2. CASE cache' = [cache EXCEPT ![Id(h)] = "good"] /\ Reply(h, 200, "good")
  <2>1. handler'[h].status = 200 /\ handler'[h].body = "good"
    BY <1>0, <1>2, ReplyEffect
  <2>2. Avail' = Avail /\ Extra' = Extra
    BY <1>0, <1>2 DEF Avail, Extra, InStores
  <2>3. Id(h) \in Avail
    BY <1>0 DEF Avail
  <2>4. Trouble' \in BOOLEAN
    BY Zenon DEF Trouble
  <2>5. ResultOf(Op(h), handler'[h]) \in Allowed(Op(h), Id(h), Trouble')
    BY <1>0, <2>1, <2>3, <2>4, ResultIs, AllowedFacts
  <2> QED
    BY <1>0, <2>2, <2>5, HandlerImplements
<1> QED
  BY <1>1, <1>2 DEF FillCache

\* The end of a write that succeeded, or did not.
LEMMA StoredImplements ==
    ASSUME ServerInv, ServerInv', NEW h \in Handlers, Stored(h), Frame(h), Grows
    PROVE  [Service!Next]_Service!vars
<1>0. /\ TypeInv /\ CallInv /\ HandlerOk(h) /\ handler[h].at = "stored" /\ Op(h) = "put"
      /\ Id(h) \in Ids /\ InStores(Id(h)) /\ (Trouble => Trouble')
      /\ UNCHANGED <<opt, held, cache, conf, swap, pool, call, died>>
  BY CallFacts DEF ServerInv, HandlerInv, Stored, HandlerOk, Grows
<1>1. CASE Reply(h, 500, "none")
  <2>1. handler'[h].status = 500
    BY <1>0, <1>1, ReplyEffect
  <2> QED
    BY <1>0, <2>1, QuietImplements
<1>2. CASE Reply(h, 200, "none")
  <2>1. handler'[h].status = 200
    BY <1>0, <1>2, ReplyEffect
  <2>2. Avail' = Avail /\ Extra' = Extra
    BY <1>0, SameStores
  <2>3. Id(h) \in Avail
    BY <1>0 DEF Avail
  <2>4. Trouble' \in BOOLEAN
    BY Zenon DEF Trouble
  <2>5. ResultOf(Op(h), handler'[h]) \in Allowed(Op(h), Id(h), Trouble')
    BY <1>0, <2>1, <2>3, <2>4, ResultIs, AllowedFacts
  <2> QED
    BY <1>0, <2>2, <2>5, HandlerImplements
<1> QED
  BY <1>1, <1>2 DEF Stored

\* The write itself makes the chunk available.
LEMMA PutChunkImplements ==
    ASSUME ServerInv, ServerInv', NEW h \in Handlers, PutChunk(h), Frame(h), Grows, opt.writable
    PROVE  [Service!Next]_Service!vars
<1> DEFINE c == h[1]
<1>0. /\ TypeInv /\ CallInv /\ HandlerOk(h) /\ handler[h].at = "router" /\ Op(h) = "put"
      /\ Id(h) \in Ids /\ (Trouble => Trouble') /\ ~Refused(c, Op(h))
      /\ UNCHANGED <<opt, cache, conf, swap, pool, call, died>> /\ c \in Clients /\ ~conf.cached
      /\ StoreOf(h) \in Range(conf.stores) /\ StoreOf(h) \in Stores
      /\ held \in [Stores -> SUBSET Ids] /\ handler[h] \in HandlerTypes
      /\ handler \in [Handlers -> HandlerTypes]
  BY CallFacts, ConfFacts, HandlerPair
  DEF ServerInv, HandlerInv, PutChunk, HandlerOk, Grows, InStore, TypeInv, StoreOf
<1>1. CASE UNCHANGED held /\ Reply(h, 500, "none")
  <2>1. handler'[h].status = 500
    BY <1>0, <1>1, ReplyEffect
  <2> QED
    BY <1>0, <1>1, <2>1, QuietImplements
<1>2. CASE /\ held' = [held EXCEPT ![StoreOf(h)] = @ \cup {Id(h)}]
           /\ handler' = [handler EXCEPT ![h].at = "stored"]
           /\ UNCHANGED faults
  <2>1. Avail' = Avail \cup {Id(h)}
    <3>1. \A s \in Range(conf.stores) : s \in Stores
      BY <1>0, ConfFacts DEF Range
    <3> QED
      BY <1>0, <1>2, <3>1 DEF Avail, InStores
  <2>2. Extra' = Extra
    BY <1>0 DEF Extra
  <2>3. Trouble' = Trouble
    BY <1>0, <1>2 DEF Trouble
  <2>4. handler'[h].at = "stored" /\ \A k \in Handlers : k # h => handler'[k] = handler[k]
    BY <1>0, <1>2 DEF HandlerTypes
  <2>5. ASSUME NEW d \in Clients PROVE AnswerTo(d)' = AnswerTo(d)
    <3>1. Refused(d, call[d].op)' = Refused(d, call[d].op) /\ Waiting(d)' = Waiting(d)
      BY <1>0 DEF Refused, Waiting
    <3>2. CASE call[d].op = "none"
      <4>1. call[d].result = "none"
        BY <1>0, <3>2 DEF CallInv
      <4> QED
        BY <1>0, <3>1, <3>2, <4>1 DEF AnswerTo, Waiting
    <3>3. CASE call[d].op # "none" /\ <<d, call[d].attempt>> = h
      <4>1. Current(d).at = "router" /\ Current(d)'.at = "stored"
        BY <1>0, <2>4, <3>3 DEF Current
      <4> QED
        BY <1>0, <3>1, <4>1 DEF AnswerTo
    <3>4. CASE call[d].op # "none" /\ <<d, call[d].attempt>> # h
      <4>1. handler'[<<d, call[d].attempt>>] = handler[<<d, call[d].attempt>>]
        BY <1>0, <2>4, <3>4, CurrentFacts
      <4> QED
        BY <1>0, <4>1, AnswerKeeps
    <3> QED
      BY <3>2, <3>3, <3>4
  <2>6. Calls' = Calls
    BY <1>0, <2>5, SameCalls
  <2>7. Calls[c].op = "put" /\ Calls[c].id = Id(h) /\ Calls[c].answer # "refused"
    <3>1. Calls[c].op = "put" /\ Calls[c].id = Id(h) /\ Calls[c].answer = AnswerTo(c)
      BY <1>0 DEF Calls, Op, Id
    <3>2. ~Refused(c, call[c].op)
      BY <1>0 DEF Op
    <3>3. ResultOf(call[c].op, Current(c)) # "refused"
      BY ResultFacts
    <3>4. call[c].result # "refused"
      BY <1>0 DEF TypeInv, Results
    <3> QED
      BY <3>1, <3>2, <3>3, <3>4 DEF AnswerTo
  <2>8. Service!Store
    BY <1>0, <2>1, <2>2, <2>3, <2>6, <2>7 DEF Service!Store
  <2> QED
    BY <2>8 DEF Service!Next
<1> QED
  BY <1>1, <1>2 DEF PutChunk

\* Every step of a handler is one of the service, or changes nothing of it.
LEMMA HandlerRefines ==
    ASSUME ServerInv, NEW h \in Handlers, Handler(h)
    PROVE  [Service!Next]_Service!vars
<1>0. /\ TypeInv /\ CallInv /\ TroubleInv /\ HandlerOk(h) /\ ServerInv'
  BY HandlerKeeps DEF ServerInv, HandlerInv
<1>1. CASE Refuse(h)
  <2>1. /\ Frame(h) /\ Grows /\ UNCHANGED <<held, cache>> /\ handler[h].at # "replied"
        /\ Refused(h[1], Op(h))
    BY <1>1, RefuseKeeps DEF Refuse
  <2> QED
    BY <1>0, <2>1, QuietImplements DEF Grows
<1>2. CASE RLock(h)
  <2>1. /\ Frame(h) /\ Grows /\ UNCHANGED <<held, cache>> /\ handler[h].at # "replied"
        /\ handler'[h].at # "replied"
    BY <1>2, RLockKeeps DEF RLock
  <2> QED
    BY <1>0, <2>1, QuietImplements DEF Grows
<1>3. CASE AskCache(h)
  BY <1>0, <1>3, AskCacheImplements
<1>4. CASE AskStore(h)
  <2>1. Frame(h) /\ Grows
    BY <1>4, AskStoreKeeps
  <2>2. PICK a \in {"yes", "no", "error"} :
          /\ Routed(h, a) /\ (a = "yes" => Has(h))
          /\ a = "no" => ~Has(h) \/ (Op(h) = "has" /\ Trouble')
          /\ a = "error" => Trouble'
    BY <1>0, <1>4, AskStoreAnswer
  <2>3. /\ handler[h].at = "router" /\ Op(h) \in {"get", "has"}
        /\ UNCHANGED <<opt, held, cache, conf, swap, call>>
    BY <1>4 DEF AskStore
  <2> QED
    BY <1>0, <2>1, <2>2, <2>3, RoutedImplements DEF Grows
<1>5. CASE TakeSession(h)
  <2>1. /\ Frame(h) /\ Grows /\ UNCHANGED <<held, cache>> /\ handler[h].at # "replied"
        /\ handler'[h].at # "replied"
    BY <1>5, TakeSessionKeeps DEF TakeSession
  <2> QED
    BY <1>0, <2>1, QuietImplements DEF Grows
<1>6. CASE AskSession(h)
  <2>1. Frame(h) /\ Grows
    BY <1>6, AskSessionKeeps
  <2>2. /\ handler[h].at = "ssh" /\ Op(h) \in {"get", "has"}
        /\ UNCHANGED <<opt, held, cache, conf, swap, call>>
    BY <1>0, <1>6 DEF AskSession, HandlerOk
  <2>3. PICK a \in {"yes", "no", "error"}, left \in BOOLEAN :
          /\ Routed(h, a) /\ (a = "yes" => Has(h))
          /\ a = "no" => ~Has(h) /\ Op(h) = "get"
          /\ a # "yes" => Trouble'
    BY <1>0, <1>6, <2>2, AskSessionAnswer
  <2> QED
    BY <1>0, <2>1, <2>2, <2>3, RoutedImplements DEF Grows
<1>7. CASE FillCache(h)
  BY <1>0, <1>7, FillCacheKeeps, FillCacheImplements
<1>8. CASE PutChunk(h)
  BY <1>0, <1>8, PutChunkKeeps, PutChunkImplements
<1>9. CASE Stored(h)
  BY <1>0, <1>9, StoredKeeps, StoredImplements
<1> QED
  BY <1>1, <1>2, <1>3, <1>4, <1>5, <1>6, <1>7, <1>8, <1>9 DEF Handler

\* What clients see of what others do.
LEMMA OthersSee ==
    ASSUME TypeInv, CallInv, NEW c \in Clients, opt' = opt,
           \A d \in Clients : d # c => call'[d] = call[d],
           \A k \in Handlers : k[1] # c => handler'[k] = handler[k]
    PROVE  \A d \in Clients : d # c => AnswerTo(d)' = AnswerTo(d)
<1> SUFFICES ASSUME NEW d \in Clients, d # c PROVE AnswerTo(d)' = AnswerTo(d)
  OBVIOUS
<1>1. CASE call[d].op = "none"
  <2>1. call'[d].result = call[d].result /\ call[d].result = "none" /\ call'[d].op = "none"
    BY <1>1 DEF CallInv
  <2> QED
    BY <1>1, <2>1 DEF AnswerTo, Waiting
<1>2. CASE call[d].op # "none"
  <2>1. <<d, call[d].attempt>> \in Handlers /\ <<d, call[d].attempt>>[1] = d
    BY <1>2, CurrentFacts
  <2>2. handler'[<<d, call[d].attempt>>] = handler[<<d, call[d].attempt>>]
    BY <2>1
  <2> QED
    BY <2>2, AnswerKeeps
<1> QED
  BY <1>1, <1>2

\* A new call.
LEMMA BeginRefines ==
    ASSUME ServerInv, NEW c \in Clients, Begin(c)
    PROVE  Service!Next
<1>0. /\ TypeInv /\ CallInv /\ UNCHANGED <<opt, held, cache, conf, swap, pool, died, faults>>
      /\ call[c].op = "none"
  BY DEF ServerInv, Begin, clientRest
<1>1. /\ \A d \in Clients : d # c => call'[d] = call[d]
      /\ call'[c].op \in Ops /\ call'[c].id \in Ids /\ call'[c].attempt = 1
      /\ call'[c].result = "wait"
      /\ <<c, 1>> \in Handlers /\ handler'[<<c, 1>>].at = "lock"
      /\ \A k \in Handlers : k # <<c, 1>> => handler'[k] = handler[k]
      /\ call[c].id = 0 /\ call[c].result = "none"
  BY <1>0, BeginEffect
<1>2. \A d \in Clients : d # c => AnswerTo(d)' = AnswerTo(d)
  <2>1. \A k \in Handlers : k[1] # c => handler'[k] = handler[k]
    BY <1>1
  <2> QED
    BY <1>0, <1>1, <2>1, OthersSee
<1>3. AnswerTo(c)' \in {"wait", "refused"}
  <2>1. Current(c)'.at = "lock"
    BY <1>1 DEF Current
  <2> QED
    BY <1>1, <2>1 DEF AnswerTo, Waiting
<1>4. AnswerTo(c) = "none"
  BY <1>0, <1>1 DEF AnswerTo, Waiting
<1>5. Calls[c] = Service!NoCall
  BY <1>0, <1>1, <1>4 DEF Calls, Service!NoCall
<1> DEFINE r == [op |-> call'[c].op, id |-> call'[c].id, answer |-> AnswerTo(c)']
<1>6. Calls' = [Calls EXCEPT ![c] = r]
  BY <1>1, <1>2 DEF Calls
<1>7. Avail' = Avail /\ Extra' = Extra
  BY <1>0, SameStores
<1>8. Trouble' = Trouble
  BY <1>0 DEF Trouble
<1>9. Service!Call(c)
  BY <1>0, <1>1, <1>3, <1>5, <1>6, <1>7, <1>8 DEF Service!Call, Service!Ops, Ops
<1> QED
  BY <1>9 DEF Service!Next

\* What a client that tries again, or gives up, has been answered.
LEMMA TryAgainAnswer ==
    ASSUME ServerInv, NEW c \in Clients, Waiting(c), UNCHANGED clientRest,
           NEW hs \in [Handlers -> HandlerTypes], TryAgain(c, hs),
           \A k \in Handlers : handler[k] = NoHandler => hs[k] = NoHandler,
           \A k \in Handlers : k[1] # c => hs[k] = handler[k]
    PROVE  /\ Calls' = [Calls EXCEPT ![c].answer = AnswerTo(c)']
           /\ Avail' = Avail /\ Extra' = Extra /\ conf'.number = conf.number
           /\ \/ /\ AnswerTo(c) = "refused" /\ AnswerTo(c)' = "refused" /\ Calls' = Calls
              \/ /\ ~Refused(c, call[c].op) /\ call[c].op \in Ops
                 /\ \/ AnswerTo(c)' = "error" 
                    \/ AnswerTo(c)' = "wait" /\ (AnswerTo(c) = "wait" => Calls' = Calls)
<1>0. /\ TypeInv /\ CallInv /\ UNCHANGED <<opt, held, cache, conf, swap, pool, died>>
      /\ call[c].op # "none" /\ call[c].op \in Ops
  BY DEF ServerInv, clientRest, Waiting, CallInv, TypeInv
<1>1. /\ \A d \in Clients : d # c => call'[d] = call[d]
      /\ call'[c].op = call[c].op /\ call'[c].id = call[c].id
  BY <1>0, TryAgainEffect
<1>2. /\ \A k \in Handlers : k[1] # c => handler'[k] = handler[k]
      /\ \/ call'[c].result = "error"
         \/ call'[c].result = "wait" /\ Current(c)'.at = "lock"
  <2>1. CASE call'[c].result = "error" /\ handler' = hs
    BY <2>1
  <2>2. CASE LET h == <<c, call[c].attempt + 1>> IN
                /\ call'[c].result = "wait" /\ call'[c].attempt = call[c].attempt + 1
                /\ h \in Handlers /\ handler'[h].at = "lock"
                /\ \A k \in Handlers : k # h => handler'[k] = hs[k]
    <3>1. Current(c)'.at = "lock"
      BY <2>2 DEF Current
    <3>2. \A k \in Handlers : k[1] # c => handler'[k] = handler[k]
      BY <2>2
    <3> QED
      BY <2>2, <3>1, <3>2
  <2> QED
    BY <1>0, <2>1, <2>2, TryAgainEffect
<1>3. \A d \in Clients : d # c => AnswerTo(d)' = AnswerTo(d)
  BY <1>0, <1>1, <1>2, OthersSee
<1>4. \A d \in Clients : call'[d].op = call[d].op /\ call'[d].id = call[d].id
  BY <1>1
<1>5. Calls' = [Calls EXCEPT ![c].answer = AnswerTo(c)']
  BY <1>3, <1>4, OneAnswer
<1>6. AnswerTo(c)' = AnswerTo(c) => Calls' = Calls
  BY <1>3, <1>4, SameCalls
<1>7. Avail' = Avail /\ Extra' = Extra
  BY <1>0, SameStores
<1>8. Refused(c, call[c].op)' = Refused(c, call[c].op)
  BY <1>0, <1>1 DEF Refused
<1>9. CASE Refused(c, call[c].op)
  <2>1. AnswerTo(c) = "refused" /\ AnswerTo(c)' = "refused"
    BY <1>0, <1>1, <1>8, <1>9 DEF AnswerTo
  <2> QED
    BY <1>0, <1>5, <1>6, <1>7, <2>1
<1>10. CASE ~Refused(c, call[c].op)
  <2>1. AnswerTo(c)' = "error" \/ AnswerTo(c)' = "wait"
    BY <1>2, <1>8, <1>10 DEF AnswerTo, Waiting
  <2> QED
    BY <1>0, <1>5, <1>6, <1>7, <1>10, <2>1
<1> QED
  BY <1>9, <1>10

\* A response: the service has answered when the handler has replied.
LEMMA RespondRefines ==
    ASSUME ServerInv, NEW c \in Clients, Respond(c)
    PROVE  [Service!Next]_Service!vars
<1>0. /\ TypeInv /\ TypeInv' /\ CallInv /\ TroubleInv /\ Waiting(c) /\ UNCHANGED clientRest
      /\ Current(c).at = "replied" /\ UNCHANGED faults /\ handler \in [Handlers -> HandlerTypes]
      /\ UNCHANGED <<opt, held, cache, conf, swap, pool, died>>
  BY RespondKeeps DEF ServerInv, Respond, TypeInv, clientRest
<1>1. /\ <<c, call[c].attempt>> \in Handlers /\ Current(c) = handler[<<c, call[c].attempt>>]
      /\ Current(c) \in HandlerTypes /\ call[c].op # "none"
  <2>1. call[c].op # "none"
    BY <1>0 DEF CallInv, Waiting
  <2> QED
    BY <1>0, <2>1, CurrentFacts
<1>2. Trouble' = Trouble
  BY <1>0 DEF Trouble
<1>3. CASE Current(c).status >= 500 /\ TryAgain(c, handler)
  <2>1. Trouble
    BY <1>0, <1>1, <1>3 DEF TroubleInv
  <2>2. ~(Current(c).status < 500)
    BY <1>1, <1>3 DEF HandlerTypes
  <2>3. AnswerTo(c) = "wait" \/ AnswerTo(c) = "refused"
    BY <1>0, <2>2 DEF AnswerTo, Waiting
  <2>4. /\ Calls' = [Calls EXCEPT ![c].answer = AnswerTo(c)']
        /\ Avail' = Avail /\ Extra' = Extra /\ conf'.number = conf.number
        /\ \/ /\ AnswerTo(c) = "refused" /\ AnswerTo(c)' = "refused" /\ Calls' = Calls
           \/ /\ ~Refused(c, call[c].op) /\ call[c].op \in Ops
              /\ \/ AnswerTo(c)' = "error" 
                 \/ AnswerTo(c)' = "wait" /\ (AnswerTo(c) = "wait" => Calls' = Calls)
    BY <1>0, <1>3, TryAgainAnswer
  <2>5. CASE Calls' = Calls
    BY <1>0, <1>2, <2>4, <2>5, AbsSame
  <2>6. CASE /\ ~Refused(c, call[c].op) /\ call[c].op \in Ops /\ AnswerTo(c)' = "error"
    <3>1. AnswerTo(c) = "wait"
      BY <1>0, <2>2, <2>6 DEF AnswerTo, Waiting
    <3>2. Trouble' \in BOOLEAN
      BY Zenon DEF Trouble
    <3>3. "error" \in Allowed(call[c].op, call[c].id, Trouble')
      BY <1>2, <2>1, <2>6, <3>2, AllowedFacts
    <3>4. Service!Next
      BY <1>2, <2>4, <2>6, <3>1, <3>3, AbsAnswer
    <3> QED
      BY <3>4
  <2>7. ~Refused(c, call[c].op) => AnswerTo(c) = "wait"
    BY <1>0, <2>2 DEF AnswerTo, Waiting
  <2> QED
    BY <2>4, <2>5, <2>6, <2>7
<1>4. CASE /\ ~(Current(c).status >= 500) /\ UNCHANGED handler
           /\ call' = [call EXCEPT ![c].result = ResultOf(call[c].op, Current(c))]
  <2> DEFINE v == ResultOf(call[c].op, Current(c))
  <2>1. v \in Results /\ v # "wait"
    <3>1. v \in {"missing", "no", "error", "yes", "ok", "chunk"}
      BY ResultFacts
    <3> HIDE DEF v
    <3> QED
      BY <3>1 DEF Results
  <2> HIDE DEF v
  <2>2. /\ call'[c].result = v /\ call'[c].op = call[c].op /\ call'[c].id = call[c].id
        /\ \A d \in Clients : d # c => call'[d] = call[d]
    BY <1>0, <1>4, <2>1, AnswerEffect DEF v
  <2>3. Refused(c, call[c].op)' = Refused(c, call[c].op)
    BY <1>0, <2>2 DEF Refused
  <2>4. Current(c).status < 500
    BY <1>1, <1>4 DEF HandlerTypes
  <2>5. AnswerTo(c) = IF Refused(c, call[c].op) THEN "refused" ELSE v
    BY <1>0, <1>1, <2>4 DEF AnswerTo, v
  <2>6. AnswerTo(c)' = IF Refused(c, call[c].op) THEN "refused" ELSE v
    BY <1>1, <2>1, <2>2, <2>3 DEF AnswerTo, Waiting
  <2>7. \A d \in Clients : d # c => AnswerTo(d)' = AnswerTo(d)
    BY <1>0, <1>4, <2>2, OthersSee
  <2>8. Calls' = Calls
    BY <2>2, <2>5, <2>6, <2>7, SameCalls
  <2>9. Avail' = Avail /\ Extra' = Extra
    BY <1>0, SameStores
  <2> QED
    BY <1>0, <1>2, <2>8, <2>9, AbsSame
<1> QED
  BY <1>3, <1>4 DEF Respond

\* Trying again after a time out.
LEMMA GiveUpRefines ==
    ASSUME ServerInv, TypeInv', NEW c \in Clients, Waiting(c), UNCHANGED clientRest, Trouble',
           NEW hs \in [Handlers -> HandlerTypes], TryAgain(c, hs),
           \A k \in Handlers : handler[k] = NoHandler => hs[k] = NoHandler,
           \A k \in Handlers : k[1] # c => hs[k] = handler[k]
    PROVE  [Service!Next]_Service!vars
<1>0. TypeInv
  BY DEF ServerInv
<1>1. /\ Calls' = [Calls EXCEPT ![c].answer = AnswerTo(c)']
      /\ Avail' = Avail /\ Extra' = Extra /\ conf'.number = conf.number
      /\ \/ /\ AnswerTo(c) = "refused" /\ AnswerTo(c)' = "refused" /\ Calls' = Calls
         \/ /\ ~Refused(c, call[c].op) /\ call[c].op \in Ops
            /\ \/ AnswerTo(c)' = "error" 
               \/ AnswerTo(c)' = "wait" /\ (AnswerTo(c) = "wait" => Calls' = Calls)
  BY TryAgainAnswer
<1>2. CASE Calls' = Calls
  BY <1>0, <1>1, <1>2, AbsSame
<1>3. CASE /\ ~Refused(c, call[c].op) /\ call[c].op \in Ops /\ AnswerTo(c) = "wait"
           /\ AnswerTo(c)' = "error"
  <2>1. Trouble' \in BOOLEAN
    BY Zenon DEF Trouble
  <2>2. "error" \in Allowed(call[c].op, call[c].id, Trouble')
    BY <1>3, <2>1, AllowedFacts
  <2>3. Service!Next
    BY <1>1, <1>3, <2>2, AbsAnswer
  <2> QED
    BY <2>3
<1>4. CASE /\ ~Refused(c, call[c].op) /\ AnswerTo(c) # "wait"
           /\ AnswerTo(c)' \in {"error", "wait"}
  <2>1. AnswerTo(c) \notin {"none", "wait", "refused"}
    <3>1. AnswerTo(c) = ResultOf(call[c].op, Current(c))
      BY <1>4 DEF AnswerTo, Waiting
    <3>2. ResultOf(call[c].op, Current(c)) \in {"missing", "no", "error", "yes", "ok", "chunk"}
      BY ResultFacts
    <3> QED
      BY <3>1, <3>2
  <2>2. Service!Next
    BY <1>1, <1>4, <2>1, AbsLose
  <2> QED
    BY <2>2
<1> QED
  BY <1>1, <1>2, <1>3, <1>4

\* A time out: the answer is lost, or there is none yet.
LEMMA TimeOutRefines ==
    ASSUME ServerInv, NEW c \in Clients, TimeOut(c)
    PROVE  [Service!Next]_Service!vars
<1>0. /\ TypeInv /\ TypeInv' /\ CallInv /\ UNCHANGED clientRest /\ Waiting(c)
      /\ handler \in [Handlers -> HandlerTypes] /\ Trouble'
  BY FaultFacts, TimeOutKeeps DEF ServerInv, TypeInv, TimeOut
<1>1. CASE TryAgain(c, handler)
  BY <1>0, <1>1, GiveUpRefines
<1>2. CASE TryAgain(c, [handler EXCEPT ![<<c, call[c].attempt>>] = NoHandler])
  <2> DEFINE hs == [handler EXCEPT ![<<c, call[c].attempt>>] = NoHandler]
  <2>1. /\ hs \in [Handlers -> HandlerTypes] /\ <<c, call[c].attempt>> \in Handlers
        /\ hs[<<c, call[c].attempt>>] = NoHandler
        /\ \A k \in Handlers : k # <<c, call[c].attempt>> => hs[k] = handler[k]
    BY <1>0, LostRequest
  <2>2. TryAgain(c, hs)
    BY <1>2
  <2> HIDE DEF hs
  <2>3. /\ \A k \in Handlers : handler[k] = NoHandler => hs[k] = NoHandler
        /\ \A k \in Handlers : k[1] # c => hs[k] = handler[k]
    BY <2>1
  <2> QED
    BY <1>0, <2>1, <2>2, <2>3, GiveUpRefines
<1> QED
  BY <1>1, <1>2 DEF TimeOut

\* Answers depend on the calls and the handlers only.
LEMMA SameHandlers ==
    ASSUME UNCHANGED <<opt, call, handler>>
    PROVE  Calls' = Calls
<1>1. \A c \in Clients : AnswerTo(c)' = AnswerTo(c)
  BY AnswerKeeps
<1> QED
  BY <1>1, SameCalls

\* Opening stores, swapping them, and damage.
LEMMA OtherRefines ==
    ASSUME ServerInv, Reload \/ Swap \/ Damage
    PROVE  [Service!Next]_Service!vars
<1>0. /\ TypeInv /\ Calls' = Calls
  BY SameHandlers DEF ServerInv, Reload, Swap, Damage
<1>1. CASE Reload
  <2>1. UNCHANGED <<held, cache, conf, died, faults>>
    BY <1>1 DEF Reload
  <2>2. Avail' = Avail /\ Extra' = Extra
    BY <2>1, SameStores
  <2>3. Trouble' = Trouble
    BY <2>1 DEF Trouble
  <2> QED
    BY <1>0, <2>1, <2>2, <2>3 DEF Service!vars
<1>2. CASE Swap
  <2>1. conf'.number = conf.number + 1 /\ UNCHANGED <<died, faults>>
    BY <1>0, <1>2 DEF Swap, TypeInv
  <2>2. Avail' \in SUBSET Ids /\ Extra' \in SUBSET Ids
    BY DEF Avail, Extra
  <2>3. Trouble' = Trouble
    BY <2>1 DEF Trouble
  <2>4. Service!Configure
    BY <1>0, <2>1, <2>2, <2>3 DEF Service!Configure
  <2> QED
    BY <2>4 DEF Service!Next
<1>3. CASE Damage
  <2>1. UNCHANGED <<held, conf>> /\ Trouble'
    BY <1>0, <1>3, FaultFacts DEF Damage
  <2>2. PICK id \in Ids : cache[id] = "good" /\ cache' = [cache EXCEPT ![id] = "bad"]
    BY <1>3 DEF Damage
  <2>3. Avail' = Avail /\ Extra' \subseteq Extra
    BY <1>0, <2>1, <2>2 DEF Avail, Extra, InStores, TypeInv
  <2>4. Service!Next
    BY <1>0, <2>1, <2>3, AbsWrong
  <2> QED
    BY <2>4
<1> QED
  BY <1>1, <1>2, <1>3

\* At first no client has called, and the cache is empty.
LEMMA InitRefines == Init => Service!Init
<1> SUFFICES ASSUME Init PROVE Service!Init
  OBVIOUS
<1>1. PICK o \in Options, f \in Configs :
         /\ conf = Conf(f, 0) /\ cache = [id \in Ids |-> "none"]
         /\ call = [c \in Clients |-> [op |-> "none", id |-> 0, attempt |-> 0, result |-> "none"]]
         /\ died = FALSE /\ faults = 0
  BY DEF Init
<1>2. Avail \in SUBSET Ids /\ Extra = {}
  BY <1>1 DEF Avail, Extra
<1>3. \A c \in Clients : AnswerTo(c) = "none"
  BY <1>1 DEF AnswerTo, Waiting
<1>4. Calls = [c \in Clients |-> Service!NoCall]
  BY <1>1, <1>3 DEF Calls, Service!NoCall
<1>5. conf.number = 0
  BY <1>1 DEF Conf
<1>6. Trouble = FALSE
  BY <1>1 DEF Trouble
<1> QED
  BY <1>2, <1>4, <1>5, <1>6 DEF Service!Init

\* Every step of the server is a step of the service, or changes nothing of it.
LEMMA NextRefines == ServerInv /\ [Next]_vars => [Service!Next]_Service!vars
<1> SUFFICES ASSUME ServerInv, [Next]_vars PROVE [Service!Next]_Service!vars
  OBVIOUS
<1>1. ASSUME NEW c \in Clients, Client(c) PROVE [Service!Next]_Service!vars
  BY <1>1, BeginRefines, RespondRefines, TimeOutRefines DEF Client
<1>2. ASSUME NEW h \in Clients \X Attempts, Handler(h) PROVE [Service!Next]_Service!vars
  BY <1>2, HandlerRefines DEF Handlers
<1>3. CASE UNCHANGED vars
  <2>1. UNCHANGED <<opt, held, cache, conf, call, handler, died, faults>>
    BY <1>3 DEF vars
  <2>2. Avail' = Avail /\ Extra' = Extra
    BY <2>1, SameStores
  <2>3. Calls' = Calls
    BY <2>1, SameHandlers
  <2>4. Trouble' = Trouble
    BY <2>1 DEF Trouble
  <2> QED
    BY <2>1, <2>2, <2>3, <2>4 DEF Service!vars
<1> QED
  BY <1>1, <1>2, <1>3, OtherRefines DEF Next, Answered

\* The server with its clients, cache, router, stores and sessions is a
\* ChunkService: a chunk that some store of the configuration has is never reported
\* missing, damaged chunks never reach a client, and without failures every answer
\* is right.
THEOREM ServerIsService == Spec => ImplementsChunkService
BY ServerInvariance, InitRefines, NextRefines, PTL DEF Spec, ImplementsChunkService, Service!Spec

=============================================================================
