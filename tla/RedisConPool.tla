---------------------------- MODULE RedisConPool ----------------------------
(***************************************************************************)
(* RedisConPool under RedisMgr::execCommand (redismgr.cc), at the grain of *)
(* RpcConPool: a step runs from one point where another thread can         *)
(* interfere to the next.  Two things set this pool apart.  A context that *)
(* a command broke is freed and, if Redis can be reached, replaced outside *)
(* the mutex.  And close() sets m_isStop and notifies without the mutex,   *)
(* but it is called twice, by ~RedisMgr and by ~RedisConPool.              *)
(*                                                                         *)
(* A context is its address: redisFree gives the address back to the       *)
(* allocator, which may return it from the next redisConnect.              *)
(***************************************************************************)
EXTENDS Naturals, Sequences, FiniteSets

CONSTANTS Threads,   \* the IOContextPool threads, which run the handlers
          PoolSize,  \* m_poolSize
          Main,      \* the main thread, which runs the destructors
          NoThread   \* the owner of an unlocked m_mutex

ASSUME ConstantsAssumption ==
    /\ IsFiniteSet(Threads)
    /\ PoolSize \in Nat
    /\ Main \notin Threads
    /\ NoThread \notin Threads
    /\ Main # NoThread

NoContext == 0                 \* nullptr
Contexts  == 1..(PoolSize + 1) \* addresses: a new context need not take the one just freed

VARIABLES m_isStop,       \* that of the pool
          m_connections,  \* the queue of idle contexts
          mutex,          \* who has locked m_mutex
          pc,             \* where each thread is
          ctx,            \* ctx[t]: the context t's execCommand works with
          live,           \* the contexts allocated and not yet freed
          redis,          \* "up" if redisConnect and AUTH succeed, or "down"
          dtor,           \* how far the destructors have come
          closes          \* how often close() has returned

vars == <<m_isStop, m_connections, mutex, pc, ctx, live, redis, dtor, closes>>

PCs == {"idle", "lockGet", "pred", "block", "asleep", "take", "command", "broken",
        "lockRelease", "push", "undefined"}
DtorStages == {"open", "notify", "lock", "drain", "closed", "gone"}

Asleep == {t \in Threads : pc[t] = "asleep"}
Queued == {m_connections[i] : i \in DOMAIN m_connections}
Held   == {ctx[t] : t \in Threads} \ {NoContext}

-----------------------------------------------------------------------------
\* The constructor queues the contexts that could be connected.
Init == /\ m_isStop = FALSE
        /\ \E n \in 0..PoolSize : m_connections = [i \in 1..n |-> i] /\ live = 1..n
        /\ mutex = NoThread
        /\ pc = [t \in Threads |-> "idle"]
        /\ ctx = [t \in Threads |-> NoContext]
        /\ redis \in {"up", "down"}
        /\ dtor = "open"
        /\ closes = 0

Goto(t, from, to) == /\ pc[t] = from
                     /\ pc' = [pc EXCEPT ![t] = to]

Lock(t) == /\ dtor # "gone"
           /\ mutex = NoThread
           /\ mutex' = t

Unlock(t) == /\ mutex = t
             /\ mutex' = NoThread

contexts == <<m_connections, ctx, live>>
ending   == <<m_isStop, dtor, closes>>

\* A handler calls Get, and that execCommand.  m_isStop of RedisMgr is a plain bool: the
\* read races with ~RedisMgr and may miss what it writes.
Call(t) == /\ Goto(t, "idle", "lockGet")
           /\ UNCHANGED <<contexts, mutex, redis, ending>>

LockGet(t) == /\ Goto(t, "lockGet", "pred")
              /\ Lock(t)
              /\ UNCHANGED <<contexts, redis, ending>>

\* The predicate of m_conVar.wait.
TestPredicate(t) ==
    /\ dtor # "gone"
    /\ Goto(t, "pred", IF m_connections # <<>> \/ m_isStop THEN "take" ELSE "block")
    /\ UNCHANGED <<contexts, mutex, redis, ending>>

\* wait releases the mutex and blocks, in one step.
Block(t) == /\ dtor # "gone"
            /\ Goto(t, "block", "asleep")
            /\ Unlock(t)
            /\ UNCHANGED <<contexts, redis, ending>>

\* std::condition_variable may wake a waiter nobody notified.
SpuriousWake(t) == /\ dtor # "gone"
                   /\ Goto(t, "asleep", "lockGet")
                   /\ UNCHANGED <<contexts, mutex, redis, ending>>

\* The rest of getConnection.  If the pool is stopped execCommand gets nullptr and returns.
Take(t) == /\ dtor # "gone"
           /\ Unlock(t)
           /\ IF m_isStop
              THEN /\ Goto(t, "take", "idle")
                   /\ UNCHANGED <<m_connections, ctx>>
              ELSE /\ Goto(t, "take", "command")
                   /\ ctx' = [ctx EXCEPT ![t] = Head(m_connections)]
                   /\ m_connections' = Tail(m_connections)
           /\ UNCHANGED <<live, redis, ending>>

\* redisCommand returns; releaseConnection finds the context healthy, or ctx->err set.
Command(t) == /\ \/ Goto(t, "command", "lockRelease")
                 \/ Goto(t, "command", "broken")
              /\ UNCHANGED <<contexts, mutex, redis, ending>>

\* Mutant of Replace: a broken context is thrown away and that is all.
DiscardBroken(t) == /\ dtor # "gone"
                    /\ Goto(t, "broken", "idle")
                    /\ ctx' = [ctx EXCEPT ![t] = NoContext]
                    /\ live' = live \ {ctx[t]}
                    /\ UNCHANGED <<m_connections, mutex, redis, ending>>

\* Mutant of Replace: the result of createConnection is not tested for nullptr.
ReplaceUntested(t) ==
    /\ dtor # "gone"
    /\ Goto(t, "broken", "lockRelease")
    /\ \E new \in IF redis = "up" THEN Contexts \ (live \ {ctx[t]}) ELSE {NoContext} :
          /\ ctx' = [ctx EXCEPT ![t] = new]
          /\ live' = (live \ {ctx[t]}) \cup ({new} \ {NoContext})
    /\ UNCHANGED <<m_connections, mutex, redis, ending>>

\* Mutant of Replace: the context is freed only once there is a new one.
ReplaceFirst(t) ==
    /\ dtor # "gone"
    /\ IF redis = "up"
       THEN \E new \in Contexts \ live : /\ Goto(t, "broken", "lockRelease")
                                         /\ ctx' = [ctx EXCEPT ![t] = new]
                                         /\ live' = (live \ {ctx[t]}) \cup {new}
       ELSE /\ Goto(t, "broken", "idle")
            /\ ctx' = [ctx EXCEPT ![t] = NoContext]
            /\ UNCHANGED live
    /\ UNCHANGED <<m_connections, mutex, redis, ending>>

\* A broken context is freed; createConnection makes a new one, with the pool's m_host and
\* m_port, if Redis can be reached.  The thread may stay before this step as long as the
\* attempt takes; the address is taken for free only after it.
Replace(t) ==
    /\ dtor # "gone"
    /\ IF redis = "up"
       THEN \E new \in Contexts \ (live \ {ctx[t]}) :
               /\ Goto(t, "broken", "lockRelease")
               /\ ctx' = [ctx EXCEPT ![t] = new]
               /\ live' = (live \ {ctx[t]}) \cup {new}
       ELSE /\ Goto(t, "broken", "idle")
            /\ ctx' = [ctx EXCEPT ![t] = NoContext]
            /\ live' = live \ {ctx[t]}
    /\ UNCHANGED <<m_connections, mutex, redis, ending>>

LockRelease(t) == /\ Goto(t, "lockRelease", "push")
                  /\ Lock(t)
                  /\ UNCHANGED <<contexts, redis, ending>>

\* Mutant of NotifyOne: releaseConnection forgets to notify.
NotifyNobody(t) == pc' = [pc EXCEPT ![t] = "idle"]

\* pc after t leaves releaseConnection having woken one waiter, if there is one.
NotifyOne(t) ==
    LET left == [pc EXCEPT ![t] = "idle"]
    IN  IF Asleep = {} THEN pc' = left
                       ELSE \E u \in Asleep : pc' = [left EXCEPT ![u] = "lockGet"]

\* Mutant of Push: m_isStop is not looked at again under the lock.
PushAnyway(t) == /\ dtor # "gone"
                 /\ pc[t] = "push"
                 /\ Unlock(t)
                 /\ ctx' = [ctx EXCEPT ![t] = NoContext]
                 /\ NotifyOne(t)
                 /\ m_connections' = Append(m_connections, ctx[t])
                 /\ UNCHANGED <<live, redis, ending>>

\* releaseConnection under the lock: queue the context, or free it if the pool is stopped.
Push(t) == /\ dtor # "gone"
           /\ pc[t] = "push"
           /\ Unlock(t)
           /\ ctx' = [ctx EXCEPT ![t] = NoContext]
           /\ IF m_isStop
              THEN /\ pc' = [pc EXCEPT ![t] = "idle"]
                   /\ live' = live \ {ctx[t]}
                   /\ UNCHANGED m_connections
              ELSE /\ NotifyOne(t)
                   /\ m_connections' = Append(m_connections, ctx[t])
                   /\ UNCHANGED live
           /\ UNCHANGED <<redis, ending>>

\* Redis goes down or comes back.
RedisChanges == /\ redis' \in {"up", "down"} \ {redis}
                /\ UNCHANGED <<contexts, mutex, pc, ending>>

-----------------------------------------------------------------------------
\* ~RedisMgr calls close(), and then ~RedisConPool calls it again.
DtorGoto(from, to) == /\ dtor = from
                      /\ dtor' = to

CloseStop == /\ closes < 2
             /\ \/ DtorGoto("open", "notify")
                \/ DtorGoto("closed", "notify")
             /\ m_isStop' = TRUE
             /\ UNCHANGED <<contexts, mutex, pc, redis, closes>>

\* Mutant of CloseNotifyAll: close() wakes one waiter only.
CloseNotifyOne ==
    /\ DtorGoto("notify", "lock")
    /\ IF Asleep = {} THEN UNCHANGED pc
                      ELSE \E u \in Asleep : pc' = [pc EXCEPT ![u] = "lockGet"]
    /\ UNCHANGED <<contexts, mutex, redis, m_isStop, closes>>

CloseNotifyAll ==
    /\ DtorGoto("notify", "lock")
    /\ pc' = [t \in Threads |-> IF pc[t] = "asleep" THEN "lockGet" ELSE pc[t]]
    /\ UNCHANGED <<contexts, mutex, redis, m_isStop, closes>>

CloseLock == /\ DtorGoto("lock", "drain")
             /\ Lock(Main)
             /\ UNCHANGED <<contexts, pc, redis, m_isStop, closes>>

\* Every queued context is freed.
CloseDrain == /\ DtorGoto("drain", "closed")
              /\ Unlock(Main)
              /\ m_connections' = <<>>
              /\ live' = live \ Queued
              /\ closes' = closes + 1
              /\ UNCHANGED <<ctx, pc, redis, m_isStop>>

\* The members of the pool, m_mutex and m_conVar among them, are gone.
DtorEnd == /\ closes = 2
           /\ DtorGoto("closed", "gone")
           /\ UNCHANGED <<contexts, mutex, pc, redis, m_isStop, closes>>

\* A thread is about to touch a member of the destroyed pool.
UseDestroyed(t) ==
    /\ dtor = "gone"
    /\ pc[t] \in {"lockGet", "pred", "block", "asleep", "take", "broken", "lockRelease",
                 "push"}
    /\ pc' = [pc EXCEPT ![t] = "undefined"]
    /\ UNCHANGED <<contexts, mutex, redis, ending>>

-----------------------------------------------------------------------------
\* What a thread does of its own accord once it is in the pool's code.
PoolStep(t) == \/ LockGet(t) \/ TestPredicate(t) \/ Block(t) \/ Take(t)
               \/ LockRelease(t) \/ Push(t) \/ UseDestroyed(t)

\* What it does with Redis, which may stay silent: no timeout is set on a command, nor on
\* redisConnect and the AUTH after it.
Talk(t) == Command(t) \/ Replace(t)

ThreadStep(t) == PoolStep(t) \/ Call(t) \/ SpuriousWake(t) \/ Talk(t)

CloseStep == CloseNotifyAll \/ CloseLock \/ CloseDrain \/ DtorEnd

Next == \/ \E t \in Threads : ThreadStep(t)
        \/ RedisChanges
        \/ CloseStop
        \/ CloseStep

Spec == Init /\ [][Next]_vars

\* The scheduler runs every runnable thread, and main once it is in the destructors.
Fairness == /\ \A t \in Threads : WF_vars(PoolStep(t))
            /\ WF_vars(CloseStep \/ (closes = 1 /\ CloseStop))

FairSpec == Spec /\ Fairness

-----------------------------------------------------------------------------
(* Properties.                                                             *)

TypeOK == /\ m_isStop \in BOOLEAN
          /\ m_connections \in Seq(Contexts)
          /\ mutex \in Threads \cup {Main, NoThread}
          /\ pc \in [Threads -> PCs]
          /\ ctx \in [Threads -> Contexts \cup {NoContext}]
          /\ live \subseteq Contexts
          /\ redis \in {"up", "down"}
          /\ dtor \in DtorStages
          /\ closes \in 0..2

\* A context is never in two places, though the address of a freed one is used again:
\* two threads on one redisContext would read each other's replies.
NoSharing ==
    /\ \A i, j \in DOMAIN m_connections : m_connections[i] = m_connections[j] => i = j
    /\ \A t \in Threads : ctx[t] \notin Queued
    /\ \A t, u \in Threads : ctx[t] = ctx[u] /\ ctx[t] # NoContext => t = u

\* Every context that is allocated is queued or in a call, so that it will be freed, and
\* every queued or lent context is allocated: no leak, no use after free, no second free,
\* whichever of close() and releaseConnection comes first.
NothingLeaks == live = Queued \cup Held

\* close() releases all connections (redismgr.h:34) for good: a call that was under way
\* does not queue its context afterwards.
StaysDrained == closes >= 1 => m_connections = <<>>

\* The second close() reaches the thread that the first may have missed between its test
\* of the predicate and its wait: nobody sleeps in a pool about to be destroyed.
SecondCloseWakesAll ==
    closes = 2 \/ (closes = 1 /\ dtor \in {"lock", "drain"}) => Asleep = {}

\* The threads that will look at the queue before they can fall asleep.
Coming == {t \in Threads : pc[t] \in {"lockGet", "pred", "take"}}

\* No wakeup is lost while the pool is open: if a thread sleeps in getConnection, at least
\* as many threads are on their way to the queue as it has contexts.
NoLostWakeup ==
    ~m_isStop /\ Asleep # {} => Len(m_connections) <= Cardinality(Coming)

\* While the pool is open it has as many contexts as before each step, except that a broken
\* one is not replaced when Redis cannot be reached: it never grows back.
ShrinksOnlyWhenDown ==
    [][~m_isStop => \/ Cardinality(live') = Cardinality(live)
                    \/ redis = "down" /\ Cardinality(live') = Cardinality(live) - 1]_vars

\* The pool is a pool like RPCConPool (redismgr.h:17-18), but for contexts being renewed.
Pool == INSTANCE RenewingPool WITH Conns <- Contexts, NoConn <- NoContext,
                                   idle <- m_connections, held <- ctx, closed <- m_isStop
ImplementsPool == Pool!RenewingSpec

\* Every Get ends, served or refused or with the pool destroyed under it: if the pool keeps
\* a context until it is closed, Redis answers commands and connection attempts or refuses
\* them and, from some point on, no calls and no spurious wakeups come.
EveryGetEnds ==
    ( /\ [](m_isStop \/ live # {})
      /\ <>[][\A t \in Threads : ~Call(t) /\ ~SpuriousWake(t)]_vars
      /\ \A t \in Threads : WF_vars(Talk(t)) )
    => \A t \in Threads : (pc[t] # "idle") ~> (pc[t] \in {"idle", "undefined"})
=============================================================================
