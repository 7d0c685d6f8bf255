----------------------------- MODULE RpcConPool -----------------------------
(***************************************************************************)
(* The gRPC stub pools and the calls made through them: RPCConPool under   *)
(* VerifyGrpcClient::GetVerifyCode (verifygrpcclient.cc) and StatusConPool *)
(* under StatusGrpcClient::GetChatServer (status_grpc_client.cc).  The two *)
(* pools are the same code twice; the two calls differ.  A step is what a  *)
(* thread does between two points where another can interfere: taking      *)
(* m_mutex, testing the predicate, blocking in m_conVar.wait, leaving the  *)
(* critical section.                                                       *)
(*                                                                         *)
(* The pool lives in a function-local static.  The request threads belong  *)
(* to IOContextPool, a static completed earlier and so destroyed later:    *)
(* main runs the pool's destructor while they still run.                   *)
(***************************************************************************)
EXTENDS Naturals, Sequences, FiniteSets

CONSTANTS Threads,   \* the IOContextPool threads, which run the handlers
          PoolSize,  \* m_poolSize
          Main,      \* the main thread, which runs the destructor
          NoThread,  \* the owner of an unlocked m_mutex
          Clients    \* which of the two clients: a subset of {"verify", "status"}

ASSUME ConstantsAssumption ==
    /\ IsFiniteSet(Threads)
    /\ PoolSize \in Nat
    /\ Main \notin Threads
    /\ NoThread \notin Threads
    /\ Main # NoThread
    /\ Clients \subseteq {"verify", "status"}

NoStub == 0                      \* a null unique_ptr
Stubs  == 1..PoolSize

VARIABLES client,         \* the client whose pool this is; never changes
          m_isStop,
          m_connections,  \* the queue of idle stubs
          mutex,          \* who has locked m_mutex
          pc,             \* where each thread is
          stub,           \* stub[t]: the local unique_ptr of t's call
          dtor            \* how far ~RPCConPool has come

vars == <<client, m_isStop, m_connections, mutex, pc, stub, dtor>>

\* "asleep" is blocked in m_conVar.wait; "undefined" is where a thread ends whose
\* next step has no defined behaviour.
PCs == {"idle", "lockGet", "pred", "block", "asleep", "take", "have", "rpc",
        "lockRelease", "push", "undefined"}
DtorStages == {"up", "stop", "notify", "clear", "unlocked", "gone"}

Asleep == {t \in Threads : pc[t] = "asleep"}

-----------------------------------------------------------------------------
\* The constructor queues m_poolSize stubs; m_isStop is false.
Init == /\ client \in Clients
        /\ m_isStop = FALSE
        /\ m_connections = [i \in 1..PoolSize |-> i]
        /\ mutex = NoThread
        /\ pc = [t \in Threads |-> "idle"]
        /\ stub = [t \in Threads |-> NoStub]
        /\ dtor = "up"

Goto(t, from, to) == /\ pc[t] = from
                     /\ pc' = [pc EXCEPT ![t] = to]

Lock(t) == /\ dtor # "gone"
           /\ mutex = NoThread
           /\ mutex' = t

Unlock(t) == /\ mutex = t
             /\ mutex' = NoThread

\* A handler calls GetVerifyCode (GetChatServer), and that getConnection.
Call(t) == /\ Goto(t, "idle", "lockGet")
           /\ UNCHANGED <<client, m_isStop, m_connections, mutex, stub, dtor>>

LockGet(t) == /\ Goto(t, "lockGet", "pred")
              /\ Lock(t)
              /\ UNCHANGED <<client, m_isStop, m_connections, stub, dtor>>

\* The predicate of m_conVar.wait.
TestPredicate(t) ==
    /\ dtor # "gone"
    /\ Goto(t, "pred", IF m_connections # <<>> \/ m_isStop THEN "take" ELSE "block")
    /\ UNCHANGED <<client, m_isStop, m_connections, mutex, stub, dtor>>

\* wait releases the mutex and blocks, in one step.
Block(t) == /\ dtor # "gone"
            /\ Goto(t, "block", "asleep")
            /\ Unlock(t)
            /\ UNCHANGED <<client, m_isStop, m_connections, stub, dtor>>

\* std::condition_variable may wake a waiter nobody notified.
SpuriousWake(t) == /\ dtor # "gone"
                   /\ Goto(t, "asleep", "lockGet")
                   /\ UNCHANGED <<client, m_isStop, m_connections, mutex, stub, dtor>>

\* The rest of getConnection: null if the pool is stopped, else the front stub.
Take(t) == /\ dtor # "gone"
           /\ Goto(t, "take", "have")
           /\ Unlock(t)
           /\ IF m_isStop
              THEN UNCHANGED <<m_connections, stub>>
              ELSE /\ stub' = [stub EXCEPT ![t] = Head(m_connections)]
                   /\ m_connections' = Tail(m_connections)
           /\ UNCHANGED <<client, m_isStop, dtor>>

\* GetVerifyCode answers RPCFailed to a null stub; GetChatServer dereferences it.
UseStub(t) ==
    /\ Goto(t, "have", IF stub[t] # NoStub THEN "rpc"
                       ELSE IF client = "verify" THEN "idle" ELSE "undefined")
    /\ UNCHANGED <<client, m_isStop, m_connections, mutex, stub, dtor>>

\* Mutant of RpcReturn: an early return on a failed RPC skips releaseConnection.
RpcReturnLeaks(t) == /\ Goto(t, "rpc", "idle")
                     /\ stub' = [stub EXCEPT ![t] = NoStub]
                     /\ UNCHANGED <<client, m_isStop, m_connections, mutex, dtor>>

\* The RPC ends: an answer, an error, or for GetVerifyCode its 5 second deadline.
RpcReturn(t) == /\ Goto(t, "rpc", "lockRelease")
                /\ UNCHANGED <<client, m_isStop, m_connections, mutex, stub, dtor>>

LockRelease(t) == /\ Goto(t, "lockRelease", "push")
                  /\ Lock(t)
                  /\ UNCHANGED <<client, m_isStop, m_connections, stub, dtor>>

\* Mutant of NotifyOne: releaseConnection forgets to notify.
NotifyNobody(t) == pc' = [pc EXCEPT ![t] = "idle"]

\* pc after t leaves releaseConnection having woken one waiter, if there is one.
NotifyOne(t) ==
    LET left == [pc EXCEPT ![t] = "idle"]
    IN  IF Asleep = {} THEN pc' = left
                       ELSE \E u \in Asleep : pc' = [left EXCEPT ![u] = "lockGet"]

\* Mutant of Push: the unique_ptr was moved from before it is pushed.
PushMovedFrom(t) == /\ pc[t] = "push"
                    /\ Unlock(t)
                    /\ NotifyOne(t)
                    /\ stub' = [stub EXCEPT ![t] = NoStub]
                    /\ m_connections' = Append(m_connections, NoStub)
                    /\ UNCHANGED <<client, m_isStop, dtor>>

\* Mutant of Push: the stub goes to the front of the queue.
PushFront(t) == /\ pc[t] = "push"
                /\ Unlock(t)
                /\ NotifyOne(t)
                /\ stub' = [stub EXCEPT ![t] = NoStub]
                /\ m_connections' = <<stub[t]>> \o m_connections
                /\ UNCHANGED <<client, m_isStop, dtor>>

\* releaseConnection under the lock: a stopped pool lets the stub be destroyed.
Push(t) == /\ dtor # "gone"
           /\ pc[t] = "push"
           /\ Unlock(t)
           /\ stub' = [stub EXCEPT ![t] = NoStub]
           /\ IF m_isStop
              THEN /\ pc' = [pc EXCEPT ![t] = "idle"]
                   /\ UNCHANGED m_connections
              ELSE /\ NotifyOne(t)
                   /\ m_connections' = Append(m_connections, stub[t])
           /\ UNCHANGED <<client, m_isStop, dtor>>

-----------------------------------------------------------------------------
\* ~RPCConPool, in main: lock; close(), which sets m_isStop and notifies all; empty
\* the queue; unlock; then the members, m_mutex and m_conVar among them, are gone.
DtorGoto(from, to) == /\ dtor = from
                      /\ dtor' = to

\* Mutant of DtorLock: m_isStop is set without holding the mutex.
DtorWithoutLock == /\ DtorGoto("up", "stop")
                   /\ UNCHANGED <<client, m_isStop, m_connections, mutex, pc, stub>>

DtorLock == /\ DtorGoto("up", "stop")
            /\ Lock(Main)
            /\ UNCHANGED <<client, m_isStop, m_connections, pc, stub>>

CloseStop == /\ DtorGoto("stop", "notify")
             /\ m_isStop' = TRUE
             /\ UNCHANGED <<client, m_connections, mutex, pc, stub>>

CloseNotifyAll ==
    /\ DtorGoto("notify", "clear")
    /\ pc' = [t \in Threads |-> IF pc[t] = "asleep" THEN "lockGet" ELSE pc[t]]
    /\ UNCHANGED <<client, m_isStop, m_connections, mutex, stub>>

DtorClear == /\ DtorGoto("clear", "unlocked")
             /\ Unlock(Main)
             /\ m_connections' = <<>>
             /\ UNCHANGED <<client, m_isStop, pc, stub>>

DtorEnd == /\ DtorGoto("unlocked", "gone")
           /\ UNCHANGED <<client, m_isStop, m_connections, mutex, pc, stub>>

\* A thread about to touch a member of the destroyed pool.
UseDestroyed(t) ==
    /\ dtor = "gone"
    /\ pc[t] \in {"lockGet", "pred", "block", "asleep", "take", "lockRelease", "push"}
    /\ pc' = [pc EXCEPT ![t] = "undefined"]
    /\ UNCHANGED <<client, m_isStop, m_connections, mutex, stub, dtor>>

-----------------------------------------------------------------------------
\* What a thread does of its own accord once it is in the pool's code.
PoolStep(t) == \/ LockGet(t) \/ TestPredicate(t) \/ Block(t) \/ Take(t) \/ UseStub(t)
               \/ LockRelease(t) \/ Push(t) \/ UseDestroyed(t)

ThreadStep(t) == PoolStep(t) \/ Call(t) \/ SpuriousWake(t) \/ RpcReturn(t)

DtorStep == CloseStop \/ CloseNotifyAll \/ DtorClear \/ DtorEnd

\* Nobody is left to run: the process is past its last defined step.
Ended == /\ \A t \in Threads : pc[t] = "undefined"
         /\ dtor = "gone"
         /\ UNCHANGED vars

Next == \/ \E t \in Threads : ThreadStep(t)
        \/ DtorLock
        \/ DtorStep
        \/ Ended

Spec == Init /\ [][Next]_vars

\* The scheduler runs every runnable thread, and main once it is in the destructor.
\* Only GetVerifyCode sets a deadline, so only its RPC is bound to end.
Fairness == /\ \A t \in Threads : WF_vars(PoolStep(t))
            /\ \A t \in Threads : WF_vars(client = "verify" /\ RpcReturn(t))
            /\ WF_vars(DtorStep)

FairSpec == Spec /\ Fairness

-----------------------------------------------------------------------------
(* Properties.                                                             *)

TypeOK == /\ client \in Clients
          /\ m_isStop \in BOOLEAN
          /\ m_connections \in Seq(Stubs)
          /\ mutex \in Threads \cup {Main, NoThread}
          /\ pc \in [Threads -> PCs]
          /\ stub \in [Threads -> Stubs \cup {NoStub}]
          /\ dtor \in DtorStages

\* A stub is never in two places: not twice in the queue, not in the queue and in a
\* call, not in two calls.  getConnection and releaseConnection move the unique_ptr,
\* under a lock that other threads compete for.
NoSharing ==
    /\ \A i, j \in DOMAIN m_connections : m_connections[i] = m_connections[j] => i = j
    /\ \A t \in Threads, i \in DOMAIN m_connections : stub[t] # m_connections[i]
    /\ \A t, u \in Threads : stub[t] = stub[u] /\ stub[t] # NoStub => t = u

\* Until the pool is stopped no stub is lost: each is queued or lent.  Losing one for
\* every early return would end with every request thread asleep in getConnection.
NothingLost ==
    ~m_isStop => \A s \in Stubs : \/ \E i \in DOMAIN m_connections : m_connections[i] = s
                                  \/ \E t \in Threads : stub[t] = s

\* The threads that will look at the queue before they can fall asleep.
Coming == {t \in Threads : pc[t] \in {"lockGet", "pred", "take"}}

\* No wakeup is lost: while a thread sleeps in getConnection, there are at least as
\* many threads on their way to the queue as there are stubs in it, although
\* releaseConnection notifies one waiter only and newcomers may overtake it.
NoLostWakeup == Asleep # {} => Len(m_connections) <= Cardinality(Coming)

\* close() reaches everybody: once it has notified, no thread sleeps in getConnection.
\* This needs m_isStop to be set under m_mutex, as the destructor does.
CloseWakesAll == dtor \in {"clear", "unlocked", "gone"} => Asleep = {}

\* The pools promise no more and no less than a pool does, whatever the interleaving
\* of their critical sections (verifygrpcclient.h:23-29).
Pool == INSTANCE ConPool WITH Conns <- Stubs, NoConn <- NoStub,
                              idle <- m_connections, held <- stub, closed <- m_isStop
ImplementsPool == Pool!Spec

\* With no new calls and no spurious wakeups from some point on, each thread that asked
\* for a stub of the verify pool is served or refused, or dies with the pool: nobody is
\* forgotten in the wait of getConnection.
QuietEventually == <>[][\A t \in Threads : ~Call(t) /\ ~SpuriousWake(t)]_vars
EveryCallEnds ==
    QuietEventually => \A t \in Threads :
        (client = "verify" /\ pc[t] # "idle") ~> (pc[t] \in {"idle", "undefined"})

\* Thread safety and closing as the header promises them (verifygrpcclient.h:26-27):
\* a thread never runs into a destroyed pool, nor into a null stub.
NeverUndefined == \A t \in Threads : pc[t] # "undefined"
=============================================================================
