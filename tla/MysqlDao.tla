------------------------------ MODULE MysqlDao ------------------------------
(***************************************************************************)
(* MySqlPool (mysql.cc) under the four calls of MysqlDao (mysql_dao.cc),   *)
(* with the thread that checks the connections and the destructor.  As in  *)
(* RpcConPool a step runs from one point where another thread can          *)
(* interfere to the next.  Three things set this pool apart: close() does  *)
(* not take m_mutex; checkPassword gives its connection back twice, the    *)
(* second time as the null pointer the first one left behind; checkEmail   *)
(* does not give it back at all when no user has the name.                 *)
(*                                                                         *)
(* What MySQL answers, whether a session has died and whether an entry was *)
(* active in the last 5 seconds are choices of the environment.            *)
(***************************************************************************)
EXTENDS Integers, Sequences, FiniteSets

CONSTANTS Threads,    \* the IOContextPool threads, which run the handlers
          PoolSize,   \* m_pool_size
          MaxPooled,  \* bound: no call starts while the queue is longer than this
          Checker,    \* the detached m_check_thread
          Main,       \* the main thread, which runs the destructor
          NoThread    \* the owner of an unlocked m_mutex

ASSUME ConstantsAssumption ==
    /\ IsFiniteSet(Threads)
    /\ PoolSize \in Nat
    /\ MaxPooled \in Nat
    /\ Checker \notin Threads
    /\ Main \notin Threads
    /\ NoThread \notin Threads
    /\ Checker # Main /\ Checker # NoThread /\ Main # NoThread

Null  == 0                      \* a null unique_ptr
Conns == 1..PoolSize            \* the connections that may exist

VARIABLES m_stop,
          m_connPool,   \* the queue: connections and null pointers
          mutex,        \* who has locked m_mutex
          pc,           \* where each request thread is
          call,         \* call[t]: the call t is in and what came of it
          conn,         \* conn[t]: the local unique_ptr of t's call
          checker,      \* where the check thread is
          left,         \* the entries it has still to look at
          dtor,         \* how far ~MysqlDao has come
          process       \* "up", or how it ended

vars == <<m_stop, m_connPool, mutex, pc, call, conn, checker, left, dtor, process>>

Ops == {"registerUser", "checkEmail", "updatePassword", "checkPassword"}

\* "idle" is a thread outside the DAO, "asleep" one blocked in m_condition.wait.
PCs == {"idle", "lockGet", "pred", "block", "asleep", "take", "have", "execute",
        "lockRelease", "push"}
CheckerStages == {"off", "test", "lock", "entries", "sleep"}
DtorStages == {"up", "notify", "lock", "clear", "unlocked", "gone"}
ProcessStates == {"up", "terminated", "undefined"}

\* The function called, and the releases of its connection still to come.
Calls == [op : Ops, releases : 0..2]
NoCall == [op |-> "registerUser", releases |-> 0]

Asleep == {t \in Threads : pc[t] = "asleep"}

-----------------------------------------------------------------------------
\* The constructor stops at the first connect that throws, and then starts no checker.
Init == /\ m_stop = FALSE
        /\ \E n \in 0..PoolSize :
              /\ m_connPool = [i \in 1..n |-> i]
              /\ checker = IF n = PoolSize THEN "test" ELSE "off"
        /\ mutex = NoThread
        /\ pc = [t \in Threads |-> "idle"]
        /\ call = [t \in Threads |-> NoCall]
        /\ conn = [t \in Threads |-> Null]
        /\ left = 0
        /\ dtor = "up"
        /\ process = "up"

Alive == process = "up" /\ dtor # "gone"    \* the pool can still be used

Goto(t, from, to) == /\ pc[t] = from
                     /\ pc' = [pc EXCEPT ![t] = to]

Lock(t) == /\ mutex = NoThread
           /\ mutex' = t

Unlock(t) == /\ mutex = t
             /\ mutex' = NoThread

unchangedPool == <<m_stop, m_connPool>>
unchangedRest == <<checker, left, dtor, process>>

\* A handler calls one of the DAO's functions, and that getConnection.
Call(t) == /\ process = "up"
           /\ Len(m_connPool) <= MaxPooled
           /\ Goto(t, "idle", "lockGet")
           /\ \E op \in Ops : call' = [call EXCEPT ![t].op = op]
           /\ UNCHANGED <<unchangedPool, mutex, conn, unchangedRest>>

LockGet(t) == /\ Alive
              /\ Goto(t, "lockGet", "pred")
              /\ Lock(t)
              /\ UNCHANGED <<unchangedPool, call, conn, unchangedRest>>

\* The predicate of m_condition.wait.
TestPredicate(t) ==
    /\ Alive
    /\ Goto(t, "pred", IF m_stop \/ m_connPool # <<>> THEN "take" ELSE "block")
    /\ UNCHANGED <<unchangedPool, mutex, call, conn, unchangedRest>>

\* wait releases the mutex and blocks, in one step.
Block(t) == /\ Alive
            /\ Goto(t, "block", "asleep")
            /\ Unlock(t)
            /\ UNCHANGED <<unchangedPool, call, conn, unchangedRest>>

\* std::condition_variable may wake a waiter nobody notified.
SpuriousWake(t) == /\ Alive
                   /\ Goto(t, "asleep", "lockGet")
                   /\ UNCHANGED <<unchangedPool, mutex, call, conn, unchangedRest>>

\* Mutant of Take: the front entry is read but not popped.
TakeWithoutPop(t) == /\ Alive
                     /\ ~m_stop
                     /\ Goto(t, "take", "have")
                     /\ Unlock(t)
                     /\ conn' = [conn EXCEPT ![t] = Head(m_connPool)]
                     /\ UNCHANGED <<unchangedPool, call, unchangedRest>>

\* The rest of getConnection: null if the pool is stopped, else the front entry.
Take(t) == /\ Alive
           /\ Goto(t, "take", "have")
           /\ Unlock(t)
           /\ IF m_stop
              THEN UNCHANGED <<m_connPool, conn>>
              ELSE /\ conn' = [conn EXCEPT ![t] = Head(m_connPool)]
                   /\ m_connPool' = Tail(m_connPool)
           /\ UNCHANGED <<m_stop, call, unchangedRest>>

\* What a function that gets no connection returns: registerUser 1, which the route takes
\* for the uid of a new user, the others false.
NullMeansSuccess(op) == op = "registerUser"

\* pc and call after t returns from the DAO.
Finish(t, from) == /\ Goto(t, from, "idle")
                   /\ call' = [call EXCEPT ![t] = NoCall]

\* Every function tests what it got for null.
TestConn(t) ==
    /\ process = "up"
    /\ IF conn[t] # Null THEN Goto(t, "have", "execute") /\ UNCHANGED call
                         ELSE Finish(t, "have")
    /\ UNCHANGED <<unchangedPool, mutex, conn, unchangedRest>>

\* Mutant of Releases: updatePassword forgets its release when the statement throws.
ReleasesUnlessThrown(op) ==
    IF op = "registerUser" THEN {1} ELSE IF op = "checkPassword" THEN {1, 2} ELSE {0, 1}

\* How often a function may release its connection once its statement has run or thrown.
Releases(op) ==
    CASE op \in {"registerUser", "updatePassword"} -> {1}
      [] op = "checkEmail"    -> {0, 1}  \* 0: there was no row
      [] op = "checkPassword" -> {1, 2}  \* 2: there was a match, or an exception

\* The statement is run.  A connection that is not released is destroyed with conn.
Execute(t) ==
    /\ process = "up"
    /\ \E n \in Releases(call[t].op) :
          IF n = 0 THEN /\ Finish(t, "execute")
                        /\ conn' = [conn EXCEPT ![t] = Null]
                   ELSE /\ Goto(t, "execute", "lockRelease")
                        /\ call' = [call EXCEPT ![t].releases = n]
                        /\ UNCHANGED conn
    /\ UNCHANGED <<unchangedPool, mutex, unchangedRest>>

LockRelease(t) == /\ Alive
                  /\ Goto(t, "lockRelease", "push")
                  /\ Lock(t)
                  /\ UNCHANGED <<unchangedPool, call, conn, unchangedRest>>

AfterRelease(t) == IF call[t].releases = 2 THEN "lockRelease" ELSE "idle"

\* Mutant of NotifyOne: releaseConnection forgets to notify.
NotifyNobody(t) == pc' = [pc EXCEPT ![t] = AfterRelease(t)]

\* pc after t leaves releaseConnection having woken a waiter, if there is one.
NotifyOne(t) ==
    LET gone == [pc EXCEPT ![t] = AfterRelease(t)]
    IN  IF Asleep = {} THEN pc' = gone
                       ELSE \E u \in Asleep : pc' = [gone EXCEPT ![u] = "lockGet"]

\* releaseConnection under the lock.  std::move leaves conn null for a second release.
Push(t) == /\ Alive
           /\ pc[t] = "push"
           /\ Unlock(t)
           /\ conn' = [conn EXCEPT ![t] = Null]
           /\ IF m_stop THEN /\ pc' = [pc EXCEPT ![t] = AfterRelease(t)]
                             /\ UNCHANGED m_connPool
                        ELSE /\ NotifyOne(t)
                             /\ m_connPool' = Append(m_connPool, conn[t])
           /\ call' = [call EXCEPT ![t] = IF @.releases = 2 THEN [@ EXCEPT !.releases = 1]
                                                            ELSE NoCall]
           /\ UNCHANGED <<m_stop, unchangedRest>>

-----------------------------------------------------------------------------
\* The check thread: while (!m_stop) { checkConnection(); sleep 60 s }.
requests == <<pc, call, conn>>

CheckerGoto(from, to) == /\ checker = from
                         /\ checker' = to

CheckStop == /\ Alive
             /\ CheckerGoto("test", IF m_stop THEN "off" ELSE "lock")
             /\ UNCHANGED <<unchangedPool, mutex, requests, left, dtor, process>>

CheckLock == /\ Alive
             /\ CheckerGoto("lock", "entries")
             /\ Lock(Checker)
             /\ left' = Len(m_connPool)
             /\ UNCHANGED <<unchangedPool, requests, dtor, process>>

\* Mutant of CheckEntry: a dead session is dropped, not replaced.
CheckEntryDropping ==
    /\ Alive
    /\ checker = "entries"
    /\ left > 0
    /\ Head(m_connPool) # Null
    /\ \/ m_connPool' = Append(Tail(m_connPool), Head(m_connPool))
       \/ m_connPool' = Tail(m_connPool)
    /\ left' = left - 1
    /\ UNCHANGED <<m_stop, mutex, requests, checker, dtor, process>>

\* The front entry goes to the back: it was active, or answers SELECT 1, or has its dead
\* session replaced by a new one.
CheckEntry == /\ Alive
              /\ checker = "entries"
              /\ left > 0
              /\ Head(m_connPool) # Null
              /\ m_connPool' = Append(Tail(m_connPool), Head(m_connPool))
              /\ left' = left - 1
              /\ UNCHANGED <<m_stop, mutex, requests, checker, dtor, process>>

\* connect throws as well, and nothing catches it: the exception leaves the thread.
ReconnectFails == /\ Alive
                  /\ checker = "entries"
                  /\ left > 0
                  /\ Head(m_connPool) # Null
                  /\ process' = "terminated"
                  /\ UNCHANGED <<unchangedPool, mutex, requests, checker, left, dtor>>

\* conn->m_last_active_time of a null entry.
CheckNull == /\ Alive
             /\ checker = "entries"
             /\ left > 0
             /\ Head(m_connPool) = Null
             /\ process' = "undefined"
             /\ UNCHANGED <<unchangedPool, mutex, requests, checker, left, dtor>>

CheckEnd == /\ Alive
            /\ left = 0
            /\ CheckerGoto("entries", "sleep")
            /\ Unlock(Checker)
            /\ UNCHANGED <<unchangedPool, requests, left, dtor, process>>

CheckSleep == /\ process = "up"
              /\ CheckerGoto("sleep", "test")
              /\ UNCHANGED <<unchangedPool, mutex, requests, left, dtor, process>>

-----------------------------------------------------------------------------
\* ~MysqlDao, in main: close(), which sets m_stop and notifies all without the mutex;
\* then ~MySqlPool locks, empties the queue, unlocks, and the members are gone.
DtorGoto(from, to) == /\ process = "up"
                      /\ dtor = from
                      /\ dtor' = to

CloseStop == /\ DtorGoto("up", "notify")
             /\ m_stop' = TRUE
             /\ UNCHANGED <<m_connPool, mutex, requests, checker, left, process>>

\* Mutant of CloseNotifyAll: close() wakes nobody.
CloseNotifyNobody ==
    /\ DtorGoto("notify", "lock")
    /\ UNCHANGED <<unchangedPool, mutex, requests, checker, left, process>>

CloseNotifyAll ==
    /\ DtorGoto("notify", "lock")
    /\ pc' = [t \in Threads |-> IF pc[t] = "asleep" THEN "lockGet" ELSE pc[t]]
    /\ UNCHANGED <<unchangedPool, mutex, call, conn, checker, left, process>>

\* Mutant of DtorLock: the destructor does not wait for the mutex.
DtorSeizes == /\ DtorGoto("lock", "clear")
              /\ mutex' = Main
              /\ UNCHANGED <<unchangedPool, requests, checker, left, process>>

DtorLock == /\ DtorGoto("lock", "clear")
            /\ Lock(Main)
            /\ UNCHANGED <<unchangedPool, requests, checker, left, process>>

DtorClear == /\ DtorGoto("clear", "unlocked")
             /\ Unlock(Main)
             /\ m_connPool' = <<>>
             /\ UNCHANGED <<m_stop, requests, checker, left, process>>

DtorEnd == /\ DtorGoto("unlocked", "gone")
           /\ UNCHANGED <<unchangedPool, mutex, requests, checker, left, process>>

\* A thread is about to touch a member of the destroyed pool.
UseDestroyed ==
    /\ process = "up"
    /\ dtor = "gone"
    /\ \/ checker \in {"test", "lock", "entries"}
       \/ \E t \in Threads : pc[t] \notin {"idle", "have", "execute"}
    /\ process' = "undefined"
    /\ UNCHANGED <<unchangedPool, mutex, requests, checker, left, dtor>>

-----------------------------------------------------------------------------
Locking(t) == LockGet(t) \/ LockRelease(t)
PoolStep(t) == TestPredicate(t) \/ Block(t) \/ Take(t) \/ TestConn(t) \/ Push(t)
ThreadStep(t) == Locking(t) \/ PoolStep(t) \/ Call(t) \/ SpuriousWake(t) \/ Execute(t)

CheckerStep == \/ CheckStop \/ CheckLock \/ CheckEntry \/ ReconnectFails \/ CheckNull
               \/ CheckEnd \/ CheckSleep

DtorStep == CloseNotifyAll \/ DtorLock \/ DtorClear \/ DtorEnd

\* The process is past its last defined step.
Ended == process # "up" /\ UNCHANGED vars

Next == \/ \E t \in Threads : ThreadStep(t)
        \/ CheckerStep
        \/ CloseStop
        \/ DtorStep
        \/ UseDestroyed
        \/ Ended

Spec == Init /\ [][Next]_vars

\* The scheduler runs every runnable thread; m_mutex, which the checker leaves alone for
\* 60 seconds between two passes, is not withheld from a waiting thread for ever.
Fairness == /\ \A t \in Threads : WF_vars(PoolStep(t)) /\ SF_vars(Locking(t))
            /\ WF_vars(CheckerStep)
            /\ WF_vars(DtorStep)

FairSpec == Spec /\ Fairness

-----------------------------------------------------------------------------
(* What the threads can tell of all this is an EntryPool.                  *)

Kind(entry) == IF entry = Null THEN "null" ELSE "live"

\* The queue as the pass of the check thread found it: behind the entries that are left are
\* those it has already put at the back, which come first.
Settled == [i \in 1..Len(m_connPool) |->
              Kind(m_connPool[IF i + left <= Len(m_connPool) THEN i + left
                                                             ELSE i + left - Len(m_connPool)])]

Owed(t) == IF conn[t] # Null THEN "live"
           ELSE IF call[t].releases # 0 THEN "null" ELSE "nothing"

Pool == INSTANCE EntryPool WITH
            idle   <- Settled,
            held   <- [t \in Threads |-> Owed(t)],
            closed <- m_stop

\* The mutex and the condition variable, a close() that takes no lock and a check thread that
\* takes the queue apart and puts it together again leave the calls a queue that lends and
\* takes back in single steps, first in, first out.
ImplementsPool == Pool!Spec

-----------------------------------------------------------------------------
(* Properties.                                                             *)

TypeOK == /\ m_stop \in BOOLEAN
          /\ m_connPool \in Seq(Conns \cup {Null})
          /\ mutex \in Threads \cup {Checker, Main, NoThread}
          /\ pc \in [Threads -> PCs]
          /\ call \in [Threads -> Calls]
          /\ conn \in [Threads -> Conns \cup {Null}]
          /\ checker \in CheckerStages
          /\ left \in 0..Len(m_connPool)
          /\ dtor \in DtorStages
          /\ process \in ProcessStates

Queued(c) == \E i \in DOMAIN m_connPool : m_connPool[i] = c
Lent(c) == \E t \in Threads : conn[t] = c

\* A connection is never in two places, although checkPassword releases it twice: what
\* it releases the second time is null.
NoSharing ==
    /\ \A i, j \in DOMAIN m_connPool :
          m_connPool[i] = m_connPool[j] /\ m_connPool[i] # Null => i = j
    /\ \A t \in Threads, i \in DOMAIN m_connPool :
          conn[t] = m_connPool[i] => conn[t] = Null
    /\ \A t, u \in Threads : conn[t] = conn[u] /\ conn[t] # Null => t = u

\* The connections a thread has on loan are released by it, on every path but that of
\* checkEmail without a row: no other early return and no exception loses one, and none
\* leaves the queue but on loan, while the pool is open.
Leaking(c) == \E t \in Threads : /\ conn[t] = c
                                 /\ call[t].op = "checkEmail"
                                 /\ pc[t] = "execute"
KeepsConnections ==
    \A c \in Conns : (Queued(c) \/ Lent(c)) /\ ~m_stop
                        => Queued(c)' \/ Lent(c)' \/ Leaking(c)
ConnectionsKept == [][KeepsConnections]_vars

\* The threads that will look at the queue before they can fall asleep.
Coming == {t \in Threads : pc[t] \in {"lockGet", "pred", "take"}}

\* No wakeup is lost while the pool is open: if a thread sleeps in getConnection, at
\* least as many threads are on their way to the queue as it has entries.  The checker
\* takes entries out and puts them back without notifying anybody.
NoLostWakeup ==
    ~m_stop /\ Asleep # {} => Len(m_connPool) <= Cardinality(Coming)

\* close() does not take m_mutex, so that it can miss a thread between its test of the
\* predicate and its wait; but it misses one thread at most.
CloseMissesOneAtMost ==
    dtor \in {"lock", "clear", "unlocked", "gone"} =>
        Cardinality({t \in Threads : pc[t] \in {"block", "asleep"}}) <= 1

\* Every call returns: if the pool keeps at least one connection, is not closed, MySQL
\* answers, the check thread does not bring the process down and, from some point on, no
\* calls and no spurious wakeups come.
CallsReturn ==
    ( /\ [](~m_stop /\ process = "up" /\ \E c \in Conns : Queued(c) \/ Lent(c))
      /\ <>[][\A t \in Threads : ~Call(t) /\ ~SpuriousWake(t)]_vars
      /\ \A t \in Threads : WF_vars(Execute(t)) )
    => \A t \in Threads : (pc[t] # "idle") ~> (pc[t] = "idle")

\* A registration that gets no connection from the open pool is reported as a failure: one
\* that MySQL does not carry out answers 1005, the interface document says
\* (logicsystem-interfaces.md:162).
RegistrationsReachMySQL ==
    [][\A t \in Threads :
          pc[t] = "have" /\ pc'[t] = "idle" /\ ~m_stop => ~NullMeansSuccess(call[t].op)]_vars
=============================================================================
