--------------------------- MODULE MysqlDao_proof ---------------------------
(***************************************************************************)
(* Proofs about MysqlDao, for every finite set of request threads, every   *)
(* pool size and every bound.  ControlInv says who holds m_mutex where,    *)
(* when a call still has its connection, and what the predicate of the     *)
(* wait is worth to the thread that tested it: less than in RpcConPool,    *)
(* for close() may set m_stop at any moment.                               *)
(***************************************************************************)
EXTENDS MysqlDao, FiniteSetTheorems, SequenceTheorems, TLAPS

Critical == {"pred", "block", "take", "push"}

\* m_mutex is locked in the critical sections, by their thread alone.
MutexInv == /\ \A t \in Threads : pc[t] \in Critical => mutex = t
            /\ checker = "entries" => mutex = Checker
            /\ dtor = "clear" => mutex = Main

\* A connection is in the hands of a call from getConnection's return to the first
\* release; a release is due exactly where one is made, and two only before the first.
ConnInv == \A t \in Threads :
    /\ conn[t] # Null => pc[t] \in {"have", "execute", "lockRelease", "push"}
    /\ pc[t] = "execute" => conn[t] # Null
    /\ pc[t] \in {"lockRelease", "push"} <=> call[t].releases # 0
    /\ call[t].releases = 2 => conn[t] # Null

\* The queue is as the predicate found it; m_stop need not be.
PredicateInv == \A t \in Threads :
    /\ pc[t] = "block" => m_connPool = <<>>
    /\ pc[t] = "take" => m_connPool # <<>> \/ m_stop

\* Outside its critical section the checker has no entries before it.
CheckerInv == checker # "entries" => left = 0

StopInv == m_stop <=> dtor # "up"

\* After close() has notified, the threads that sleep or are about to are one at most.
LateInv == dtor \in {"lock", "clear", "unlocked", "gone"} =>
    \A t, u \in Threads :
        pc[t] \in {"block", "asleep"} /\ pc[u] \in {"block", "asleep"} => t = u

ControlInv == MutexInv /\ ConnInv /\ PredicateInv /\ CheckerInv /\ StopInv /\ LateInv

-----------------------------------------------------------------------------
LEMMA InitQueue ==
  ASSUME NEW n \in 0..PoolSize
  PROVE  [i \in 1..n |-> i] \in Seq(Conns \cup {Null}) /\ Len([i \in 1..n |-> i]) = n
<1>1. [i \in 1..n |-> i] \in [1..n -> Conns \cup {Null}] /\ n \in Nat
  BY ConstantsAssumption DEF Conns
<1>2. QED
  BY <1>1, SeqDef, LenProperties

\* Types and control hold initially.
LEMMA InitTypedControl == Init => TypeOK /\ ControlInv
<1> SUFFICES ASSUME Init PROVE TypeOK /\ ControlInv
  OBVIOUS
<1>1. PICK n \in 0..PoolSize : /\ m_connPool = [i \in 1..n |-> i]
                              /\ checker = IF n = PoolSize THEN "test" ELSE "off"
  BY DEF Init
<1>2. m_connPool \in Seq(Conns \cup {Null}) /\ 0 \in 0..Len(m_connPool)
  BY <1>1, InitQueue
<1>3. TypeOK
  <2>1. NoCall \in Calls
    BY DEF NoCall, Calls, Ops
  <2>2. call \in [Threads -> Calls] /\ pc \in [Threads -> PCs] /\ conn \in [Threads -> {Null}]
    BY <2>1 DEF Init, PCs
  <2>3. checker \in CheckerStages
    BY <1>1 DEF CheckerStages
  <2>4. QED
    BY <1>2, <2>2, <2>3 DEF Init, TypeOK, DtorStages, ProcessStates
<1>4. ControlInv
  BY DEF Init, ControlInv, MutexInv, ConnInv, PredicateInv, CheckerInv, StopInv, LateInv,
         Critical, NoCall
<1>5. QED
  BY <1>3, <1>4

\* What getConnection, releaseConnection and checkConnection do to the queue.
LEMMA PopEntries ==
  ASSUME NEW S, NEW q \in Seq(S), q # <<>>
  PROVE  /\ DOMAIN q = 1..Len(q) /\ Len(q) \in Nat /\ Len(q) >= 1
         /\ Head(q) = q[1] /\ Head(q) \in S
         /\ Tail(q) \in Seq(S) /\ Len(Tail(q)) = Len(q) - 1
         /\ DOMAIN Tail(q) = 1..(Len(q) - 1)
         /\ \A i \in 1..(Len(q) - 1) : Tail(q)[i] = q[i + 1]
  BY HeadTailProperties, LenProperties, EmptySeq

LEMMA PushEntries ==
  ASSUME NEW S, NEW q \in Seq(S), NEW e \in S
  PROVE  /\ DOMAIN q = 1..Len(q) /\ Len(q) \in Nat
         /\ Append(q, e) \in Seq(S) /\ Len(Append(q, e)) = Len(q) + 1
         /\ DOMAIN Append(q, e) = 1..(Len(q) + 1)
         /\ \A i \in 1..Len(q) : Append(q, e)[i] = q[i]
         /\ Append(q, e)[Len(q) + 1] = e
  BY AppendProperties, LenProperties

LEMMA RotateEntries ==
  ASSUME NEW S, NEW q \in Seq(S), q # <<>>
  PROVE  LET r == Append(Tail(q), Head(q))
         IN  /\ DOMAIN q = 1..Len(q) /\ Len(q) \in Nat /\ Len(q) >= 1
             /\ r \in Seq(S) /\ Len(r) = Len(q)
             /\ DOMAIN r = 1..Len(q)
             /\ \A i \in 1..(Len(q) - 1) : r[i] = q[i + 1]
             /\ r[Len(q)] = q[1]
<1>1. /\ DOMAIN q = 1..Len(q) /\ Len(q) \in Nat /\ Len(q) >= 1
      /\ Head(q) = q[1] /\ Head(q) \in S
      /\ Tail(q) \in Seq(S) /\ Len(Tail(q)) = Len(q) - 1
      /\ \A i \in 1..(Len(q) - 1) : Tail(q)[i] = q[i + 1]
  BY PopEntries
<1> DEFINE r == Append(Tail(q), Head(q))
<1>2. /\ r \in Seq(S) /\ Len(r) = Len(Tail(q)) + 1
      /\ DOMAIN r = 1..(Len(Tail(q)) + 1)
      /\ \A i \in 1..Len(Tail(q)) : r[i] = Tail(q)[i]
      /\ r[Len(Tail(q)) + 1] = Head(q)
  BY <1>1, PushEntries
<1>3. QED
  BY <1>1, <1>2

\* What a call does to the thread it leaves, whatever the other threads do with a notify.
LEMMA PushPc ==
  ASSUME NEW t \in Threads, Push(t), TypeOK
  PROVE  /\ pc' \in [Threads -> PCs]
         /\ pc'[t] = AfterRelease(t)
         /\ \A u \in Threads : u # t => \/ pc'[u] = pc[u]
                                        \/ pc[u] = "asleep" /\ pc'[u] = "lockGet"
<1>1. AfterRelease(t) \in PCs /\ AfterRelease(t) \in {"lockRelease", "idle"} /\ pc[t] # "asleep"
  BY DEF AfterRelease, PCs, Push
<1>2. CASE pc' = [pc EXCEPT ![t] = AfterRelease(t)]
  BY <1>1, <1>2 DEF TypeOK
<1>3. ASSUME NEW u \in Asleep,
             pc' = [[pc EXCEPT ![t] = AfterRelease(t)] EXCEPT ![u] = "lockGet"]
      PROVE  /\ pc' \in [Threads -> PCs]
             /\ pc'[t] = AfterRelease(t)
             /\ \A v \in Threads : v # t => \/ pc'[v] = pc[v]
                                            \/ pc[v] = "asleep" /\ pc'[v] = "lockGet"
  BY <1>1, <1>3 DEF TypeOK, Asleep, PCs
<1>4. QED
  BY <1>2, <1>3 DEF Push, NotifyOne

\* Every step preserves types and control.
LEMMA NextTypedControl == TypeOK /\ ControlInv /\ [Next]_vars => TypeOK' /\ ControlInv'
<1> SUFFICES ASSUME TypeOK, ControlInv, [Next]_vars PROVE TypeOK' /\ ControlInv'
  OBVIOUS
<1> USE ConstantsAssumption
    DEF TypeOK, PCs, CheckerStages, DtorStages, ProcessStates, ControlInv, MutexInv, ConnInv,
        PredicateInv, CheckerInv, StopInv, LateInv, Critical, Alive, Goto, Lock, Unlock,
        unchangedPool, unchangedRest, requests, CheckerGoto, DtorGoto
<1>0. NoCall \in Calls /\ NoCall.releases = 0
  BY DEF NoCall, Calls, Ops
<1>1. ASSUME NEW t \in Threads, Call(t) PROVE TypeOK' /\ ControlInv'
  <2>1. PICK op \in Ops : call' = [call EXCEPT ![t].op = op]
    BY <1>1 DEF Call
  <2>2. call' \in [Threads -> Calls] /\ \A u \in Threads : call'[u].releases = call[u].releases
    BY <2>1 DEF Calls
  <2>3. QED
    BY <1>1, <2>2 DEF Call
<1>2. ASSUME NEW t \in Threads, LockGet(t) PROVE TypeOK' /\ ControlInv'
  BY <1>2 DEF LockGet
<1>3. ASSUME NEW t \in Threads, TestPredicate(t) PROVE TypeOK' /\ ControlInv'
  BY <1>3 DEF TestPredicate
<1>4. ASSUME NEW t \in Threads, Block(t) PROVE TypeOK' /\ ControlInv'
  BY <1>4 DEF Block
<1>5. ASSUME NEW t \in Threads, SpuriousWake(t) PROVE TypeOK' /\ ControlInv'
  BY <1>5 DEF SpuriousWake
<1>6. ASSUME NEW t \in Threads, Take(t) PROVE TypeOK' /\ ControlInv'
  <2>1. CASE m_stop
    BY <1>6, <2>1 DEF Take
  <2>2. CASE ~m_stop
    <3>1. /\ Head(m_connPool) \in Conns \cup {Null}
          /\ Tail(m_connPool) \in Seq(Conns \cup {Null})
          /\ Len(Tail(m_connPool)) \in Nat
      BY <1>6, <2>2, PopEntries DEF Take
    <3>2. left = 0
      BY <1>6 DEF Take
    <3>3. TypeOK'
      <4>1. left' \in 0..Len(m_connPool')
        BY <1>6, <2>2, <3>1, <3>2 DEF Take
      <4>2. pc' \in [Threads -> PCs] /\ conn' \in [Threads -> Conns \cup {Null}]
        BY <1>6, <2>2, <3>1 DEF Take
      <4>3. QED
        BY <1>6, <2>2, <3>1, <4>1, <4>2 DEF Take
    <3>4. ControlInv'
      BY <1>6, <2>2 DEF Take
    <3>5. QED
      BY <3>3, <3>4
  <2>3. QED
    BY <2>1, <2>2
<1>7. ASSUME NEW t \in Threads, TestConn(t) PROVE TypeOK' /\ ControlInv'
  <2>1. CASE conn[t] # Null
    BY <1>7, <2>1 DEF TestConn
  <2>2. CASE conn[t] = Null
    BY <1>0, <1>7, <2>2 DEF TestConn, Finish
  <2>3. QED
    BY <2>1, <2>2
<1>8. ASSUME NEW t \in Threads, Execute(t) PROVE TypeOK' /\ ControlInv'
  <2>1. PICK n \in Releases(call[t].op) :
           IF n = 0 THEN /\ Finish(t, "execute")
                         /\ conn' = [conn EXCEPT ![t] = Null]
                    ELSE /\ Goto(t, "execute", "lockRelease")
                         /\ call' = [call EXCEPT ![t].releases = n]
                         /\ UNCHANGED conn
    BY <1>8 DEF Execute
  <2>2. CASE n = 0
    <3>1. /\ pc[t] = "execute" /\ pc' = [pc EXCEPT ![t] = "idle"]
          /\ call' = [call EXCEPT ![t] = NoCall]
          /\ conn' = [conn EXCEPT ![t] = Null]
          /\ UNCHANGED <<unchangedPool, mutex, unchangedRest>>
      BY <1>8, <2>1, <2>2 DEF Execute, Finish
    <3>2. \A u \in Threads : u # t => call'[u] = call[u] /\ conn'[u] = conn[u] /\ pc'[u] = pc[u]
      BY <3>1
    <3>3. ConnInv'
      BY <1>0, <3>1, <3>2
    <3>4. TypeOK'
      BY <1>0, <3>1
    <3>5. MutexInv' /\ PredicateInv' /\ CheckerInv' /\ StopInv' /\ LateInv'
      BY <3>1, <3>2
    <3>6. QED
      BY <3>3, <3>4, <3>5
  <2>3. CASE n # 0
    <3>1. n \in 0..2
      BY DEF Releases, Calls, Ops
    <3>2. call' \in [Threads -> Calls] /\ call'[t].releases # 0
      BY <2>1, <2>3, <3>1 DEF Calls
    <3>3. \A u \in Threads : u # t => call'[u].releases = call[u].releases
      BY <2>1, <2>3
    <3>4. QED
      BY <1>8, <2>1, <2>3, <3>2, <3>3 DEF Execute
  <2>4. QED
    BY <2>2, <2>3
<1>9. ASSUME NEW t \in Threads, LockRelease(t) PROVE TypeOK' /\ ControlInv'
  BY <1>9 DEF LockRelease
<1>10. ASSUME NEW t \in Threads, Push(t) PROVE TypeOK' /\ ControlInv'
  <2>1. /\ pc' \in [Threads -> PCs]
        /\ pc'[t] = AfterRelease(t) /\ pc[t] = "push" /\ mutex = t /\ mutex' = NoThread
        /\ \A u \in Threads : u # t => \/ pc'[u] = pc[u]
                                       \/ pc[u] = "asleep" /\ pc'[u] = "lockGet"
    BY <1>10, PushPc DEF Push
  <2>2. /\ Append(m_connPool, conn[t]) \in Seq(Conns \cup {Null})
        /\ Len(Append(m_connPool, conn[t])) \in Nat
        /\ Len(m_connPool) \in Nat
        /\ m_connPool' \in {m_connPool, Append(m_connPool, conn[t])}
    BY <1>10, PushEntries DEF Push
  <2>3. left = 0 /\ left' = left /\ checker' = checker /\ dtor' = dtor /\ m_stop' = m_stop
        /\ process' = process /\ conn' = [conn EXCEPT ![t] = Null]
    BY <1>10, <2>1 DEF Push
  <2>4. /\ call' \in [Threads -> Calls]
        /\ call'[t].releases = (IF call[t].releases = 2 THEN 1 ELSE 0)
        /\ \A u \in Threads : u # t => call'[u] = call[u]
    BY SMTT(30), <1>0, <1>10 DEF Push, Calls
  <2>5. TypeOK'
    <3>1. m_connPool' \in Seq(Conns \cup {Null}) /\ left' \in 0..Len(m_connPool')
      BY SMTT(30), <2>2, <2>3
    <3>2. conn' \in [Threads -> Conns \cup {Null}]
      BY <2>3
    <3>3. QED
      BY <2>1, <2>3, <2>4, <3>1, <3>2
  <2>6. MutexInv' /\ CheckerInv' /\ StopInv'
    BY <2>1, <2>3 DEF AfterRelease
  <2>7. ConnInv'
    BY <2>1, <2>3, <2>4 DEF AfterRelease
  <2>8. PredicateInv' /\ LateInv'
    BY <2>1, <2>3 DEF AfterRelease
  <2>9. QED
    BY <2>5, <2>6, <2>7, <2>8
<1>11. CASE CheckStop
  BY <1>11 DEF CheckStop
<1>12. CASE CheckLock
  BY <1>12, LenProperties DEF CheckLock
<1>13. CASE CheckEntry
  <2>1. /\ m_connPool' \in Seq(Conns \cup {Null})
        /\ Len(m_connPool') = Len(m_connPool) /\ Len(m_connPool) \in Nat
        /\ Len(m_connPool) >= 1
    <3>1. Len(m_connPool) # 0
      BY <1>13 DEF CheckEntry
    <3>2. m_connPool # <<>>
      BY <3>1
    <3>3. QED
      BY <1>13, <3>2, RotateEntries DEF CheckEntry
  <2>2. left' \in 0..Len(m_connPool')
    BY <1>13, <2>1 DEF CheckEntry
  <2>3. QED
    BY <1>13, <2>1, <2>2 DEF CheckEntry
<1>14. CASE ReconnectFails \/ CheckNull
  BY <1>14 DEF ReconnectFails, CheckNull
<1>15. CASE CheckEnd
  BY <1>15 DEF CheckEnd
<1>16. CASE CheckSleep
  BY <1>16 DEF CheckSleep
<1>17. CASE CloseStop
  BY <1>17 DEF CloseStop
<1>18. CASE CloseNotifyAll
  BY <1>18 DEF CloseNotifyAll
<1>19. CASE DtorLock
  BY <1>19 DEF DtorLock
<1>20. CASE DtorClear
  BY <1>20, EmptySeq DEF DtorClear
<1>21. CASE DtorEnd
  BY <1>21 DEF DtorEnd
<1>22. CASE UseDestroyed
  BY <1>22 DEF UseDestroyed
<1>23. CASE Ended \/ UNCHANGED vars
  BY <1>23 DEF Ended, vars
<1>24. QED
  BY <1>1, <1>2, <1>3, <1>4, <1>5, <1>6, <1>7, <1>8, <1>9, <1>10, <1>11, <1>12, <1>13,
     <1>14, <1>15, <1>16, <1>17, <1>18, <1>19, <1>20, <1>21, <1>22, <1>23
     DEF Next, ThreadStep, Locking, PoolStep, CheckerStep, DtorStep

\* The state keeps its types: among them, the checker never has more entries before it
\* than the queue holds.
THEOREM TypeCorrect == Spec => []TypeOK
  BY InitTypedControl, NextTypedControl, PTL DEF Spec

LEMMA TypedControl == Spec => [](TypeOK /\ ControlInv)
  BY InitTypedControl, NextTypedControl, PTL DEF Spec

\* close() leaves at most one thread behind in getConnection.
THEOREM AtMostOneMissed == Spec => []CloseMissesOneAtMost
<1>1. ControlInv => CloseMissesOneAtMost
  <2> DEFINE late == {t \in Threads : pc[t] \in {"block", "asleep"}}
  <2> SUFFICES ASSUME ControlInv, dtor \in {"lock", "clear", "unlocked", "gone"}
               PROVE  Cardinality(late) <= 1
    BY DEF CloseMissesOneAtMost
  <2>1. \A t, u \in late : t = u
    BY DEF ControlInv, LateInv
  <2>2. CASE late = {}
    BY <2>2, FS_EmptySet
  <2>3. CASE late # {}
    <3>1. PICK t \in late : TRUE
      BY <2>3
    <3>2. late = {t}
      BY <2>1, <3>1
    <3>3. QED
      BY <3>2, FS_Singleton
  <2>4. QED
    BY <2>2, <2>3
<1>2. QED
  BY <1>1, TypedControl, PTL

-----------------------------------------------------------------------------
(* Where the connections are.                                              *)

\* The steps that move a connection, seen from outside the critical section.
Borrows(t) == /\ m_connPool # <<>>
              /\ conn[t] = Null
              /\ conn' = [conn EXCEPT ![t] = Head(m_connPool)]
              /\ m_connPool' = Tail(m_connPool)
              /\ UNCHANGED m_stop
Returns(t) == /\ conn' = [conn EXCEPT ![t] = Null]
              /\ m_connPool' = Append(m_connPool, conn[t])
              /\ UNCHANGED m_stop
Drops(t) == /\ m_stop \/ (call[t].op = "checkEmail" /\ pc[t] = "execute")
            /\ conn' = [conn EXCEPT ![t] = Null]
            /\ UNCHANGED <<m_connPool, m_stop>>
Rotates == /\ m_connPool # <<>>
           /\ m_connPool' = Append(Tail(m_connPool), Head(m_connPool))
           /\ UNCHANGED <<conn, m_stop>>
Empties == m_stop /\ m_connPool' = <<>> /\ UNCHANGED <<m_stop, conn>>

\* A step moves at most one connection, and in one of these ways.
LEMMA ConnMoves ==
  TypeOK /\ ControlInv /\ [Next]_vars =>
     \/ \E t \in Threads : Borrows(t) \/ Returns(t) \/ Drops(t)
     \/ Rotates
     \/ Empties
     \/ UNCHANGED <<m_connPool, conn>>
<1> SUFFICES ASSUME TypeOK, ControlInv, [Next]_vars
             PROVE  \/ \E t \in Threads : Borrows(t) \/ Returns(t) \/ Drops(t)
                    \/ Rotates
                    \/ Empties
                    \/ UNCHANGED <<m_connPool, conn>>
  OBVIOUS
<1> USE DEF unchangedPool, unchangedRest, requests
<1>1. ASSUME NEW t \in Threads, Take(t) PROVE Borrows(t) \/ UNCHANGED <<m_connPool, conn>>
  BY <1>1 DEF Take, Borrows, Goto, ControlInv, PredicateInv, ConnInv
<1>2. ASSUME NEW t \in Threads, Push(t) PROVE Returns(t) \/ Drops(t)
  BY <1>2 DEF Push, Returns, Drops
<1>3. ASSUME NEW t \in Threads, Execute(t) PROVE Drops(t) \/ UNCHANGED <<m_connPool, conn>>
  <2>1. call[t].op \in Ops
    BY DEF TypeOK, Calls
  <2>2. 0 \in Releases(call[t].op) => call[t].op = "checkEmail"
    BY <2>1 DEF Releases, Ops
  <2>3. QED
    BY <1>3, <2>2 DEF Execute, Drops, Finish, Goto
<1>4. ASSUME CheckEntry PROVE Rotates
  <2>1. Len(m_connPool) # 0
    BY <1>4 DEF CheckEntry, TypeOK
  <2>2. QED
    BY <1>4, <2>1 DEF CheckEntry, Rotates
<1>5. DtorClear => Empties
  BY DEF DtorClear, Empties, DtorGoto, ControlInv, StopInv
<1>6. QED
  BY <1>1, <1>2, <1>3, <1>4, <1>5
     DEF Next, ThreadStep, Locking, PoolStep, CheckerStep, DtorStep, Call, LockGet,
         TestPredicate, Block, SpuriousWake, TestConn, LockRelease, CheckStop, CheckLock,
         ReconnectFails, CheckNull, CheckEnd, CheckSleep, CloseStop, CloseNotifyAll,
         DtorLock, DtorEnd, UseDestroyed, Ended, vars

LEMMA NextNoSharing == TypeOK /\ ControlInv /\ NoSharing /\ [Next]_vars => NoSharing'
<1> SUFFICES ASSUME TypeOK, ControlInv, NoSharing, [Next]_vars PROVE NoSharing'
  OBVIOUS
<1> USE DEF TypeOK, NoSharing
<1>1. ASSUME NEW t \in Threads, Borrows(t) PROVE NoSharing'
  <2>1. /\ Head(m_connPool) = m_connPool[1]
        /\ \A i \in DOMAIN m_connPool' : /\ i + 1 \in DOMAIN m_connPool
                                         /\ m_connPool'[i] = m_connPool[i + 1]
                                         /\ i \in Int /\ i + 1 # 1
        /\ 1 \in DOMAIN m_connPool
    BY <1>1, PopEntries DEF Borrows
  <2>2. \A i, j \in DOMAIN m_connPool' :
           m_connPool'[i] = m_connPool'[j] /\ m_connPool'[i] # Null => i = j
    BY <2>1
  <2>3. \A u \in Threads, i \in DOMAIN m_connPool' :
           conn'[u] = m_connPool'[i] => conn'[u] = Null
    BY <1>1, <2>1 DEF Borrows
  <2>4. \A u, v \in Threads : conn'[u] = conn'[v] /\ conn'[u] # Null => u = v
    BY <1>1, <2>1 DEF Borrows
  <2>5. QED
    BY <2>2, <2>3, <2>4
<1>2. ASSUME NEW t \in Threads, Returns(t) PROVE NoSharing'
  <2>1. \A i \in DOMAIN m_connPool' :
           \/ i \in DOMAIN m_connPool /\ m_connPool'[i] = m_connPool[i]
           \/ i = Len(m_connPool) + 1 /\ m_connPool'[i] = conn[t]
    BY <1>2, PushEntries DEF Returns
  <2>2. \A i, j \in DOMAIN m_connPool' :
           m_connPool'[i] = m_connPool'[j] /\ m_connPool'[i] # Null => i = j
    BY <1>2, <2>1
  <2>3. \A u \in Threads, i \in DOMAIN m_connPool' :
           conn'[u] = m_connPool'[i] => conn'[u] = Null
    BY <1>2, <2>1 DEF Returns
  <2>4. \A u, v \in Threads : conn'[u] = conn'[v] /\ conn'[u] # Null => u = v
    BY <1>2 DEF Returns
  <2>5. QED
    BY <2>2, <2>3, <2>4
<1>3. ASSUME NEW t \in Threads, Drops(t) PROVE NoSharing'
  BY <1>3 DEF Drops
<1>4. CASE Rotates
  <2>1. /\ Len(m_connPool) \in Nat /\ 1 \in DOMAIN m_connPool
        /\ \A i \in DOMAIN m_connPool' :
              \/ /\ i \in Int /\ i + 1 \in DOMAIN m_connPool /\ i + 1 # 1
                 /\ m_connPool'[i] = m_connPool[i + 1]
              \/ i = Len(m_connPool) /\ m_connPool'[i] = m_connPool[1]
    BY <1>4, RotateEntries DEF Rotates
  <2>2. \A i, j \in DOMAIN m_connPool' :
           m_connPool'[i] = m_connPool'[j] /\ m_connPool'[i] # Null => i = j
    BY <2>1
  <2>3. QED
    BY <1>4, <2>1, <2>2 DEF Rotates
<1>5. CASE Empties
  BY <1>5 DEF Empties
<1>6. CASE UNCHANGED <<m_connPool, conn>>
  BY <1>6
<1>7. QED
  BY <1>1, <1>2, <1>3, <1>4, <1>5, <1>6, ConnMoves

\* A connection is never queued twice, nor queued and lent, nor lent to two calls:
\* checkPassword's second release is harmless to the connections.
THEOREM ConnectionsNotShared == Spec => []NoSharing
<1>1. Init => NoSharing
  BY DEF Init, NoSharing
<1>2. QED
  BY <1>1, InitTypedControl, NextTypedControl, NextNoSharing, PTL DEF Spec

\* While the pool is open, only checkEmail without a row loses a connection.
THEOREM ConnectionsNotLost == Spec => ConnectionsKept
<1>1. ASSUME TypeOK, ControlInv, [Next]_vars,
             NEW c \in Conns, Queued(c) \/ Lent(c), ~m_stop
      PROVE  Queued(c)' \/ Lent(c)' \/ Leaking(c)
  <2> USE <1>1 DEF TypeOK, Queued, Lent
  <2>1. ASSUME NEW t \in Threads, Borrows(t) PROVE Queued(c)' \/ Lent(c)'
    <3>1. CASE Lent(c)
      <4>1. PICK u \in Threads : conn[u] = c
        BY <3>1
      <4>2. c # Null
        BY DEF Conns, Null
      <4>3. conn'[u] = c
        BY <2>1, <4>1, <4>2 DEF Borrows
      <4>4. QED
        BY <4>3
    <3>2. CASE Queued(c)
      <4>1. PICK i \in DOMAIN m_connPool : m_connPool[i] = c
        BY <3>2
      <4>2. CASE i = 1
        BY <2>1, <4>1, <4>2, PopEntries DEF Borrows
      <4>3. CASE i # 1
        <5>1. i - 1 \in DOMAIN m_connPool' /\ m_connPool'[i - 1] = m_connPool[i]
          BY <2>1, <4>1, <4>3, PopEntries DEF Borrows
        <5>2. QED
          BY <4>1, <5>1
      <4>4. QED
        BY <4>2, <4>3
    <3>3. QED
      BY <3>1, <3>2
  <2>2. ASSUME NEW t \in Threads, Returns(t) PROVE Queued(c)' \/ Lent(c)'
    <3>1. /\ \A i \in DOMAIN m_connPool : /\ i \in DOMAIN m_connPool'
                                          /\ m_connPool'[i] = m_connPool[i]
          /\ Len(m_connPool) + 1 \in DOMAIN m_connPool'
          /\ m_connPool'[Len(m_connPool) + 1] = conn[t]
      BY <2>2, PushEntries DEF Returns
    <3>2. \A u \in Threads : u # t => conn'[u] = conn[u]
      BY <2>2 DEF Returns
    <3>3. QED
      BY <3>1, <3>2
  <2>3. ASSUME NEW t \in Threads, Drops(t) PROVE Queued(c)' \/ Lent(c)' \/ Leaking(c)
    BY <2>3 DEF Drops, Leaking
  <2>4. ASSUME Rotates PROVE Queued(c)' \/ Lent(c)'
    <3>1. CASE Lent(c)
      BY <2>4, <3>1 DEF Rotates
    <3>2. CASE Queued(c)
      <4>1. PICK i \in DOMAIN m_connPool : m_connPool[i] = c
        BY <3>2
      <4>2. \E j \in DOMAIN m_connPool' : m_connPool'[j] = m_connPool[i]
        <5>1. /\ DOMAIN m_connPool = 1..Len(m_connPool) /\ DOMAIN m_connPool' = 1..Len(m_connPool)
              /\ Len(m_connPool) \in Nat
              /\ \A j \in 1..(Len(m_connPool) - 1) : m_connPool'[j] = m_connPool[j + 1]
              /\ m_connPool'[Len(m_connPool)] = m_connPool[1]
          BY <2>4, RotateEntries DEF Rotates
        <5>2. CASE i = 1
          BY <5>1, <5>2
        <5>3. CASE i # 1
          <6>1. i - 1 \in DOMAIN m_connPool' /\ m_connPool'[i - 1] = m_connPool[i]
            BY <5>1, <5>3
          <6>2. QED
            BY <6>1
        <5>4. QED
          BY <5>2, <5>3
      <4>3. QED
        BY <4>1, <4>2
    <3>3. QED
      BY <3>1, <3>2
  <2>5. CASE UNCHANGED <<m_connPool, conn>>
    BY <2>5
  <2>6. QED
    BY <2>1, <2>2, <2>3, <2>4, <2>5, ConnMoves DEF Empties
<1>2. TypeOK /\ ControlInv /\ [Next]_vars => [KeepsConnections]_vars
  BY <1>1 DEF KeepsConnections
<1>3. QED
  BY <1>2, TypedControl, PTL DEF Spec, ConnectionsKept

-----------------------------------------------------------------------------
(* Nobody sleeps beside an entry that nobody is coming for.                *)

\* Coming is finite, and its size grows with it.
LEMMA ComingFinite == /\ IsFiniteSet(Coming) /\ Cardinality(Coming) \in Nat
                      /\ IsFiniteSet(Coming') /\ Cardinality(Coming') \in Nat
                      /\ Coming \subseteq Coming' => Cardinality(Coming) <= Cardinality(Coming')
<1>1. Coming \in SUBSET Threads /\ Coming' \in SUBSET Threads
  BY DEF Coming
<1>2. IsFiniteSet(Coming) /\ IsFiniteSet(Coming')
  BY <1>1, ConstantsAssumption, FS_Subset
<1>3. Cardinality(Coming) \in Nat /\ Cardinality(Coming') \in Nat
  BY <1>2, FS_CardinalityType
<1>4. Coming \subseteq Coming' => Cardinality(Coming) <= Cardinality(Coming')
  BY <1>2, FS_Subset
<1>5. QED
  BY <1>2, <1>3, <1>4

\* A step that keeps the length of the queue, puts nobody to sleep and turns nobody away is
\* harmless.
LEMMA HarmlessStep ==
  ASSUME NoLostWakeup, TypeOK,
         m_stop' = m_stop,
         Len(m_connPool') = Len(m_connPool),
         Asleep' \subseteq Asleep,
         Coming \subseteq Coming'
  PROVE  NoLostWakeup'
<1>1. Len(m_connPool) \in Nat
  BY LenProperties DEF TypeOK
<1>2. QED
  BY <1>1, ComingFinite DEF NoLostWakeup

LEMMA NextNoLostWakeup ==
  TypeOK /\ ControlInv /\ NoLostWakeup /\ [Next]_vars => NoLostWakeup'
<1> SUFFICES ASSUME TypeOK, ControlInv, NoLostWakeup, [Next]_vars, ~m_stop' PROVE NoLostWakeup'
  BY DEF NoLostWakeup
<1> USE DEF unchangedPool, unchangedRest, requests
<1>0. Len(m_connPool) \in Nat
  BY LenProperties DEF TypeOK
<1>1. ASSUME NEW t \in Threads,
             \/ Call(t) \/ LockGet(t) \/ SpuriousWake(t) \/ TestConn(t)
             \/ Execute(t) \/ LockRelease(t)
      PROVE  NoLostWakeup'
  <2>1. /\ m_stop' = m_stop /\ m_connPool' = m_connPool
        /\ \E from \in {"idle", "lockGet", "asleep", "have", "execute", "lockRelease"},
              to \in {"lockGet", "pred", "execute", "idle", "lockRelease", "push"} :
              /\ Goto(t, from, to)
              /\ from = "lockGet" => to = "pred"
    BY <1>1 DEF Call, LockGet, SpuriousWake, TestConn, Execute, LockRelease, Finish, Goto
  <2>2. Asleep' \subseteq Asleep /\ Coming \subseteq Coming'
    BY <2>1 DEF Goto, Asleep, Coming, TypeOK
  <2>3. QED
    BY <2>1, <2>2, HarmlessStep
<1>2. ASSUME NEW t \in Threads, TestPredicate(t) PROVE NoLostWakeup'
  <2>1. CASE m_connPool # <<>>
    <3>1. /\ m_connPool' = m_connPool /\ m_stop' = m_stop
          /\ Asleep' \subseteq Asleep /\ Coming \subseteq Coming'
      BY <1>2, <2>1 DEF TestPredicate, Goto, Asleep, Coming, TypeOK
    <3>2. QED
      BY <3>1, HarmlessStep
  <2>2. CASE m_connPool = <<>>
    BY <1>2, <2>2, ComingFinite DEF TestPredicate, NoLostWakeup
  <2>3. QED
    BY <2>1, <2>2
<1>3. ASSUME NEW t \in Threads, Block(t) PROVE NoLostWakeup'
  BY <1>3, ComingFinite DEF Block, Goto, ControlInv, PredicateInv, NoLostWakeup
<1>4. ASSUME NEW t \in Threads, Take(t) PROVE NoLostWakeup'
  <2>1. pc[t] = "take" /\ pc' = [pc EXCEPT ![t] = "have"] /\ ~m_stop
    BY <1>4 DEF Take, Goto
  <2>2. /\ Asleep' = Asleep
        /\ t \in Coming /\ Coming' = Coming \ {t}
    BY <2>1 DEF Asleep, Coming, TypeOK
  <2>3. Len(m_connPool') = Len(m_connPool) - 1
    BY <1>4, <2>1, PopEntries DEF Take, ControlInv, PredicateInv, TypeOK
  <2>4. Cardinality(Coming') = Cardinality(Coming) - 1
    BY <2>2, ComingFinite, FS_RemoveElement
  <2>5. QED
    BY <1>0, <2>1, <2>2, <2>3, <2>4, ComingFinite DEF NoLostWakeup
<1>5. ASSUME NEW t \in Threads, Push(t) PROVE NoLostWakeup'
  <2>1. pc[t] = "push" /\ ~m_stop /\ AfterRelease(t) \notin {"asleep", "lockGet", "pred", "take"}
    BY <1>5 DEF Push, AfterRelease
  <2>2. CASE Asleep = {}
    <3>1. Asleep' = {}
      BY <1>5, <2>1, <2>2 DEF Push, NotifyOne, Asleep, TypeOK
    <3>2. QED
      BY <3>1 DEF NoLostWakeup
  <2>3. CASE Asleep # {}
    <3>1. PICK u \in Asleep : pc' = [[pc EXCEPT ![t] = AfterRelease(t)] EXCEPT ![u] = "lockGet"]
      BY <1>5, <2>1, <2>3 DEF Push, NotifyOne
    <3>2. Coming' = Coming \cup {u} /\ u \notin Coming
      BY <2>1, <3>1 DEF Coming, Asleep, TypeOK
    <3>3. Cardinality(Coming') = Cardinality(Coming) + 1
      BY <3>2, ComingFinite, FS_AddElement
    <3>4. Len(m_connPool') = Len(m_connPool) + 1
      BY <1>5, <2>1, PushEntries DEF Push, TypeOK
    <3>5. QED
      BY <1>0, <2>1, <2>3, <3>3, <3>4, ComingFinite DEF NoLostWakeup
  <2>4. QED
    BY <2>2, <2>3
<1>6. CASE CheckEntry
  <2>1. Len(m_connPool') = Len(m_connPool)
    <3>1. m_connPool # <<>>
      BY <1>6 DEF CheckEntry, TypeOK
    <3>2. QED
      BY <1>6, <3>1, RotateEntries DEF CheckEntry, TypeOK
  <2>2. m_stop' = m_stop /\ Asleep' = Asleep /\ Coming' = Coming
    BY <1>6 DEF CheckEntry, Asleep, Coming
  <2>3. QED
    BY <2>1, <2>2, HarmlessStep
<1>7. CASE \/ CheckStop \/ CheckLock \/ ReconnectFails \/ CheckNull \/ CheckEnd \/ CheckSleep
           \/ DtorLock \/ DtorEnd \/ UseDestroyed \/ Ended \/ UNCHANGED vars
  <2>1. m_connPool' = m_connPool /\ pc' = pc /\ m_stop' = m_stop
    BY <1>7 DEF CheckStop, CheckLock, ReconnectFails, CheckNull, CheckEnd, CheckSleep,
                DtorLock, DtorEnd, UseDestroyed, Ended, vars
  <2>2. QED
    BY <2>1 DEF NoLostWakeup, Asleep, Coming
<1>8. ASSUME CloseStop \/ CloseNotifyAll \/ DtorClear PROVE FALSE
  BY <1>8 DEF CloseStop, CloseNotifyAll, DtorClear, DtorGoto, ControlInv, StopInv
<1>9. QED
  BY <1>1, <1>2, <1>3, <1>4, <1>5, <1>6, <1>7, <1>8
     DEF Next, ThreadStep, Locking, PoolStep, CheckerStep, DtorStep

\* While the pool is open and a thread sleeps in getConnection, as many threads are on
\* their way to the queue as it has entries.
THEOREM WakeupsNotLost == Spec => []NoLostWakeup
<1>1. Init => NoLostWakeup
  BY DEF Init, NoLostWakeup, Asleep
<1>2. QED
  BY <1>1, InitTypedControl, NextTypedControl, NextNoLostWakeup, PTL DEF Spec

-----------------------------------------------------------------------------
(* The pool implements EntryPool.                                          *)

\* What EntryPool sees of a queue that no pass is in.
Kinds(q) == [i \in 1..Len(q) |-> Kind(q[i])]

LEMMA KindsTyped ==
  ASSUME NEW S, NEW q \in Seq(S)
  PROVE  Kinds(q) \in Seq({"live", "null"}) /\ Len(Kinds(q)) = Len(q)
<1>1. Len(q) \in Nat /\ \A i \in 1..Len(q) : Kind(q[i]) \in {"live", "null"}
  BY LenProperties DEF Kind
<1>2. Kinds(q) \in [1..Len(q) -> {"live", "null"}]
  BY <1>1 DEF Kinds
<1>3. QED
  BY <1>1, <1>2, SeqDef, LenProperties

LEMMA KindsPop ==
  ASSUME NEW S, NEW q \in Seq(S), q # <<>>
  PROVE  /\ Kinds(q) # <<>>
         /\ Head(Kinds(q)) = Kind(Head(q))
         /\ Tail(Kinds(q)) = Kinds(Tail(q))
<1>1. /\ Len(q) \in Nat /\ Len(q) >= 1 /\ Head(q) = q[1]
      /\ Tail(q) \in Seq(S) /\ Len(Tail(q)) = Len(q) - 1
      /\ \A i \in 1..(Len(q) - 1) : Tail(q)[i] = q[i + 1]
  BY PopEntries
<1>2. /\ Kinds(q) \in Seq({"live", "null"}) /\ Len(Kinds(q)) = Len(q)
      /\ Kinds(Tail(q)) \in Seq({"live", "null"}) /\ Len(Kinds(Tail(q))) = Len(q) - 1
  BY <1>1, KindsTyped
<1>3. Kinds(q) # <<>>
  BY <1>1, <1>2, EmptySeq
<1>4. /\ Head(Kinds(q)) = Kinds(q)[1]
      /\ Tail(Kinds(q)) \in Seq({"live", "null"}) /\ Len(Tail(Kinds(q))) = Len(q) - 1
      /\ \A i \in 1..(Len(q) - 1) : Tail(Kinds(q))[i] = Kinds(q)[i + 1]
  BY <1>2, <1>3, PopEntries
<1>5. ASSUME NEW i \in 1..(Len(q) - 1) PROVE Tail(Kinds(q))[i] = Kinds(Tail(q))[i]
  BY <1>1, <1>4 DEF Kinds
<1>6. Tail(Kinds(q)) = Kinds(Tail(q))
  BY <1>2, <1>4, <1>5, SeqEqual
<1>7. QED
  BY <1>1, <1>3, <1>4, <1>6 DEF Kinds

LEMMA KindsPush ==
  ASSUME NEW S, NEW q \in Seq(S), NEW e \in S
  PROVE  Kinds(Append(q, e)) = Append(Kinds(q), Kind(e))
<1>1. /\ Len(q) \in Nat /\ Append(q, e) \in Seq(S) /\ Len(Append(q, e)) = Len(q) + 1
      /\ \A i \in 1..Len(q) : Append(q, e)[i] = q[i]
      /\ Append(q, e)[Len(q) + 1] = e
  BY PushEntries
<1>2. /\ Kinds(q) \in Seq({"live", "null"}) /\ Len(Kinds(q)) = Len(q)
      /\ Kinds(Append(q, e)) \in Seq({"live", "null"}) /\ Len(Kinds(Append(q, e))) = Len(q) + 1
  BY <1>1, KindsTyped
<1>3. Kind(e) \in {"live", "null"}
  BY DEF Kind
<1>4. /\ Append(Kinds(q), Kind(e)) \in Seq({"live", "null"})
      /\ Len(Append(Kinds(q), Kind(e))) = Len(q) + 1
      /\ \A i \in 1..Len(q) : Append(Kinds(q), Kind(e))[i] = Kinds(q)[i]
      /\ Append(Kinds(q), Kind(e))[Len(q) + 1] = Kind(e)
  BY <1>2, <1>3, PushEntries
<1>5. ASSUME NEW i \in 1..(Len(q) + 1)
      PROVE  Kinds(Append(q, e))[i] = Append(Kinds(q), Kind(e))[i]
  BY <1>1, <1>4 DEF Kinds
<1>6. QED
  BY <1>2, <1>4, <1>5, SeqEqual

\* Before a pass and after it, and as it begins, the queue is as it seems.
LEMMA SettledOutside ==
  ASSUME NEW S, m_connPool \in Seq(S), left = 0 \/ left = Len(m_connPool)
  PROVE  Settled = Kinds(m_connPool)
<1>1. Len(m_connPool) \in Nat
  BY LenProperties
<1>2. QED
  BY <1>1 DEF Settled, Kinds

LEMMA SettledOutsideNext ==
  ASSUME NEW S, m_connPool' \in Seq(S), left' = 0 \/ left' = Len(m_connPool')
  PROVE  Settled' = Kinds(m_connPool')
<1>1. Len(m_connPool') \in Nat
  BY LenProperties
<1>2. QED
  BY <1>1 DEF Settled, Kinds

\* A pass that puts the front entry at the back has one entry fewer left: nothing has moved.
LEMMA CheckUnseen == TypeOK /\ CheckEntry => Settled' = Settled
<1> SUFFICES ASSUME TypeOK, CheckEntry PROVE Settled' = Settled
  OBVIOUS
<1> DEFINE n == Len(m_connPool)
<1>1. left \in 1..n /\ left' = left - 1 /\ m_connPool # <<>>
  BY DEF TypeOK, CheckEntry
<1>2. /\ n \in Nat /\ Len(m_connPool') = n
      /\ \A i \in 1..(n - 1) : m_connPool'[i] = m_connPool[i + 1]
      /\ m_connPool'[n] = m_connPool[1]
  BY <1>1, RotateEntries DEF TypeOK, CheckEntry
<1>3. ASSUME NEW i \in 1..n
      PROVE  m_connPool'[IF i + left' <= n THEN i + left' ELSE i + left' - n]
                = m_connPool[IF i + left <= n THEN i + left ELSE i + left - n]
  <2> HIDE DEF n
  <2>1. CASE i + left <= n
    BY <1>1, <1>2, <2>1
  <2>2. CASE i + left = n + 1
    BY <1>1, <1>2, <2>2
  <2>3. CASE i + left > n + 1
    BY <1>1, <1>2, <2>3
  <2>4. QED
    BY <1>1, <1>2, <2>1, <2>2, <2>3
<1>4. Settled' = [i \in 1..n |->
         Kind(m_connPool'[IF i + left' <= n THEN i + left' ELSE i + left' - n])]
  BY <1>2 DEF Settled, Kind
<1>5. QED
  BY <1>3, <1>4 DEF Settled

\* A step of t leaves what the other calls have still to give back.
LEMMA OwedChanges ==
  ASSUME NEW t \in Threads, NEW kind, Owed(t)' = kind,
         \A u \in Threads : u # t => conn'[u] = conn[u] /\ call'[u].releases = call[u].releases
  PROVE  [u \in Threads |-> Owed(u)]' = [[u \in Threads |-> Owed(u)] EXCEPT ![t] = kind]
<1>1. \A u \in Threads : u # t => Owed(u)' = Owed(u)
  BY DEF Owed
<1>2. QED
  BY <1>1

\* Where nothing is lent or given back the pool changes nothing.
LEMMA Unseen ==
  ASSUME Settled' = Settled, m_stop' = m_stop,
         \A u \in Threads : Owed(u)' = Owed(u)
  PROVE  UNCHANGED Pool!poolVars
  BY DEF Pool!poolVars

\* The queue the constructor has filled is an initial state of EntryPool.
LEMMA InitImplements == Init => Pool!Init
<1> SUFFICES ASSUME Init PROVE Pool!Init
  OBVIOUS
<1>1. PICK n \in 0..PoolSize : m_connPool = [i \in 1..n |-> i]
  BY DEF Init
<1>2. m_connPool \in Seq(Conns \cup {Null}) /\ Len(m_connPool) = n /\ n \in Nat
  BY <1>1, InitQueue, ConstantsAssumption
<1>3. Settled = Kinds(m_connPool)
  BY <1>2, SettledOutside DEF Init
<1>4. Kinds(m_connPool) \in [1..n -> {"live"}]
  BY <1>1, <1>2 DEF Kinds, Kind, Null
<1>5. Settled \in Seq({"live"})
  BY <1>2, <1>3, <1>4, SeqDef
<1>6. \A t \in Threads : Owed(t) = "nothing"
  BY DEF Init, Owed, NoCall
<1>7. QED
  BY <1>5, <1>6 DEF Init, Pool!Init

\* Each step is a step of EntryPool or changes nothing in it.
LEMMA NextImplements == TypeOK /\ ControlInv /\ [Next]_vars => [Pool!Next]_(Pool!poolVars)
<1> SUFFICES ASSUME TypeOK, ControlInv, [Next]_vars PROVE [Pool!Next]_(Pool!poolVars)
  OBVIOUS
<1> USE DEF unchangedPool, unchangedRest, requests
<1>0. /\ m_connPool \in Seq(Conns \cup {Null}) /\ Conns \cup {Null} # {}
      /\ call \in [Threads -> Calls] /\ conn \in [Threads -> Conns \cup {Null}]
  BY DEF TypeOK
<1>1. ASSUME NEW t \in Threads, Take(t) PROVE [Pool!Next]_(Pool!poolVars)
  <2>1. /\ pc[t] = "take" /\ mutex = t /\ checker # "entries" /\ left = 0
        /\ conn[t] = Null /\ call[t].releases = 0
        /\ UNCHANGED <<m_stop, call, left>>
    BY <1>1, ConstantsAssumption
       DEF Take, Goto, Unlock, ControlInv, MutexInv, ConnInv, CheckerInv
  <2>2. CASE m_stop
    BY <1>1, <2>1, <2>2 DEF Take, Pool!poolVars, Settled, Owed
  <2>3. CASE ~m_stop
    <3>1. /\ m_connPool # <<>> /\ m_connPool' = Tail(m_connPool)
          /\ conn' = [conn EXCEPT ![t] = Head(m_connPool)]
      BY <1>1, <2>1, <2>3 DEF Take, ControlInv, PredicateInv
    <3>2. m_connPool' \in Seq(Conns \cup {Null})
      BY <1>0, <3>1, PopEntries
    <3>3. Settled = Kinds(m_connPool) /\ Settled' = Kinds(m_connPool')
      BY <1>0, <2>1, <3>2, SettledOutside, SettledOutsideNext
    <3>4. /\ Settled # <<>> /\ Settled' = Tail(Settled)
          /\ Head(Settled) = Kind(Head(m_connPool))
      BY <1>0, <3>1, <3>3, KindsPop
    <3>5. /\ Owed(t) = "nothing"
          /\ Owed(t)' = (IF Head(Settled) = "live" THEN "live" ELSE "nothing")
          /\ \A u \in Threads : u # t =>
                conn'[u] = conn[u] /\ call'[u].releases = call[u].releases
      BY <1>0, <2>1, <3>1, <3>4 DEF Owed, Kind
    <3>6. [u \in Threads |-> Owed(u)]' =
             [[u \in Threads |-> Owed(u)] EXCEPT
                 ![t] = IF Head(Settled) = "live" THEN "live" ELSE "nothing"]
      BY <3>5, OwedChanges
    <3>7. Pool!Borrow(t)
      BY <2>1, <2>3, <3>4, <3>5, <3>6 DEF Pool!Borrow
    <3>8. QED
      BY <3>7 DEF Pool!Next
  <2>4. QED
    BY <2>2, <2>3
<1>2. ASSUME NEW t \in Threads, Push(t) PROVE [Pool!Next]_(Pool!poolVars)
  <2>1. /\ pc[t] = "push" /\ mutex = t /\ checker # "entries" /\ left = 0
        /\ call[t].releases \in {1, 2}
        /\ call[t].releases = 2 => conn[t] # Null
        /\ UNCHANGED <<m_stop, left>>
        /\ conn' = [conn EXCEPT ![t] = Null]
    <3>1. call[t].releases \in 0..2
      BY <1>0 DEF Calls
    <3>2. QED
      BY <1>2, <3>1, ConstantsAssumption
         DEF Push, Unlock, ControlInv, MutexInv, ConnInv, CheckerInv, Critical
  <2>2. m_connPool' = IF m_stop THEN m_connPool ELSE Append(m_connPool, conn[t])
    BY <1>2 DEF Push
  <2>3. Settled' = IF m_stop THEN Settled ELSE Append(Settled, Kind(conn[t]))
    <3>1. conn[t] \in Conns \cup {Null} /\ m_connPool' \in Seq(Conns \cup {Null})
      BY <1>0, <2>2, PushEntries
    <3>2. Settled = Kinds(m_connPool) /\ Settled' = Kinds(m_connPool')
      BY <1>0, <2>1, <3>1, SettledOutside, SettledOutsideNext
    <3>3. QED
      BY <1>0, <2>2, <3>1, <3>2, KindsPush
  <2>4. Owed(t) = Kind(conn[t]) /\ Owed(t) # "nothing"
    <3>1. call[t].releases # 0
      BY <2>1
    <3>2. CASE conn[t] = Null
      BY <3>1, <3>2 DEF Owed, Kind
    <3>3. CASE conn[t] # Null
      BY <3>3 DEF Owed, Kind
    <3>4. QED
      BY <3>2, <3>3
  <2>5. /\ call'[t].releases = (IF call[t].releases = 2 THEN 1 ELSE 0)
        /\ conn'[t] = Null
        /\ \A u \in Threads : u # t =>
              conn'[u] = conn[u] /\ call'[u].releases = call[u].releases
    BY <1>0, <1>2, <2>1 DEF Push, Calls, NoCall
  <2>6. Owed(t)' = (IF call[t].releases = 2 THEN "null" ELSE "nothing")
    BY <2>5 DEF Owed
  <2>7. [u \in Threads |-> Owed(u)]' =
           [[u \in Threads |-> Owed(u)] EXCEPT
               ![t] = IF call[t].releases = 2 THEN "null" ELSE "nothing"]
    BY <2>5, <2>6, OwedChanges
  <2>8. Owed(t) # "live" => call[t].releases # 2
    BY <2>1 DEF Owed
  <2>9. Pool!GiveBack(t)
    BY <2>1, <2>3, <2>4, <2>7, <2>8 DEF Pool!GiveBack
  <2>10. QED
    BY <2>9 DEF Pool!Next
<1>3. ASSUME NEW t \in Threads, Execute(t) PROVE [Pool!Next]_(Pool!poolVars)
  <2>1. /\ Owed(t) = "live" /\ UNCHANGED <<m_connPool, m_stop, left>>
        /\ \A u \in Threads : u # t =>
              conn'[u] = conn[u] /\ call'[u].releases = call[u].releases
    <3>1. pc[t] = "execute" /\ conn[t] # Null
      BY <1>3 DEF Execute, Finish, Goto, ControlInv, ConnInv
    <3>2. Owed(t) = "live"
      BY <3>1 DEF Owed
    <3>3. UNCHANGED <<m_connPool, m_stop, left>>
      BY <1>3 DEF Execute
    <3>4. /\ \/ conn' = [conn EXCEPT ![t] = Null]
             \/ conn' = conn
          /\ \/ call' = [call EXCEPT ![t] = NoCall]
             \/ \E n \in Releases(call[t].op) : call' = [call EXCEPT ![t].releases = n]
      BY <1>3 DEF Execute, Finish
    <3>5. QED
      BY <1>0, <3>2, <3>3, <3>4
  <2>2. Settled' = Settled
    BY <2>1 DEF Settled
  <2>3. CASE conn' = conn
    <3>1. Owed(t)' = "live"
      BY <2>1, <2>3 DEF Owed
    <3>2. \A u \in Threads : Owed(u)' = Owed(u)
      BY <2>1, <3>1 DEF Owed
    <3>3. QED
      BY <2>1, <2>2, <3>2, Unseen
  <2>4. CASE conn' = [conn EXCEPT ![t] = Null] /\ call' = [call EXCEPT ![t] = NoCall]
    <3>1. Owed(t)' = "nothing"
      BY <1>0, <2>4 DEF Owed, NoCall
    <3>2. [u \in Threads |-> Owed(u)]' =
             [[u \in Threads |-> Owed(u)] EXCEPT ![t] = "nothing"]
      BY <2>1, <3>1, OwedChanges
    <3>3. Pool!Lose(t)
      BY <2>1, <2>2, <3>2 DEF Pool!Lose
    <3>4. QED
      BY <3>3 DEF Pool!Next
  <2>5. QED
    BY <1>3, <2>3, <2>4 DEF Execute, Finish
<1>4. ASSUME NEW t \in Threads, Call(t) \/ TestConn(t) PROVE [Pool!Next]_(Pool!poolVars)
  <2>1. /\ UNCHANGED <<m_connPool, m_stop, left, conn>>
        /\ \A u \in Threads : call'[u].releases = call[u].releases
    <3>1. CASE Call(t)
      BY <1>0, <3>1 DEF Call, Calls
    <3>2. CASE TestConn(t)
      BY <1>0, <3>2 DEF TestConn, Finish, Goto, NoCall, ControlInv, ConnInv
    <3>3. QED
      BY <1>4, <3>1, <3>2
  <2>2. Settled' = Settled /\ \A u \in Threads : Owed(u)' = Owed(u)
    BY <2>1 DEF Settled, Owed
  <2>3. QED
    BY <2>1, <2>2, Unseen
<1>5. CASE CheckEntry
  <2>1. Settled' = Settled /\ UNCHANGED <<m_stop, conn, call>>
    BY <1>5, CheckUnseen DEF CheckEntry
  <2>2. QED
    BY <2>1, Unseen DEF Owed
<1>6. CASE CheckLock
  <2>1. left = 0 /\ left' = Len(m_connPool') /\ UNCHANGED <<m_connPool, m_stop, conn, call>>
    BY <1>6 DEF CheckLock, CheckerGoto, ControlInv, CheckerInv
  <2>2. Settled' = Settled
    BY <1>0, <2>1, SettledOutside, SettledOutsideNext
  <2>3. QED
    BY <2>1, <2>2, Unseen DEF Owed
<1>7. CASE CloseStop
  <2>1. Settled' = Settled /\ m_stop' = TRUE /\ UNCHANGED <<conn, call>>
    BY <1>7 DEF CloseStop, Settled
  <2>2. Pool!Close
    BY <2>1 DEF Pool!Close, Owed
  <2>3. QED
    BY <2>2 DEF Pool!Next
<1>8. CASE DtorClear
  <2>1. m_stop /\ m_connPool' = <<>> /\ UNCHANGED <<m_stop, conn, call>>
    BY <1>8 DEF DtorClear, DtorGoto, ControlInv, StopInv
  <2>2. Settled' = <<>>
    BY <2>1 DEF Settled
  <2>3. Pool!Discard
    BY <2>1, <2>2 DEF Pool!Discard, Owed
  <2>4. QED
    BY <2>3 DEF Pool!Next
<1>9. CASE UNCHANGED <<m_connPool, m_stop, left, conn, call>>
  <2>1. Settled' = Settled /\ \A u \in Threads : Owed(u)' = Owed(u)
    BY <1>9 DEF Settled, Owed
  <2>2. QED
    BY <1>9, <2>1, Unseen
<1>10. QED
  BY <1>1, <1>2, <1>3, <1>4, <1>5, <1>6, <1>7, <1>8, <1>9
     DEF Next, ThreadStep, Locking, PoolStep, CheckerStep, DtorStep, LockGet, TestPredicate,
         Block, SpuriousWake, LockRelease, CheckStop, ReconnectFails, CheckNull, CheckEnd,
         CheckSleep, CloseNotifyAll, DtorLock, DtorEnd, UseDestroyed, Ended, vars

\* MySqlPool, its check thread and its destructor give the calls of MysqlDao an EntryPool: the
\* calls cannot tell a pass of the check thread, or the mutex, from single steps.
THEOREM PoolImplemented == Spec => ImplementsPool
  BY InitImplements, InitTypedControl, NextTypedControl, NextImplements, PTL
     DEF Spec, ImplementsPool, Pool!Spec
=============================================================================
