-------------------------- MODULE RpcConPool_proof --------------------------
(***************************************************************************)
(* Proofs about RpcConPool, for every finite set of request threads and    *)
(* every pool size.  IInv is the inductive invariant: the control part     *)
(* says who holds m_mutex where, and what a thread that tested the         *)
(* predicate still knows when it acts on it.                               *)
(***************************************************************************)
EXTENDS RpcConPool, FiniteSetTheorems, SequenceTheorems, TLAPS

Critical == {"pred", "block", "take", "push"}

\* m_mutex is locked in the critical sections, by their thread alone.
MutexInv == /\ \A t \in Threads : pc[t] \in Critical => mutex = t
            /\ dtor \in {"stop", "notify", "clear"} => mutex = Main

\* A stub is in the hands of a call from getConnection's return to releaseConnection.
StubInv == \A t \in Threads :
    /\ stub[t] # NoStub => pc[t] \in {"have", "rpc", "lockRelease", "push", "undefined"}
    /\ pc[t] \in {"rpc", "lockRelease", "push"} => stub[t] # NoStub

\* What the predicate said still holds when the thread acts on it.
PredicateInv == \A t \in Threads :
    /\ pc[t] = "block" => m_connections = <<>> /\ ~m_isStop
    /\ pc[t] = "take" => m_connections # <<>> \/ m_isStop

StopInv == m_isStop <=> dtor \notin {"up", "stop"}

ControlInv == MutexInv /\ StubInv /\ PredicateInv /\ StopInv /\ CloseWakesAll

-----------------------------------------------------------------------------
LEMMA InitQueue == ASSUME NEW n \in Nat PROVE [i \in 1..n |-> i] \in Seq(1..n)
  BY [i \in 1..n |-> i] \in [1..n -> 1..n], SeqDef

\* Types and control hold initially.
LEMMA InitTypedControl == Init => TypeOK /\ ControlInv
<1> SUFFICES ASSUME Init PROVE TypeOK /\ ControlInv
  OBVIOUS
<1>1. TypeOK
  BY ConstantsAssumption, InitQueue
     DEF Init, TypeOK, Stubs, NoStub, PCs, DtorStages
<1>2. ControlInv
  BY ConstantsAssumption
     DEF Init, ControlInv, MutexInv, StubInv, PredicateInv, StopInv, CloseWakesAll,
         Critical, Asleep, DtorStages
<1>3. QED
  BY <1>1, <1>2

\* Every step of a thread or of the destructor preserves them.
LEMMA NextTypedControl == TypeOK /\ ControlInv /\ [Next]_vars => TypeOK' /\ ControlInv'
<1> SUFFICES ASSUME TypeOK, ControlInv, [Next]_vars PROVE TypeOK' /\ ControlInv'
  OBVIOUS
<1> USE ConstantsAssumption
    DEF TypeOK, PCs, DtorStages, ControlInv, MutexInv, StubInv, PredicateInv, StopInv,
        CloseWakesAll, Asleep, Critical, Goto, Lock, Unlock, DtorGoto
<1>1. ASSUME NEW t \in Threads, Call(t) PROVE TypeOK' /\ ControlInv'
  BY <1>1 DEF Call
<1>2. ASSUME NEW t \in Threads, LockGet(t) PROVE TypeOK' /\ ControlInv'
  BY <1>2 DEF LockGet
<1>3. ASSUME NEW t \in Threads, TestPredicate(t) PROVE TypeOK' /\ ControlInv'
  BY <1>3 DEF TestPredicate
<1>4. ASSUME NEW t \in Threads, Block(t) PROVE TypeOK' /\ ControlInv'
  BY <1>4 DEF Block
<1>5. ASSUME NEW t \in Threads, SpuriousWake(t) PROVE TypeOK' /\ ControlInv'
  BY <1>5 DEF SpuriousWake
<1>6. ASSUME NEW t \in Threads, Take(t) PROVE TypeOK' /\ ControlInv'
  <2>1. CASE m_isStop
    BY <1>6, <2>1 DEF Take
  <2>2. CASE ~m_isStop
    <3>1. /\ Head(m_connections) \in Stubs
          /\ Tail(m_connections) \in Seq(Stubs)
      BY <1>6, <2>2, HeadTailProperties DEF Take
    <3>2. TypeOK'
      BY <1>6, <2>2, <3>1 DEF Take
    <3>3. ControlInv'
      BY <1>6, <2>2, <3>1 DEF Take
    <3>4. QED
      BY <3>2, <3>3
  <2>3. QED
    BY <2>1, <2>2
<1>7. ASSUME NEW t \in Threads, UseStub(t) PROVE TypeOK' /\ ControlInv'
  BY <1>7 DEF UseStub
<1>8. ASSUME NEW t \in Threads, RpcReturn(t) PROVE TypeOK' /\ ControlInv'
  BY <1>8 DEF RpcReturn
<1>9. ASSUME NEW t \in Threads, LockRelease(t) PROVE TypeOK' /\ ControlInv'
  BY <1>9 DEF LockRelease
<1>10. ASSUME NEW t \in Threads, Push(t) PROVE TypeOK' /\ ControlInv'
  <2>1. CASE m_isStop
    BY <1>10, <2>1 DEF Push
  <2>2. CASE ~m_isStop
    <3>1. stub[t] \in Stubs /\ Append(m_connections, stub[t]) \in Seq(Stubs)
      BY <1>10, AppendProperties DEF Push
    <3>2. \A u \in Threads : \/ pc'[u] = pc[u]
                             \/ u = t /\ pc'[u] = "idle"
                             \/ pc[u] = "asleep" /\ pc'[u] = "lockGet"
      BY <1>10, <2>2 DEF Push, NotifyOne
    <3>3. pc' \in [Threads -> PCs] /\ pc'[t] = "idle"
      BY <1>10, <2>2 DEF Push, NotifyOne
    <3>4. TypeOK'
      BY <1>10, <2>2, <3>1, <3>3 DEF Push
    <3>5. /\ mutex = t /\ pc[t] = "push" /\ mutex' = NoThread /\ ~m_isStop'
          /\ stub' = [stub EXCEPT ![t] = NoStub] /\ dtor' = dtor /\ dtor # "gone"
      BY <1>10, <2>2 DEF Push
    <3>6. /\ MutexInv' /\ StopInv' /\ CloseWakesAll'
      BY <2>2, <3>2, <3>3, <3>5
    <3>7. StubInv' /\ PredicateInv'
      BY <2>2, <3>2, <3>3, <3>5
    <3>8. QED
      BY <3>4, <3>6, <3>7
  <2>3. QED
    BY <2>1, <2>2
<1>11. ASSUME NEW t \in Threads, UseDestroyed(t) PROVE TypeOK' /\ ControlInv'
  BY <1>11 DEF UseDestroyed
<1>12. ASSUME DtorLock PROVE TypeOK' /\ ControlInv'
  BY <1>12 DEF DtorLock
<1>13. ASSUME CloseStop PROVE TypeOK' /\ ControlInv'
  BY <1>13 DEF CloseStop
<1>14. ASSUME CloseNotifyAll PROVE TypeOK' /\ ControlInv'
  BY <1>14 DEF CloseNotifyAll
<1>15. ASSUME DtorClear PROVE TypeOK' /\ ControlInv'
  BY <1>15, EmptySeq DEF DtorClear
<1>16. ASSUME DtorEnd PROVE TypeOK' /\ ControlInv'
  BY <1>16 DEF DtorEnd
<1>17. CASE Ended \/ UNCHANGED vars
  BY <1>17 DEF Ended, vars
<1>18. QED
  BY <1>1, <1>2, <1>3, <1>4, <1>5, <1>6, <1>7, <1>8, <1>9, <1>10, <1>11, <1>12, <1>13,
     <1>14, <1>15, <1>16, <1>17 DEF Next, ThreadStep, PoolStep, DtorStep

\* The state keeps its types: the queue never holds a null stub.
THEOREM TypeCorrect == Spec => []TypeOK
  BY InitTypedControl, NextTypedControl, PTL DEF Spec

LEMMA TypedControl == Spec => [](TypeOK /\ ControlInv)
  BY InitTypedControl, NextTypedControl, PTL DEF Spec

\* Once the destructor has notified, nobody is left asleep in getConnection.
THEOREM ClosingWakes == Spec => []CloseWakesAll
  BY TypedControl, PTL DEF ControlInv

-----------------------------------------------------------------------------
(* Where the stubs are.                                                    *)

\* What getConnection and releaseConnection do to the queue, entry by entry.
LEMMA PopEntries ==
  ASSUME NEW S, NEW q \in Seq(S), q # <<>>
  PROVE  /\ DOMAIN q = 1..Len(q) /\ Len(q) \in Nat /\ Len(q) >= 1
         /\ Head(q) = q[1]
         /\ DOMAIN Tail(q) = 1..(Len(q) - 1)
         /\ \A i \in 1..(Len(q) - 1) : Tail(q)[i] = q[i + 1]
  BY HeadTailProperties, LenProperties, EmptySeq

LEMMA PushEntries ==
  ASSUME NEW S, NEW q \in Seq(S), NEW e \in S
  PROVE  /\ DOMAIN q = 1..Len(q) /\ Len(q) \in Nat
         /\ DOMAIN Append(q, e) = 1..(Len(q) + 1)
         /\ \A i \in 1..Len(q) : Append(q, e)[i] = q[i]
         /\ Append(q, e)[Len(q) + 1] = e
  BY AppendProperties, LenProperties

\* The steps that move a stub, seen from outside the critical section.
Borrows(t) == /\ m_connections # <<>>
              /\ stub[t] = NoStub
              /\ stub' = [stub EXCEPT ![t] = Head(m_connections)]
              /\ m_connections' = Tail(m_connections)
              /\ UNCHANGED m_isStop
Returns(t) == /\ stub[t] \in Stubs
              /\ stub' = [stub EXCEPT ![t] = NoStub]
              /\ m_connections' = Append(m_connections, stub[t])
              /\ UNCHANGED m_isStop
Drops(t) == /\ m_isStop
            /\ stub[t] \in Stubs
            /\ stub' = [stub EXCEPT ![t] = NoStub]
            /\ UNCHANGED <<m_connections, m_isStop>>
Stops == m_isStop' = TRUE /\ UNCHANGED <<m_connections, stub>>
Empties == m_isStop /\ m_connections' = <<>> /\ UNCHANGED <<m_isStop, stub>>

\* A step moves at most one stub, and in one of these ways.
LEMMA StubMoves ==
  TypeOK /\ ControlInv /\ [Next]_vars =>
     \/ \E t \in Threads : Borrows(t) \/ Returns(t) \/ Drops(t)
     \/ Stops
     \/ Empties
     \/ UNCHANGED <<m_isStop, m_connections, stub>>
<1> SUFFICES ASSUME TypeOK, ControlInv, [Next]_vars
             PROVE  \/ \E t \in Threads : Borrows(t) \/ Returns(t) \/ Drops(t)
                    \/ Stops
                    \/ Empties
                    \/ UNCHANGED <<m_isStop, m_connections, stub>>
  OBVIOUS
<1>1. ASSUME NEW t \in Threads, Take(t) PROVE Borrows(t) \/ UNCHANGED <<m_isStop, m_connections, stub>>
  BY <1>1 DEF Take, Borrows, Goto, ControlInv, PredicateInv, StubInv
<1>2. ASSUME NEW t \in Threads, Push(t) PROVE Returns(t) \/ Drops(t)
  BY <1>2 DEF Push, Returns, Drops, ControlInv, StubInv, TypeOK
<1>3. CloseStop => Stops
  BY DEF CloseStop, Stops
<1>4. DtorClear => Empties
  BY DEF DtorClear, Empties, DtorGoto, ControlInv, StopInv, TypeOK, DtorStages
<1>5. QED
  BY <1>1, <1>2, <1>3, <1>4
     DEF Next, ThreadStep, PoolStep, DtorStep, Call, LockGet, TestPredicate, Block,
         SpuriousWake, UseStub, RpcReturn, LockRelease, UseDestroyed, DtorLock,
         CloseNotifyAll, DtorEnd, Ended, vars

LEMMA InitNoSharing == Init => NoSharing
  BY DEF Init, NoSharing, NoStub

LEMMA NextNoSharing == TypeOK /\ ControlInv /\ NoSharing /\ [Next]_vars => NoSharing'
<1> SUFFICES ASSUME TypeOK, ControlInv, NoSharing, [Next]_vars PROVE NoSharing'
  OBVIOUS
<1> USE DEF TypeOK, NoSharing
<1>0. NoStub \notin Stubs
  BY DEF NoStub, Stubs
<1>1. ASSUME NEW t \in Threads, Borrows(t) PROVE NoSharing'
  <2>1. /\ Head(m_connections) = m_connections[1]
        /\ \A i \in DOMAIN m_connections' : /\ i + 1 \in DOMAIN m_connections
                                            /\ m_connections'[i] = m_connections[i + 1]
                                            /\ i \in Int /\ i + 1 # 1
        /\ 1 \in DOMAIN m_connections
    BY <1>1, PopEntries DEF Borrows
  <2>2. \A i, j \in DOMAIN m_connections' : m_connections'[i] = m_connections'[j] => i = j
    BY <2>1
  <2>3. \A u \in Threads, i \in DOMAIN m_connections' : stub'[u] # m_connections'[i]
    BY <1>1, <2>1 DEF Borrows
  <2>4. \A u, v \in Threads : stub'[u] = stub'[v] /\ stub'[u] # NoStub => u = v
    BY <1>1, <2>1 DEF Borrows
  <2>5. QED
    BY <2>2, <2>3, <2>4
<1>2. ASSUME NEW t \in Threads, Returns(t) PROVE NoSharing'
  <2>1. \A i \in DOMAIN m_connections' :
           \/ i \in DOMAIN m_connections /\ m_connections'[i] = m_connections[i]
           \/ i = Len(m_connections) + 1 /\ m_connections'[i] = stub[t]
    BY <1>2, PushEntries DEF Returns
  <2>2. \A i, j \in DOMAIN m_connections' : m_connections'[i] = m_connections'[j] => i = j
    BY <1>2, <2>1
  <2>3. \A i \in DOMAIN m_connections' : m_connections'[i] # NoStub
    BY <1>0, <1>2, <2>1, ElementOfSeq, LenProperties DEF Returns
  <2>4. \A u \in Threads, i \in DOMAIN m_connections' : stub'[u] # m_connections'[i]
    BY <1>2, <1>0, <2>1, <2>3 DEF Returns
  <2>5. \A u, v \in Threads : stub'[u] = stub'[v] /\ stub'[u] # NoStub => u = v
    BY <1>2 DEF Returns
  <2>6. QED
    BY <2>2, <2>4, <2>5
<1>3. ASSUME NEW t \in Threads, Drops(t) PROVE NoSharing'
  <2>1. \A i \in DOMAIN m_connections : m_connections[i] # NoStub
    BY <1>0, ElementOfSeq, LenProperties
  <2>2. QED
    BY <1>3, <2>1 DEF Drops
<1>4. CASE Stops
  BY <1>4 DEF Stops
<1>5. CASE Empties
  BY <1>5 DEF Empties
<1>6. CASE UNCHANGED <<m_isStop, m_connections, stub>>
  BY <1>6
<1>7. QED
  BY <1>1, <1>2, <1>3, <1>4, <1>5, <1>6, StubMoves

\* A stub is never queued twice, nor queued and lent, nor lent to two calls.
THEOREM StubsNotShared == Spec => []NoSharing
  BY InitTypedControl, NextTypedControl, InitNoSharing, NextNoSharing, PTL DEF Spec

LEMMA InitNothingLost == Init => NothingLost
  BY DEF Init, NothingLost, Stubs

LEMMA NextNothingLost == TypeOK /\ ControlInv /\ NothingLost /\ [Next]_vars => NothingLost'
<1> SUFFICES ASSUME TypeOK, ControlInv, NothingLost, [Next]_vars, ~m_isStop', NEW s \in Stubs
             PROVE  \/ \E i \in DOMAIN m_connections' : m_connections'[i] = s
                    \/ \E t \in Threads : stub'[t] = s
  BY DEF NothingLost
<1> USE DEF TypeOK, NothingLost
<1>0. NoStub # s
  BY DEF NoStub, Stubs
<1>1. ASSUME NEW t \in Threads, Borrows(t)
      PROVE  \/ \E i \in DOMAIN m_connections' : m_connections'[i] = s
             \/ \E u \in Threads : stub'[u] = s
  <2>1. CASE \E u \in Threads : stub[u] = s
    BY <1>0, <1>1, <2>1 DEF Borrows
  <2>2. CASE \E i \in DOMAIN m_connections : m_connections[i] = s
    <3>1. PICK i \in DOMAIN m_connections : m_connections[i] = s
      BY <2>2
    <3>2. CASE i = 1
      BY <1>1, <3>1, <3>2, PopEntries DEF Borrows
    <3>3. CASE i # 1
      <4>1. i - 1 \in DOMAIN m_connections' /\ m_connections'[i - 1] = m_connections[i]
        BY <1>1, <3>1, <3>3, PopEntries DEF Borrows
      <4>2. QED
        BY <3>1, <4>1
    <3>4. QED
      BY <3>2, <3>3
  <2>3. QED
    BY <1>1, <2>1, <2>2 DEF Borrows
<1>2. ASSUME NEW t \in Threads, Returns(t)
      PROVE  \/ \E i \in DOMAIN m_connections' : m_connections'[i] = s
             \/ \E u \in Threads : stub'[u] = s
  <2>1. /\ \A i \in DOMAIN m_connections : /\ i \in DOMAIN m_connections'
                                           /\ m_connections'[i] = m_connections[i]
        /\ Len(m_connections) + 1 \in DOMAIN m_connections'
        /\ m_connections'[Len(m_connections) + 1] = stub[t]
    BY <1>2, PushEntries DEF Returns
  <2>2. \A u \in Threads : u # t => stub'[u] = stub[u]
    BY <1>2 DEF Returns
  <2>3. QED
    BY <1>2, <2>1, <2>2 DEF Returns
<1>3. QED
  BY <1>1, <1>2, StubMoves DEF Drops, Stops, Empties

\* As long as the pool runs, every stub is in the queue or with a call.
THEOREM StubsNotLost == Spec => []NothingLost
  BY InitTypedControl, NextTypedControl, InitNothingLost, NextNothingLost, PTL DEF Spec

-----------------------------------------------------------------------------
(* Nobody sleeps beside a stub that nobody is coming for.                  *)

\* Coming is finite, and its size grows with it.
LEMMA ComingFinite == /\ IsFiniteSet(Coming) /\ Cardinality(Coming) \in Nat
                      /\ IsFiniteSet(Coming') /\ Cardinality(Coming') \in Nat
                      /\ Coming \subseteq Coming' => Cardinality(Coming) <= Cardinality(Coming')
<1>1. Coming \in SUBSET Threads /\ Coming' \in SUBSET Threads
  BY DEF Coming
<1>2. IsFiniteSet(Coming) /\ IsFiniteSet(Coming')
  BY <1>1, ConstantsAssumption, FS_Subset
<1>3. Cardinality(Coming) \in Nat /\ Cardinality(Coming') \in Nat
  BY <1>2, FS_CardinalityType
<1>4. Coming \subseteq Coming' => Cardinality(Coming) <= Cardinality(Coming')
  BY <1>2, FS_Subset
<1>5. QED
  BY <1>2, <1>3, <1>4

\* A step that leaves the queue, puts nobody to sleep and turns nobody away is harmless.
LEMMA HarmlessStep ==
  ASSUME NoLostWakeup, TypeOK,
         m_connections' = m_connections,
         Asleep' \subseteq Asleep,
         Coming \subseteq Coming'
  PROVE  NoLostWakeup'
<1>1. Len(m_connections) \in Nat
  BY LenProperties DEF TypeOK
<1>2. QED
  BY <1>1, ComingFinite DEF NoLostWakeup

LEMMA NextNoLostWakeup ==
  TypeOK /\ ControlInv /\ NoLostWakeup /\ [Next]_vars => NoLostWakeup'
<1> SUFFICES ASSUME TypeOK, ControlInv, NoLostWakeup, [Next]_vars PROVE NoLostWakeup'
  OBVIOUS
<1>0. Len(m_connections) \in Nat
  BY LenProperties DEF TypeOK
<1>1. ASSUME NEW t \in Threads,
             \/ Call(t) \/ LockGet(t) \/ SpuriousWake(t) \/ UseStub(t)
             \/ RpcReturn(t) \/ LockRelease(t)
      PROVE  NoLostWakeup'
  <2>1. m_connections' = m_connections /\ Asleep' \subseteq Asleep /\ Coming \subseteq Coming'
    BY <1>1 DEF Call, LockGet, SpuriousWake, UseStub, RpcReturn, LockRelease, Goto, Lock,
                Asleep, Coming, TypeOK
  <2>2. QED
    BY <2>1, HarmlessStep
<1>2. ASSUME NEW t \in Threads, TestPredicate(t) PROVE NoLostWakeup'
  <2>1. CASE m_connections # <<>> \/ m_isStop
    <3>1. m_connections' = m_connections /\ Asleep' \subseteq Asleep /\ Coming \subseteq Coming'
      BY <1>2, <2>1 DEF TestPredicate, Goto, Asleep, Coming, TypeOK
    <3>2. QED
      BY <3>1, HarmlessStep
  <2>2. CASE m_connections = <<>>
    BY <1>2, <2>2, ComingFinite DEF TestPredicate, NoLostWakeup
  <2>3. QED
    BY <2>1, <2>2
<1>3. ASSUME NEW t \in Threads, Block(t) PROVE NoLostWakeup'
  BY <1>3, ComingFinite DEF Block, Goto, ControlInv, PredicateInv, NoLostWakeup
<1>4. ASSUME NEW t \in Threads, Take(t) PROVE NoLostWakeup'
  <2>1. /\ pc[t] = "take" /\ mutex = t /\ dtor # "gone"
        /\ pc' = [pc EXCEPT ![t] = "have"] /\ dtor' = dtor
    BY <1>4 DEF Take, Goto, Unlock
  <2>2. /\ Asleep' = Asleep
        /\ t \in Coming /\ Coming' = Coming \ {t}
    BY <2>1 DEF Asleep, Coming, TypeOK
  <2>3. CASE m_isStop
    <3>1. dtor = "unlocked"
      BY <2>1, <2>3, ConstantsAssumption
         DEF ControlInv, MutexInv, StopInv, TypeOK, DtorStages
    <3>2. QED
      BY <2>2, <3>1 DEF ControlInv, CloseWakesAll, NoLostWakeup
  <2>4. CASE ~m_isStop
    <3>1. Len(m_connections') = Len(m_connections) - 1
      BY <1>4, <2>1, <2>4, HeadTailProperties DEF Take, ControlInv, PredicateInv, TypeOK
    <3>2. Cardinality(Coming') = Cardinality(Coming) - 1
      BY <2>2, ComingFinite, FS_RemoveElement
    <3>3. QED
      BY <1>0, <2>2, <3>1, <3>2, ComingFinite DEF NoLostWakeup
  <2>5. QED
    BY <2>3, <2>4
<1>5. ASSUME NEW t \in Threads, Push(t) PROVE NoLostWakeup'
  <2>1. CASE m_isStop
    <3>1. m_connections' = m_connections /\ Asleep' \subseteq Asleep /\ Coming \subseteq Coming'
      BY <1>5, <2>1 DEF Push, Asleep, Coming, TypeOK
    <3>2. QED
      BY <3>1, HarmlessStep
  <2>2. CASE ~m_isStop /\ Asleep = {}
    <3>1. Asleep' = {}
      BY <1>5, <2>2 DEF Push, NotifyOne, Asleep, TypeOK
    <3>2. QED
      BY <3>1 DEF NoLostWakeup
  <2>3. CASE ~m_isStop /\ Asleep # {}
    <3>1. PICK u \in Asleep : pc' = [pc EXCEPT ![t] = "idle", ![u] = "lockGet"]
      BY <1>5, <2>3 DEF Push, NotifyOne
    <3>2. Coming' = Coming \cup {u} /\ u \notin Coming
      BY <1>5, <3>1 DEF Push, Coming, Asleep, TypeOK
    <3>3. Cardinality(Coming') = Cardinality(Coming) + 1
      BY <3>2, ComingFinite, FS_AddElement
    <3>4. Len(m_connections') = Len(m_connections) + 1
      BY <1>5, <2>3, AppendProperties DEF Push, ControlInv, StubInv, TypeOK
    <3>5. QED
      BY <1>0, <2>3, <3>3, <3>4, ComingFinite DEF NoLostWakeup
  <2>4. QED
    BY <2>1, <2>2, <2>3
<1>6. ASSUME NEW t \in Threads, UseDestroyed(t) PROVE NoLostWakeup'
  <2>1. Asleep = {} /\ Asleep' = {}
    BY <1>6 DEF UseDestroyed, ControlInv, CloseWakesAll, Asleep, TypeOK
  <2>2. QED
    BY <2>1 DEF NoLostWakeup
<1>7. CASE DtorLock \/ CloseStop \/ DtorEnd \/ Ended \/ UNCHANGED vars
  <2>1. m_connections' = m_connections /\ pc' = pc
    BY <1>7 DEF DtorLock, CloseStop, DtorEnd, Ended, vars
  <2>2. QED
    BY <2>1 DEF NoLostWakeup, Asleep, Coming
<1>8. CASE CloseNotifyAll
  <2>1. Asleep' = {}
    BY <1>8 DEF CloseNotifyAll, Asleep, TypeOK
  <2>2. QED
    BY <2>1 DEF NoLostWakeup
<1>9. CASE DtorClear
  BY <1>9, ComingFinite DEF DtorClear, NoLostWakeup
<1>10. QED
  BY <1>1, <1>2, <1>3, <1>4, <1>5, <1>6, <1>7, <1>8, <1>9
     DEF Next, ThreadStep, PoolStep, DtorStep

\* While a thread sleeps in getConnection, as many threads are on their way to the queue
\* as it holds stubs.
THEOREM WakeupsNotLost == Spec => []NoLostWakeup
<1>1. Init => NoLostWakeup
  BY DEF Init, NoLostWakeup, Asleep
<1>2. QED
  BY <1>1, InitTypedControl, NextTypedControl, NextNoLostWakeup, PTL DEF Spec

-----------------------------------------------------------------------------
(* The pool implements ConPool.                                            *)

\* The queue the constructor fills is an initial state of the abstract pool.
LEMMA InitImplements == Init => Pool!Init
  BY ConstantsAssumption, InitQueue DEF Init, Pool!Init, Stubs, NoStub

\* Each step is a step of the abstract pool or changes nothing in it.
LEMMA NextImplements == TypeOK /\ ControlInv /\ [Next]_vars => [Pool!Next]_(Pool!poolVars)
<1> SUFFICES ASSUME TypeOK, ControlInv, [Next]_vars PROVE [Pool!Next]_(Pool!poolVars)
  OBVIOUS
<1> USE DEF Pool!Next, Pool!poolVars
<1>1. ASSUME NEW t \in Threads, Take(t) PROVE [Pool!Next]_(Pool!poolVars)
  BY <1>1 DEF Take, Goto, Pool!Borrow, ControlInv, PredicateInv, StubInv
<1>2. ASSUME NEW t \in Threads, Push(t) PROVE [Pool!Next]_(Pool!poolVars)
  BY <1>2 DEF Push, Pool!GiveBack, ControlInv, StubInv
<1>3. CASE CloseStop
  BY <1>3 DEF CloseStop, Pool!Close
<1>4. CASE DtorClear
  BY <1>4 DEF DtorClear, DtorGoto, Pool!Discard, ControlInv, StopInv, TypeOK, DtorStages
<1>5. QED
  BY <1>1, <1>2, <1>3, <1>4
     DEF Next, ThreadStep, PoolStep, DtorStep, Call, LockGet, TestPredicate, Block,
         SpuriousWake, UseStub, RpcReturn, LockRelease, UseDestroyed, DtorLock,
         CloseNotifyAll, DtorEnd, Ended, vars

\* The monitor of RPCConPool and StatusConPool implements the pool its header promises.
THEOREM PoolImplemented == Spec => ImplementsPool
  BY InitImplements, InitTypedControl, NextTypedControl, NextImplements, PTL
     DEF Spec, ImplementsPool, Pool!Spec
=============================================================================
