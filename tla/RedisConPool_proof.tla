------------------------- MODULE RedisConPool_proof -------------------------
(***************************************************************************)
(* Proofs about RedisConPool, for every finite set of request threads and  *)
(* every pool size.  ControlInv says who holds m_mutex where, when a call  *)
(* has a context, and what the first close() settles: after it nobody is   *)
(* between the predicate and the wait, so the second close() misses        *)
(* nobody.  HeapInv relates the contexts that are allocated to those that  *)
(* are queued or lent.                                                     *)
(***************************************************************************)
EXTENDS RedisConPool, FiniteSetTheorems, SequenceTheorems, TLAPS

Critical == {"pred", "block", "take", "push"}

\* m_mutex is locked in the critical sections, by their thread alone.
MutexInv == /\ \A t \in Threads : pc[t] \in Critical => mutex = t
            /\ dtor = "drain" => mutex = Main

\* A call has a context from getConnection's return to the end of releaseConnection.
ContextInv == \A t \in Threads :
    /\ ctx[t] # NoContext => pc[t] \in {"command", "broken", "lockRelease", "push", "undefined"}
    /\ pc[t] \in {"command", "broken", "lockRelease", "push"} => ctx[t] # NoContext

\* The queue is as the predicate found it; m_isStop need not be.
PredicateInv == \A t \in Threads :
    /\ pc[t] = "block" => m_connections = <<>>
    /\ pc[t] = "take" => m_connections # <<>> \/ m_isStop

\* m_isStop is set first, and how often close() has returned fits the stage.
CloseInv == /\ m_isStop <=> dtor # "open"
            /\ dtor = "open" => closes = 0
            /\ dtor \in {"notify", "lock", "drain"} => closes < 2

\* The first close() lets nobody be about to sleep.
SettledInv == closes >= 1 => \A t \in Threads : pc[t] # "block"

ControlInv == /\ MutexInv /\ ContextInv /\ PredicateInv /\ CloseInv
              /\ SettledInv /\ StaysDrained /\ SecondCloseWakesAll

HeapInv == NoSharing /\ NothingLeaks

-----------------------------------------------------------------------------
LEMMA InitQueue ==
  ASSUME NEW n \in 0..PoolSize
  PROVE  [i \in 1..n |-> i] \in Seq(Contexts)
<1>1. [i \in 1..n |-> i] \in [1..n -> Contexts] /\ n \in Nat
  BY ConstantsAssumption DEF Contexts
<1>2. QED
  BY <1>1, SeqDef

\* Types and control hold initially.
LEMMA InitTypedControl == Init => TypeOK /\ ControlInv
<1> SUFFICES ASSUME Init PROVE TypeOK /\ ControlInv
  OBVIOUS
<1>1. PICK n \in 0..PoolSize : m_connections = [i \in 1..n |-> i] /\ live = 1..n
  BY DEF Init
<1>2. m_connections \in Seq(Contexts) /\ live \subseteq Contexts
  <2>1. live \subseteq Contexts
    BY <1>1, ConstantsAssumption DEF Contexts
  <2>2. QED
    BY <1>1, <2>1, InitQueue
<1>3. TypeOK
  <2>1. pc \in [Threads -> PCs] /\ ctx \in [Threads -> Contexts \cup {NoContext}]
    BY DEF Init, PCs
  <2>2. /\ m_isStop = FALSE /\ mutex = NoThread /\ redis \in {"up", "down"}
        /\ dtor \in DtorStages /\ closes \in 0..2
    BY DEF Init, DtorStages
  <2>3. QED
    BY <1>2, <2>1, <2>2 DEF TypeOK
<1>4. ControlInv
  BY DEF Init, ControlInv, MutexInv, ContextInv, PredicateInv, CloseInv, SettledInv,
         StaysDrained, SecondCloseWakesAll, Critical
<1>5. QED
  BY <1>3, <1>4

\* What a release does to the other threads, whatever it notifies.
LEMMA PushPc ==
  ASSUME NEW t \in Threads, Push(t), TypeOK
  PROVE  /\ pc' \in [Threads -> PCs]
         /\ pc'[t] = "idle"
         /\ \A u \in Threads : u # t => \/ pc'[u] = pc[u]
                                        \/ pc[u] = "asleep" /\ pc'[u] = "lockGet"
<1>1. CASE pc' = [pc EXCEPT ![t] = "idle"]
  BY <1>1 DEF TypeOK, PCs
<1>2. ASSUME NEW u \in Asleep, pc' = [[pc EXCEPT ![t] = "idle"] EXCEPT ![u] = "lockGet"]
      PROVE  /\ pc' \in [Threads -> PCs]
             /\ pc'[t] = "idle"
             /\ \A v \in Threads : v # t => \/ pc'[v] = pc[v]
                                            \/ pc[v] = "asleep" /\ pc'[v] = "lockGet"
  <2>1. u \in Threads /\ pc[u] = "asleep" /\ u # t
    BY <1>2 DEF Asleep, Push
  <2>2. QED
    BY <1>2, <2>1 DEF TypeOK, PCs
<1>3. QED
  BY <1>1, <1>2 DEF Push, NotifyOne

\* Every step preserves types and control.
LEMMA NextTypedControl == TypeOK /\ ControlInv /\ [Next]_vars => TypeOK' /\ ControlInv'
<1> SUFFICES ASSUME TypeOK, ControlInv, [Next]_vars PROVE TypeOK' /\ ControlInv'
  OBVIOUS
<1> USE ConstantsAssumption
    DEF TypeOK, PCs, DtorStages, ControlInv, MutexInv, ContextInv, PredicateInv, CloseInv,
        SettledInv, StaysDrained, SecondCloseWakesAll, Asleep, Critical, Goto, Lock, Unlock,
        DtorGoto, contexts, ending
<1>1. ASSUME NEW t \in Threads, Call(t) PROVE TypeOK' /\ ControlInv'
  BY <1>1 DEF Call
<1>2. ASSUME NEW t \in Threads, LockGet(t) PROVE TypeOK' /\ ControlInv'
  BY <1>2 DEF LockGet
<1>3. ASSUME NEW t \in Threads, TestPredicate(t) PROVE TypeOK' /\ ControlInv'
  BY <1>3 DEF TestPredicate
<1>4. ASSUME NEW t \in Threads, Block(t) PROVE TypeOK' /\ ControlInv'
  BY <1>4 DEF Block
<1>5. ASSUME NEW t \in Threads, SpuriousWake(t) PROVE TypeOK' /\ ControlInv'
  BY <1>5 DEF SpuriousWake
<1>6. ASSUME NEW t \in Threads, Take(t) PROVE TypeOK' /\ ControlInv'
  <2>1. CASE m_isStop
    BY <1>6, <2>1 DEF Take
  <2>2. CASE ~m_isStop
    <3>1. Head(m_connections) \in Contexts /\ Tail(m_connections) \in Seq(Contexts)
      BY <1>6, <2>2, HeadTailProperties DEF Take
    <3>2. Head(m_connections) # NoContext
      BY <3>1 DEF Contexts, NoContext
    <3>3. TypeOK'
      BY <1>6, <2>2, <3>1 DEF Take
    <3>4. ControlInv'
      BY <1>6, <2>2, <3>1, <3>2 DEF Take
    <3>5. QED
      BY <3>3, <3>4
  <2>3. QED
    BY <2>1, <2>2
<1>7. ASSUME NEW t \in Threads, Command(t) PROVE TypeOK' /\ ControlInv'
  BY <1>7 DEF Command
<1>8. ASSUME NEW t \in Threads, Replace(t) PROVE TypeOK' /\ ControlInv'
  <2>1. CASE redis = "up"
    <3>1. PICK new \in Contexts \ (live \ {ctx[t]}) :
             /\ Goto(t, "broken", "lockRelease")
             /\ ctx' = [ctx EXCEPT ![t] = new]
             /\ live' = (live \ {ctx[t]}) \cup {new}
      BY <1>8, <2>1 DEF Replace
    <3>2. new # NoContext
      BY DEF Contexts, NoContext
    <3>3. TypeOK'
      BY <1>8, <3>1 DEF Replace
    <3>4. ControlInv'
      BY <1>8, <3>1, <3>2 DEF Replace
    <3>5. QED
      BY <3>3, <3>4
  <2>2. CASE redis # "up"
    BY <1>8, <2>2 DEF Replace
  <2>3. QED
    BY <2>1, <2>2
<1>9. ASSUME NEW t \in Threads, LockRelease(t) PROVE TypeOK' /\ ControlInv'
  BY <1>9 DEF LockRelease
<1>10. ASSUME NEW t \in Threads, Push(t) PROVE TypeOK' /\ ControlInv'
  <2>1. /\ pc' \in [Threads -> PCs] /\ pc'[t] = "idle"
        /\ \A u \in Threads : u # t => \/ pc'[u] = pc[u]
                                       \/ pc[u] = "asleep" /\ pc'[u] = "lockGet"
    BY <1>10, PushPc
  <2>2. /\ pc[t] = "push" /\ mutex = t /\ mutex' = NoThread /\ redis' = redis
        /\ m_isStop' = m_isStop /\ dtor' = dtor /\ closes' = closes
        /\ ctx' = [ctx EXCEPT ![t] = NoContext]
    BY <1>10 DEF Push
  <2>3. /\ m_connections' \in Seq(Contexts)
        /\ live' \subseteq Contexts
        /\ m_isStop => m_connections' = m_connections
    <3>1. CASE m_isStop
      BY <1>10, <3>1 DEF Push
    <3>2. CASE ~m_isStop
      <4>1. ctx[t] \in Contexts
        BY <2>2
      <4>2. QED
        BY <1>10, <3>2, <4>1, AppendProperties DEF Push
    <3>3. QED
      BY <3>1, <3>2
  <2>4. TypeOK'
    BY <2>1, <2>2, <2>3
  <2>5. MutexInv' /\ ContextInv' /\ PredicateInv' /\ CloseInv'
    BY <2>1, <2>2
  <2>6. SettledInv' /\ StaysDrained' /\ SecondCloseWakesAll'
    BY <2>1, <2>2, <2>3
  <2>7. QED
    BY <2>4, <2>5, <2>6
<1>11. ASSUME NEW t \in Threads, UseDestroyed(t) PROVE TypeOK' /\ ControlInv'
  BY <1>11 DEF UseDestroyed
<1>12. CASE RedisChanges
  BY <1>12 DEF RedisChanges
<1>13. CASE CloseStop
  BY <1>13 DEF CloseStop
<1>14. CASE CloseNotifyAll
  BY <1>14 DEF CloseNotifyAll
<1>15. CASE CloseLock
  BY <1>15 DEF CloseLock
<1>16. CASE CloseDrain
  BY <1>16, EmptySeq DEF CloseDrain
<1>17. CASE DtorEnd
  BY <1>17 DEF DtorEnd
<1>18. CASE UNCHANGED vars
  BY <1>18 DEF vars
<1>19. QED
  BY <1>1, <1>2, <1>3, <1>4, <1>5, <1>6, <1>7, <1>8, <1>9, <1>10, <1>11, <1>12, <1>13,
     <1>14, <1>15, <1>16, <1>17, <1>18 DEF Next, ThreadStep, PoolStep, Talk, CloseStep

\* The state keeps its types: nullptr is never queued.
THEOREM TypeCorrect == Spec => []TypeOK
  BY InitTypedControl, NextTypedControl, PTL DEF Spec

LEMMA TypedControl == Spec => [](TypeOK /\ ControlInv)
  BY InitTypedControl, NextTypedControl, PTL DEF Spec

\* Once close() has returned, the queue stays empty whoever returns a context.
THEOREM DrainedForGood == Spec => []StaysDrained
  BY TypedControl, PTL DEF ControlInv

\* Once the second close() has notified, nobody sleeps in getConnection.
THEOREM SecondCloseWakes == Spec => []SecondCloseWakesAll
  BY TypedControl, PTL DEF ControlInv

-----------------------------------------------------------------------------
(* Where the contexts are.                                                 *)

\* What getConnection and releaseConnection do to the queue.
LEMMA PopEntries ==
  ASSUME NEW S, NEW q \in Seq(S), q # <<>>
  PROVE  /\ DOMAIN q = 1..Len(q) /\ Len(q) \in Nat /\ Len(q) >= 1
         /\ Head(q) = q[1] /\ Head(q) \in S
         /\ DOMAIN Tail(q) = 1..(Len(q) - 1)
         /\ \A i \in 1..(Len(q) - 1) : Tail(q)[i] = q[i + 1]
  BY HeadTailProperties, LenProperties, EmptySeq

LEMMA PushEntries ==
  ASSUME NEW S, NEW q \in Seq(S), NEW e \in S
  PROVE  /\ DOMAIN q = 1..Len(q) /\ Len(q) \in Nat
         /\ DOMAIN Append(q, e) = 1..(Len(q) + 1)
         /\ \A i \in 1..Len(q) : Append(q, e)[i] = q[i]
         /\ Append(q, e)[Len(q) + 1] = e
  BY AppendProperties, LenProperties

\* The entries of the queue differ.
Distinct(q) == \A i, j \in DOMAIN q : q[i] = q[j] => i = j
Entries(q) == {q[i] : i \in DOMAIN q}

LEMMA PopDistinct ==
  ASSUME NEW S, NEW q \in Seq(S), q # <<>>, Distinct(q)
  PROVE  /\ Head(q) \in Entries(q) /\ Distinct(Tail(q))
         /\ Entries(Tail(q)) = Entries(q) \ {Head(q)}
<1>1. /\ DOMAIN q = 1..Len(q) /\ Len(q) \in Nat /\ Len(q) >= 1 /\ Head(q) = q[1]
      /\ DOMAIN Tail(q) = 1..(Len(q) - 1)
      /\ \A i \in 1..(Len(q) - 1) : Tail(q)[i] = q[i + 1]
  BY PopEntries
<1>2. Distinct(Tail(q))
  BY <1>1 DEF Distinct
<1>3. ASSUME NEW e \in Entries(Tail(q)) PROVE e \in Entries(q) \ {Head(q)}
  <2>1. PICK i \in 1..(Len(q) - 1) : e = Tail(q)[i]
    BY <1>1, <1>3 DEF Entries
  <2>2. e = q[i + 1] /\ i + 1 \in DOMAIN q /\ 1 \in DOMAIN q /\ i + 1 # 1
    BY <1>1, <2>1
  <2>3. QED
    BY <1>1, <2>2 DEF Distinct, Entries
<1>4. ASSUME NEW e \in Entries(q) \ {Head(q)} PROVE e \in Entries(Tail(q))
  <2>1. PICK i \in DOMAIN q : e = q[i]
    BY <1>4 DEF Entries
  <2>2. i # 1
    BY <1>1, <1>4, <2>1
  <2>3. i - 1 \in DOMAIN Tail(q) /\ Tail(q)[i - 1] = q[i]
    BY <1>1, <2>1, <2>2
  <2>4. QED
    BY <2>1, <2>3 DEF Entries
<1>5. Head(q) \in Entries(q)
  BY <1>1 DEF Entries
<1>6. QED
  BY <1>2, <1>3, <1>4, <1>5

LEMMA PushDistinct ==
  ASSUME NEW S, NEW q \in Seq(S), NEW e \in S, Distinct(q), e \notin Entries(q)
  PROVE  Distinct(Append(q, e)) /\ Entries(Append(q, e)) = Entries(q) \cup {e}
<1>1. /\ DOMAIN q = 1..Len(q) /\ Len(q) \in Nat
      /\ DOMAIN Append(q, e) = 1..(Len(q) + 1)
      /\ \A i \in 1..Len(q) : Append(q, e)[i] = q[i]
      /\ Append(q, e)[Len(q) + 1] = e
  BY PushEntries
<1>2. \A i \in DOMAIN q : q[i] # e
  BY DEF Entries
<1>3. Distinct(Append(q, e))
  BY <1>1, <1>2 DEF Distinct
<1>4. Entries(Append(q, e)) = Entries(q) \cup {e}
  <2>1. \A i \in DOMAIN Append(q, e) : i \in DOMAIN q \/ i = Len(q) + 1
    BY <1>1
  <2>2. \A i \in DOMAIN q : i \in DOMAIN Append(q, e)
    BY <1>1
  <2>3. Len(q) + 1 \in DOMAIN Append(q, e)
    BY <1>1
  <2>4. QED
    BY <1>1, <2>1, <2>2, <2>3 DEF Entries
<1>5. QED
  BY <1>3, <1>4

LEMMA QueueEntries == /\ Queued = Entries(m_connections)
                      /\ Queued' = Entries(m_connections')
  BY DEF Queued, Entries

\* Allocation and places agree initially.
LEMMA InitHeap == Init => HeapInv
<1> SUFFICES ASSUME Init PROVE HeapInv
  OBVIOUS
<1>1. PICK n \in 0..PoolSize : m_connections = [i \in 1..n |-> i] /\ live = 1..n
  BY DEF Init
<1>2. Queued = 1..n /\ Held = {}
  BY <1>1 DEF Init, Queued, Held
<1>3. NoContext \notin Queued
  BY <1>2 DEF NoContext
<1>4. QED
  BY <1>1, <1>2, <1>3 DEF Init, HeapInv, NoSharing, NothingLeaks

\* Every step preserves the agreement.
LEMMA NextHeap == TypeOK /\ ControlInv /\ HeapInv /\ [Next]_vars => HeapInv'
<1> SUFFICES ASSUME TypeOK, ControlInv, HeapInv, [Next]_vars PROVE HeapInv'
  OBVIOUS
<1> USE DEF TypeOK, HeapInv, NothingLeaks, Held
<1>0. /\ NoContext \notin Contexts /\ Distinct(m_connections) /\ m_connections \in Seq(Contexts)
      /\ \A t \in Threads : ctx[t] \notin Queued
      /\ \A t, u \in Threads : ctx[t] = ctx[u] /\ ctx[t] # NoContext => t = u
  BY DEF NoContext, Contexts, NoSharing, Distinct
<1>1. ASSUME NEW t \in Threads, Take(t), ~m_isStop PROVE HeapInv'
  <2>1. /\ m_connections # <<>> /\ ctx[t] = NoContext /\ live' = live
        /\ ctx' = [ctx EXCEPT ![t] = Head(m_connections)]
        /\ m_connections' = Tail(m_connections)
    BY <1>1 DEF Take, Goto, ControlInv, PredicateInv, ContextInv
  <2>2. /\ Head(m_connections) \in Queued /\ Distinct(m_connections')
        /\ Queued' = Queued \ {Head(m_connections)}
    BY <1>0, <2>1, PopDistinct, QueueEntries
  <2>3. Head(m_connections) \in live /\ Head(m_connections) # NoContext
    BY <1>0, <2>2
  <2>4. Held' = Held \cup {Head(m_connections)}
    BY <2>1, <2>3
  <2>5. NoSharing'
    BY <1>0, <2>1, <2>2, <2>3 DEF NoSharing, Distinct
  <2>6. QED
    BY <2>1, <2>2, <2>4, <2>5
<1>2. ASSUME NEW t \in Threads, Replace(t) PROVE HeapInv'
  <2>1. /\ ctx[t] # NoContext /\ m_connections' = m_connections /\ Queued' = Queued
        /\ ctx[t] \in Contexts
    BY <1>2 DEF Replace, Goto, ControlInv, ContextInv, Queued
  <2>2. /\ ctx[t] \in Held /\ ctx[t] \notin Queued
        /\ \A u \in Threads : u # t => ctx[u] # ctx[t]
    BY <1>0, <2>1
  <2>3. NoContext \notin Queued
    BY <1>0, QueueEntries, ElementOfSeq, LenProperties DEF Entries
  <2>4. CASE redis = "up"
    <3>1. PICK new \in Contexts \ (live \ {ctx[t]}) :
             /\ ctx' = [ctx EXCEPT ![t] = new]
             /\ live' = (live \ {ctx[t]}) \cup {new}
      BY <1>2, <2>4 DEF Replace
    <3>2. new # NoContext /\ new \notin Queued /\ new \notin Held \ {ctx[t]}
      BY <1>0, <2>2, <3>1
    <3>3. ctx'[t] = new /\ \A u \in Threads : u # t => ctx'[u] = ctx[u]
      BY <3>1
    <3>4. Held' = (Held \ {ctx[t]}) \cup {new}
      <4>1. \A c \in Held' : c \in (Held \ {ctx[t]}) \cup {new}
        BY <2>2, <3>3
      <4>2. \A c \in Held : c # ctx[t] => c \in Held'
        BY <3>3
      <4>3. new \in Held'
        BY <3>2, <3>3
      <4>4. QED
        BY <4>1, <4>2, <4>3
    <3>5. \A u \in Threads : u # t => ctx[u] # new
      BY <2>2, <3>2
    <3>6. NoSharing'
      BY <1>0, <2>1, <3>2, <3>3, <3>5 DEF NoSharing, Distinct
    <3> HIDE DEF Held
    <3>7. live' = Queued' \cup Held'
      BY <2>1, <2>2, <3>1, <3>4
    <3>8. QED
      BY <3>6, <3>7
  <2>5. CASE redis # "up"
    <3>1. ctx' = [ctx EXCEPT ![t] = NoContext] /\ live' = live \ {ctx[t]}
      BY <1>2, <2>5 DEF Replace
    <3>2. Held = Held' \cup {ctx[t]} /\ ctx[t] \notin Held'
      BY <1>0, <2>1, <3>1
    <3>3. NoSharing'
      BY <1>0, <2>1, <2>3, <3>1 DEF NoSharing, Distinct
    <3>4. QED
      BY <2>1, <2>2, <3>1, <3>2, <3>3
  <2>6. QED
    BY <2>4, <2>5
<1>3. ASSUME NEW t \in Threads, Push(t) PROVE HeapInv'
  <2>1. /\ ctx[t] # NoContext /\ ctx[t] \in Contexts
        /\ ctx' = [ctx EXCEPT ![t] = NoContext]
    BY <1>3 DEF Push, ControlInv, ContextInv
  <2>2. Held = Held' \cup {ctx[t]} /\ ctx[t] \notin Held' /\ ctx[t] \notin Queued
    BY <1>0, <2>1
  <2>3. NoContext \notin Queued
    BY <1>0, QueueEntries, ElementOfSeq, LenProperties DEF Entries
  <2>4. CASE m_isStop
    <3>1. m_connections' = m_connections /\ live' = live \ {ctx[t]} /\ Queued' = Queued
      BY <1>3, <2>4 DEF Push, Queued
    <3>2. NoSharing'
      BY <1>0, <2>1, <2>3, <3>1 DEF NoSharing, Distinct
    <3> HIDE DEF Held
    <3>3. live' = Queued' \cup Held'
      BY <2>2, <3>1
    <3>4. QED
      BY <3>2, <3>3
  <2>5. CASE ~m_isStop
    <3>1. m_connections' = Append(m_connections, ctx[t]) /\ live' = live
      BY <1>3, <2>5 DEF Push
    <3>2. Distinct(m_connections') /\ Queued' = Queued \cup {ctx[t]}
      BY <1>0, <2>1, <2>2, <3>1, PushDistinct, QueueEntries
    <3>3. NoSharing'
      BY <1>0, <2>1, <2>3, <3>2 DEF NoSharing, Distinct
    <3>4. QED
      BY <2>2, <3>1, <3>2, <3>3
  <2>6. QED
    BY <2>4, <2>5
<1>4. CASE CloseDrain
  <2>1. m_connections' = <<>> /\ live' = live \ Queued /\ ctx' = ctx
    BY <1>4 DEF CloseDrain
  <2>2. Queued' = {} /\ Held' = Held /\ Held \cap Queued = {}
    BY <1>0, <2>1 DEF Queued
  <2>3. NoSharing'
    BY <1>0, <2>1, <2>2 DEF NoSharing
  <2>4. QED
    BY <2>1, <2>2, <2>3
<1>5. CASE UNCHANGED <<m_connections, ctx, live>>
  BY <1>5 DEF NoSharing, Queued
<1>6. QED
  BY <1>1, <1>2, <1>3, <1>4, <1>5
     DEF Next, ThreadStep, PoolStep, Talk, CloseStep, Call, LockGet, TestPredicate, Block,
         SpuriousWake, Take, Command, LockRelease, UseDestroyed, RedisChanges, CloseStop,
         CloseNotifyAll, CloseLock, DtorEnd, vars, contexts

LEMMA Heap == Spec => [](TypeOK /\ ControlInv /\ HeapInv)
  BY InitTypedControl, NextTypedControl, InitHeap, NextHeap, PTL DEF Spec

\* A context is never queued twice, nor queued and lent, nor lent to two calls.
THEOREM ContextsNotShared == Spec => []NoSharing
  BY Heap, PTL DEF HeapInv

\* The contexts allocated and not freed are those that are queued or in a call.
THEOREM ContextsNotLeaked == Spec => []NothingLeaks
  BY Heap, PTL DEF HeapInv

\* While the pool is open only a failed replacement makes it smaller, and by one.
THEOREM ShrinkingBounded == Spec => ShrinksOnlyWhenDown
<1>1. ASSUME TypeOK, ControlInv, HeapInv, [Next]_vars, ~m_isStop
      PROVE  \/ Cardinality(live') = Cardinality(live)
             \/ redis = "down" /\ Cardinality(live') = Cardinality(live) - 1
  <2>1. IsFiniteSet(live)
    <3>1. 1 \in Int /\ PoolSize + 1 \in Int /\ live \in SUBSET (1..(PoolSize + 1))
      BY <1>1, ConstantsAssumption DEF TypeOK, Contexts
    <3>2. IsFiniteSet(1..(PoolSize + 1))
      BY <3>1, FS_Interval
    <3>3. QED
      BY <3>1, <3>2, FS_Subset
  <2>2. ASSUME NEW t \in Threads, Replace(t)
        PROVE  \/ Cardinality(live') = Cardinality(live)
               \/ redis = "down" /\ Cardinality(live') = Cardinality(live) - 1
    <3>1. ctx[t] \in live
      BY <1>1, <2>2 DEF Replace, Goto, ControlInv, ContextInv, HeapInv, NothingLeaks, Held
    <3>2. /\ IsFiniteSet(live \ {ctx[t]})
          /\ Cardinality(live \ {ctx[t]}) = Cardinality(live) - 1
          /\ Cardinality(live) \in Nat
      BY <2>1, <3>1, FS_RemoveElement, FS_CardinalityType
    <3>3. CASE redis = "up"
      <4>1. PICK new \in Contexts \ (live \ {ctx[t]}) : live' = (live \ {ctx[t]}) \cup {new}
        BY <2>2, <3>3 DEF Replace
      <4>2. Cardinality((live \ {ctx[t]}) \cup {new}) = Cardinality(live \ {ctx[t]}) + 1
        BY <3>2, <4>1, FS_AddElement
      <4>3. QED
        BY <3>2, <4>1, <4>2
    <3>4. CASE redis = "down"
      BY <2>2, <3>2, <3>4 DEF Replace
    <3>5. QED
      BY <1>1, <3>3, <3>4 DEF TypeOK
  <2>3. (\E t \in Threads : Replace(t)) \/ live' = live
    BY <1>1 DEF Next, ThreadStep, PoolStep, Talk, CloseStep, Call, LockGet, TestPredicate, Block,
           SpuriousWake, Take, Command, LockRelease, Push, UseDestroyed, RedisChanges,
           CloseStop, CloseNotifyAll, CloseLock, CloseDrain, DtorEnd, vars, contexts,
           ControlInv, CloseInv, DtorGoto
  <2>4. QED
    BY <2>2, <2>3
<1>2. QED
  BY <1>1, Heap, PTL DEF Spec, ShrinksOnlyWhenDown

-----------------------------------------------------------------------------
(* Nobody sleeps beside a context that nobody is coming for.               *)

\* Coming is finite, and its size grows with it.
LEMMA ComingFinite == /\ IsFiniteSet(Coming) /\ Cardinality(Coming) \in Nat
                      /\ IsFiniteSet(Coming') /\ Cardinality(Coming') \in Nat
                      /\ Coming \subseteq Coming' => Cardinality(Coming) <= Cardinality(Coming')
<1>1. Coming \in SUBSET Threads /\ Coming' \in SUBSET Threads
  BY DEF Coming
<1>2. IsFiniteSet(Coming) /\ IsFiniteSet(Coming')
  BY <1>1, ConstantsAssumption, FS_Subset
<1>3. Cardinality(Coming) \in Nat /\ Cardinality(Coming') \in Nat
  BY <1>2, FS_CardinalityType
<1>4. Coming \subseteq Coming' => Cardinality(Coming) <= Cardinality(Coming')
  BY <1>2, FS_Subset
<1>5. QED
  BY <1>2, <1>3, <1>4

\* A step is harmless if it keeps the queue, puts nobody to sleep and turns nobody away.
LEMMA HarmlessStep ==
  ASSUME NoLostWakeup, TypeOK, m_isStop' = m_isStop, m_connections' = m_connections,
         Asleep' \subseteq Asleep, Coming \subseteq Coming'
  PROVE  NoLostWakeup'
<1>1. Len(m_connections) \in Nat
  BY LenProperties DEF TypeOK
<1>2. QED
  BY <1>1, ComingFinite DEF NoLostWakeup

\* While the pool is open a step disturbs the balance of sleepers and contexts only as
\* getConnection and releaseConnection do, which restore it.
LEMMA NextNoLostWakeup ==
  TypeOK /\ ControlInv /\ NoLostWakeup /\ [Next]_vars => NoLostWakeup'
<1> SUFFICES ASSUME TypeOK, ControlInv, NoLostWakeup, [Next]_vars, ~m_isStop'
             PROVE  NoLostWakeup'
  BY DEF NoLostWakeup
<1> USE DEF contexts, ending
<1>0. Len(m_connections) \in Nat
  BY LenProperties DEF TypeOK
<1>1. ASSUME NEW t \in Threads,
             Call(t) \/ LockGet(t) \/ SpuriousWake(t) \/ Command(t) \/ LockRelease(t)
      PROVE  NoLostWakeup'
  <2>1. /\ m_isStop' = m_isStop /\ m_connections' = m_connections
        /\ Asleep' \subseteq Asleep /\ Coming \subseteq Coming'
    BY <1>1 DEF Call, LockGet, SpuriousWake, Command, LockRelease, Goto, Asleep, Coming, TypeOK
  <2>2. QED
    BY <2>1, HarmlessStep
<1>2. ASSUME NEW t \in Threads, TestPredicate(t) PROVE NoLostWakeup'
  <2>1. CASE m_connections # <<>>
    <3>1. /\ m_isStop' = m_isStop /\ m_connections' = m_connections
          /\ Asleep' \subseteq Asleep /\ Coming \subseteq Coming'
      BY <1>2, <2>1 DEF TestPredicate, Goto, Asleep, Coming, TypeOK
    <3>2. QED
      BY <3>1, HarmlessStep
  <2>2. CASE m_connections = <<>>
    BY <1>2, <2>2, ComingFinite DEF TestPredicate, NoLostWakeup
  <2>3. QED
    BY <2>1, <2>2
<1>3. ASSUME NEW t \in Threads, Block(t) PROVE NoLostWakeup'
  BY <1>3, ComingFinite DEF Block, Goto, ControlInv, PredicateInv, NoLostWakeup
<1>4. ASSUME NEW t \in Threads, Take(t) PROVE NoLostWakeup'
  <2>1. pc[t] = "take" /\ pc' = [pc EXCEPT ![t] = "command"] /\ ~m_isStop
    BY <1>4 DEF Take, Goto
  <2>2. /\ Asleep' = Asleep
        /\ t \in Coming /\ Coming' = Coming \ {t}
    BY <2>1 DEF Asleep, Coming, TypeOK
  <2>3. Len(m_connections') = Len(m_connections) - 1
    BY <1>4, <2>1, HeadTailProperties DEF Take, ControlInv, PredicateInv, TypeOK
  <2>4. Cardinality(Coming') = Cardinality(Coming) - 1
    BY <2>2, ComingFinite, FS_RemoveElement
  <2>5. QED
    BY <1>0, <2>1, <2>2, <2>3, <2>4, ComingFinite DEF NoLostWakeup
<1>5. ASSUME NEW t \in Threads, Replace(t) PROVE NoLostWakeup'
  <2>1. /\ m_isStop' = m_isStop /\ m_connections' = m_connections
        /\ Goto(t, "broken", "lockRelease") \/ Goto(t, "broken", "idle")
    BY <1>5 DEF Replace
  <2>2. Asleep' \subseteq Asleep /\ Coming \subseteq Coming'
    BY <2>1 DEF Goto, Asleep, Coming, TypeOK
  <2>3. QED
    BY <2>1, <2>2, HarmlessStep
<1>6. ASSUME NEW t \in Threads, Push(t) PROVE NoLostWakeup'
  <2>1. pc[t] = "push" /\ ~m_isStop
    BY <1>6 DEF Push
  <2>2. CASE Asleep = {}
    <3>1. Asleep' = {}
      BY <1>6, <2>1, <2>2 DEF Push, NotifyOne, Asleep, TypeOK
    <3>2. QED
      BY <3>1 DEF NoLostWakeup
  <2>3. CASE Asleep # {}
    <3>1. PICK u \in Asleep : pc' = [[pc EXCEPT ![t] = "idle"] EXCEPT ![u] = "lockGet"]
      BY <1>6, <2>1, <2>3 DEF Push, NotifyOne
    <3>2. Coming' = Coming \cup {u} /\ u \notin Coming
      BY <2>1, <3>1 DEF Coming, Asleep, TypeOK
    <3>3. Cardinality(Coming') = Cardinality(Coming) + 1
      BY <3>2, ComingFinite, FS_AddElement
    <3>4. Len(m_connections') = Len(m_connections) + 1
      BY <1>6, <2>1, AppendProperties DEF Push, ControlInv, ContextInv, TypeOK
    <3>5. QED
      BY <1>0, <2>1, <2>3, <3>3, <3>4, ComingFinite DEF NoLostWakeup
  <2>4. QED
    BY <2>2, <2>3
<1>7. CASE RedisChanges \/ UNCHANGED vars
  <2>1. m_connections' = m_connections /\ pc' = pc /\ m_isStop' = m_isStop
    BY <1>7 DEF RedisChanges, vars
  <2>2. QED
    BY <2>1 DEF NoLostWakeup, Asleep, Coming
<1>8. ASSUME CloseStop \/ CloseStep PROVE FALSE
  BY <1>8 DEF CloseStop, CloseStep, CloseNotifyAll, CloseLock, CloseDrain, DtorEnd, DtorGoto,
              ControlInv, CloseInv
<1>9. ASSUME NEW t \in Threads, UseDestroyed(t) PROVE FALSE
  BY <1>9 DEF UseDestroyed, ControlInv, CloseInv
<1>10. QED
  BY <1>1, <1>2, <1>3, <1>4, <1>5, <1>6, <1>7, <1>8, <1>9 DEF Next, ThreadStep, PoolStep, Talk

\* While the pool is open and a thread sleeps in getConnection, as many threads are on
\* their way to the queue as it has contexts.
THEOREM WakeupsNotLost == Spec => []NoLostWakeup
<1>1. Init => NoLostWakeup
  BY DEF Init, NoLostWakeup, Asleep
<1>2. QED
  BY <1>1, InitTypedControl, NextTypedControl, NextNoLostWakeup, PTL DEF Spec

-----------------------------------------------------------------------------
(* The pool implements RenewingPool.                                       *)

\* The queue the constructor fills is an initial state of the abstract pool.
LEMMA InitImplements == Init => Pool!Init
<1> SUFFICES ASSUME Init PROVE Pool!Init
  OBVIOUS
<1>1. PICK n \in 0..PoolSize : m_connections = [i \in 1..n |-> i]
  BY DEF Init
<1>2. QED
  BY <1>1, InitQueue DEF Init, Pool!Init

\* Each step is a step of the abstract pool or changes nothing in it.
LEMMA NextImplements ==
  TypeOK /\ ControlInv /\ HeapInv /\ [Next]_vars => [Pool!RenewingNext]_(Pool!poolVars)
<1> SUFFICES ASSUME TypeOK, ControlInv, HeapInv, [Next]_vars
             PROVE  [Pool!RenewingNext]_(Pool!poolVars)
  OBVIOUS
<1> USE DEF Pool!RenewingNext, Pool!Next, Pool!poolVars, contexts, ending
<1>1. ASSUME NEW t \in Threads, Take(t) PROVE [Pool!RenewingNext]_(Pool!poolVars)
  BY <1>1 DEF Take, Goto, Pool!Borrow, ControlInv, PredicateInv, ContextInv
<1>2. ASSUME NEW t \in Threads, Push(t) PROVE [Pool!RenewingNext]_(Pool!poolVars)
  BY <1>2 DEF Push, Pool!GiveBack, ControlInv, ContextInv
<1>3. ASSUME NEW t \in Threads, Replace(t) PROVE [Pool!RenewingNext]_(Pool!poolVars)
  <2>1. /\ ctx[t] # NoContext
        /\ m_connections' = m_connections /\ m_isStop' = m_isStop
    BY <1>3 DEF Replace, Goto, ControlInv, ContextInv
  <2>2. CASE redis = "up"
    <3>1. PICK new \in Contexts \ (live \ {ctx[t]}) : ctx' = [ctx EXCEPT ![t] = new]
      BY <1>3, <2>2 DEF Replace
    <3>2. CASE new = ctx[t]
      BY <2>1, <3>1, <3>2 DEF TypeOK
    <3>3. CASE new # ctx[t]
      <4>1. new \notin live /\ new # NoContext
        BY <3>1, <3>3, ConstantsAssumption DEF Contexts, NoContext
      <4>2. new \notin Pool!Used
        BY <4>1 DEF Pool!Used, HeapInv, NothingLeaks, Queued, Held
      <4>3. Pool!Renew(t)
        BY <2>1, <3>1, <4>2 DEF Pool!Renew
      <4>4. QED
        BY <4>3
    <3>4. QED
      BY <3>2, <3>3
  <2>3. CASE redis # "up"
    BY <1>3, <2>1, <2>3 DEF Replace, Pool!Renew
  <2>4. QED
    BY <2>2, <2>3
<1>4. CASE CloseStop
  BY <1>4 DEF CloseStop, Pool!Close
<1>5. CASE CloseDrain
  BY <1>5 DEF CloseDrain, DtorGoto, Pool!Discard, ControlInv, CloseInv
<1>6. QED
  BY <1>1, <1>2, <1>3, <1>4, <1>5
     DEF Next, ThreadStep, PoolStep, Talk, CloseStep, Call, LockGet, TestPredicate, Block,
         SpuriousWake, Command, LockRelease, UseDestroyed, RedisChanges, CloseNotifyAll,
         CloseLock, DtorEnd, vars

\* RedisConPool is a pool like RPCConPool, whose contexts may be renewed while they are lent.
THEOREM PoolImplemented == Spec => ImplementsPool
  BY InitImplements, InitTypedControl, NextTypedControl, InitHeap, NextHeap, NextImplements,
     PTL DEF Spec, ImplementsPool, Pool!RenewingSpec
=============================================================================
