------------------------------ MODULE ConPool ------------------------------
(***************************************************************************)
(* What a connection pool promises to the request threads, as its header   *)
(* states it (verifygrpcclient.h:23-29): connections are lent first in,    *)
(* first out, one thread at a time, and once the pool is closed nothing is *)
(* lent any more.  Taking and giving back are single steps here; the mutex *)
(* and the condition variable are the business of the modules that         *)
(* implement this one.                                                     *)
(***************************************************************************)
EXTENDS Naturals, Sequences

CONSTANTS Threads,  \* the threads that borrow connections
          Conns,    \* the connections the pool was filled with
          NoConn    \* what a thread holds when it holds none; not in Conns

VARIABLES idle,     \* the connections that can be lent, oldest first
          held,     \* held[t]: the connection lent to t, or NoConn
          closed    \* the pool refuses to lend

poolVars == <<idle, held, closed>>

Init == /\ idle \in Seq(Conns)
        /\ \A i, j \in DOMAIN idle : i # j => idle[i] # idle[j]
        /\ held = [t \in Threads |-> NoConn]
        /\ closed = FALSE

Borrow(t) == /\ ~closed
             /\ held[t] = NoConn
             /\ idle # <<>>
             /\ held' = [held EXCEPT ![t] = Head(idle)]
             /\ idle' = Tail(idle)
             /\ UNCHANGED closed

\* A connection given back to a closed pool is thrown away.
GiveBack(t) == /\ held[t] # NoConn
               /\ held' = [held EXCEPT ![t] = NoConn]
               /\ idle' = IF closed THEN idle ELSE Append(idle, held[t])
               /\ UNCHANGED closed

Close == /\ closed' = TRUE
         /\ UNCHANGED <<idle, held>>

Discard == /\ closed
           /\ idle' = <<>>
           /\ UNCHANGED <<held, closed>>

Next == \/ \E t \in Threads : Borrow(t) \/ GiveBack(t)
        \/ Close
        \/ Discard

Spec == Init /\ [][Next]_poolVars
=============================================================================
