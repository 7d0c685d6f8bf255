----------------------------- MODULE EntryPool -----------------------------
(***************************************************************************)
(* What MySqlPool (mysql.cc) is to the calls of MysqlDao, with what these  *)
(* make of it: entries are lent first in, first out, one thread at a time, *)
(* and nothing once the pool is closed; but a call may give its connection *)
(* back a second time, as the null pointer that the first time left, or    *)
(* not at all.  The check thread leaves no trace here.  Lending and giving *)
(* back are single steps; who implements this module says why they may be. *)
(***************************************************************************)
EXTENDS Naturals, Sequences

CONSTANT Threads    \* the threads that borrow

VARIABLES idle,     \* the entries of the queue, oldest first: live or null
          held,     \* held[t]: what t has still to give back
          closed    \* the pool refuses to lend

poolVars == <<idle, held, closed>>

Init == /\ idle \in Seq({"live"})
        /\ held = [t \in Threads |-> "nothing"]
        /\ closed = FALSE

\* A null entry is popped as a connection is, but leaves its borrower with nothing.
Borrow(t) == /\ ~closed
             /\ held[t] = "nothing"
             /\ idle # <<>>
             /\ held' = [held EXCEPT ![t] = IF Head(idle) = "live" THEN "live" ELSE "nothing"]
             /\ idle' = Tail(idle)
             /\ UNCHANGED closed

\* What is given back to a closed pool is thrown away.  The next time the connection is null.
GiveBack(t) == /\ held[t] # "nothing"
               /\ \/ held' = [held EXCEPT ![t] = "nothing"]
                  \/ held[t] = "live" /\ held' = [held EXCEPT ![t] = "null"]
               /\ idle' = IF closed THEN idle ELSE Append(idle, held[t])
               /\ UNCHANGED closed

\* The call returns without giving its connection back.
Lose(t) == /\ held[t] = "live"
           /\ held' = [held EXCEPT ![t] = "nothing"]
           /\ UNCHANGED <<idle, closed>>

Close == /\ closed' = TRUE
         /\ UNCHANGED <<idle, held>>

Discard == /\ closed
           /\ idle' = <<>>
           /\ UNCHANGED <<held, closed>>

Next == \/ \E t \in Threads : Borrow(t) \/ GiveBack(t) \/ Lose(t)
        \/ Close
        \/ Discard

Spec == Init /\ [][Next]_poolVars
=============================================================================
