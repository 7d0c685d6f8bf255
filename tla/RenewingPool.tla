---------------------------- MODULE RenewingPool ----------------------------
(***************************************************************************)
(* ConPool for connections that can break: a borrower may have the one it  *)
(* holds replaced by a new one, which nobody else has, or may lose it.     *)
(***************************************************************************)
EXTENDS ConPool

Used == {held[t] : t \in Threads} \cup {idle[i] : i \in DOMAIN idle}

Renew(t) == /\ held[t] # NoConn
            /\ \E c \in (Conns \ Used) \cup {NoConn} : held' = [held EXCEPT ![t] = c]
            /\ UNCHANGED <<idle, closed>>

RenewingNext == Next \/ \E t \in Threads : Renew(t)

RenewingSpec == Init /\ [][RenewingNext]_poolVars
=============================================================================
