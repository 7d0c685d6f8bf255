--------------------------- MODULE MCLogicSystem ---------------------------
(* Instances of LogicSystem for TLC.                                       *)
EXTENDS LogicSystem, TLC

Symmetry == Permutations(Threads) \cup Permutations(Emails) \cup Permutations(Passwords)
=============================================================================
