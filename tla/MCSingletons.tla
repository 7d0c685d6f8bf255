---------------------------- MODULE MCSingletons ----------------------------
(* Singletons with two io threads, which construct the same or different   *)
(* statics at once, before and during exit.                                *)
EXTENDS Singletons
=============================================================================
