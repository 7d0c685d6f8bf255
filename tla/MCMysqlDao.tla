----------------------------- MODULE MCMysqlDao -----------------------------
(* Instances of MysqlDao for TLC: two request threads, the check thread    *)
(* and the destructor compete for the connections and for null entries.    *)
EXTENDS MysqlDao
=============================================================================
