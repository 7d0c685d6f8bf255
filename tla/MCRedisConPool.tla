--------------------------- MODULE MCRedisConPool ---------------------------
(* Instances of RedisConPool for TLC: three request threads compete for    *)
(* two contexts, which break, are renewed or are lost.                     *)
EXTENDS RedisConPool
=============================================================================
