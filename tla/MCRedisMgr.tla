---------------------------- MODULE MCRedisMgr ----------------------------
(* RedisMgr with two threads that share two contexts.  Of the commands with *)
(* blanks, one for each way in which Redis takes the words that are too     *)
(* many; the other ones only end as errors in the same way.                 *)
EXTENDS RedisMgr

CONSTANT w1

MCBlanks ==
    Command({"ExistsKey", "LPop"}, {<<"1">>}, {0})
    \cup Command({"BRPop"}, {<<"1">>}, {1})
    \cup Command({"Set"}, {<<>>, <<w1, "NX">>, <<w1, "GET">>, <<w1, "EX", "1">>}, {0})
    \cup Command({"LPush", "HDel"}, {<<w1, "1">>}, {0})
    \cup Command({"HSet"}, {<<w1, w1, "1", "1">>}, {0})
=============================================================================
