---------------------------- MODULE MCRpcConPool ----------------------------
(* Instances of RpcConPool for TLC: three request threads compete for two  *)
(* stubs, so that threads sleep, are notified and are overtaken.           *)
EXTENDS RpcConPool, Messages

\* Whenever an RPC of GetVerifyCode or GetChatServer (verifygrpcclient.cc:98,
\* status_grpc_client.cc:73) returns, the server has read the request that the client made,
\* and the client reads the reply that the server made, unless the RPC failed.  No message
\* decides anything in RpcConPool, so its state holds none: this is said of all messages.
CallsCarryMessages ==
    [][\A t \in Threads : pc[t] = "rpc" /\ pc'[t] # "rpc" => MessagesCarry]_vars
=============================================================================
