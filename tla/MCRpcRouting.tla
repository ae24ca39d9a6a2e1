---------------------------- MODULE MCRpcRouting ----------------------------
(* RpcRouting with a few requests of all six kinds of clients.             *)
EXTENDS RpcRouting
=============================================================================
