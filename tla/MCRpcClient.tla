---------------------------- MODULE MCRpcClient ----------------------------
(* RpcClient on a small instance: see MCRpcClient.cfg for the bounds. *)
EXTENDS RpcClient
=============================================================================
