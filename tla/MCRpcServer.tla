---------------------------- MODULE MCRpcServer ----------------------------
(***************************************************************************)
(* Instances of RpcServer for TLC.                                         *)
(***************************************************************************)
EXTENDS RpcServer, TLC

CONSTANTS k1, k2, r1, r2, r3, r4

\* All requests on the first connection, or one of them on the second.
FirstConn == [r \in Reqs |-> k1]
BothConns == [r \in Reqs |-> IF r = r2 THEN k2 ELSE k1]
=============================================================================
