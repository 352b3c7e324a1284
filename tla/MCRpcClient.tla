---------------------------- MODULE MCRpcClient ----------------------------
(***************************************************************************)
(* Instances of RpcClient for TLC.                                         *)
(***************************************************************************)
EXTENDS RpcClient, TLC

CONSTANTS c1, c2, c3, ch1, ch2

\* A channel for c1, and one of a single slot for the others.
MCDoneChan == [c \in Calls |-> IF c = c1 THEN ch1 ELSE ch2]
MCCap == [ch \in Chans |-> 1]
=============================================================================
