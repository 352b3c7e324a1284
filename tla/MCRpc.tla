------------------------------- MODULE MCRpc -------------------------------
(***************************************************************************)
(* Instances of Rpc for TLC.                                               *)
(***************************************************************************)
EXTENDS Rpc, TLC

CONSTANTS c1, c2, c3

\* A channel of one slot for each call.
MCDoneChan == [c \in Calls |-> c]
MCCap == [ch \in Chans |-> 1]

\* Another call is made when Client.Go or Client.Call has returned, and that of a
\* method that does not exist is made alone.
InTurn ==
  /\ \E c \in {c1, c2} : pc[c] = "idle" \/ C!Finished(c)
  /\ pc[c3] = "idle" \/ (pc[c1] = "idle" /\ pc[c2] = "idle")

\* As Quiescent, for the calls that are made.
MCQuiescent ==
  /\ rpc = "stopped"
  /\ \A c \in Calls : pc[c] = "idle" \/ C!Finished(c)
  /\ UNCHANGED vars

MCNext == (Next /\ InTurn') \/ MCQuiescent

MCFairSpec == Init /\ [][MCNext]_vars /\ Fairness
=============================================================================
