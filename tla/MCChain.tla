------------------------------ MODULE MCChain ------------------------------
(***************************************************************************)
(* Instances of Chain for TLC.                                             *)
(***************************************************************************)
EXTENDS Chain

Middlewares == {"Recovery", "CrossDomain", "Token", "Plain"}

\* Up to three middlewares in any order behind the Logger of Default().
MCChains ==
  {<<"Logger">> \o ms \o <<h>> :
     ms \in SeqOf(Middlewares, 3), h \in Services \cup {"NotFound"}}
=============================================================================
