------------------------------ MODULE MCRouter ------------------------------
(***************************************************************************)
(* Instances of Engine for TLC.                                            *)
(***************************************************************************)
EXTENDS Engine

CONSTANTS a, ab, colon, star

MCPrefixes == {<<a>>, <<ab>>, <<colon>>}

MCBegins == {<<a, ab>>}

\* Where there are several groups, fewer routes will do.
MCNext == EngineNext /\ (Len(groups') > 1 => Len(routes') <= 1)

MCSpec == EngineInit /\ [][MCNext]_engineVars
=============================================================================
