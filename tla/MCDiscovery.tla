---------------------------- MODULE MCDiscovery ----------------------------
(***************************************************************************)
(* Instances of Discovery for TLC.                                         *)
(***************************************************************************)
EXTENDS Discovery

CONSTANTS s1, s2, g1, g2

\* The order of the addresses.
SortedOne == <<s1>>
SortedTwo == <<s1, s2>>
=============================================================================
