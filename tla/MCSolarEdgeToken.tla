-------------------------- MODULE MCSolarEdgeToken --------------------------
(***************************************************************************)
(* Instances of SolarEdgeToken for TLC: two polls that may overlap (the    *)
(* service's loop and an operator's), an authorisation, and two grants.    *)
(***************************************************************************)
EXTENDS SolarEdgeToken, TLC

CONSTANTS p1, p2

PollerSymmetry == Permutations(Pollers)
=============================================================================
