------------------------------ MODULE MCPortal ------------------------------
(***************************************************************************)
(* An instance of Portal for TLC: a staff and a runner session, requests   *)
(* and persons are interchangeable.                                        *)
(***************************************************************************)
EXTENDS Portal, TLC

CONSTANTS c1

MCCapacity == c1 :> 2

PortalSymmetry == Permutations(Request) \cup Permutations(Adult) \cup Permutations(Profile)
=============================================================================
