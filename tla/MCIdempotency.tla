--------------------------- MODULE MCIdempotency ---------------------------
(***************************************************************************)
(* Instance of Idempotency for TLC: requests, keys and bodies have no      *)
(* attributes and are interchangeable.                                     *)
(***************************************************************************)
EXTENDS Idempotency, TLC

KeySymmetry == Permutations(Request) \cup Permutations(Key) \cup Permutations(Body)
=============================================================================
