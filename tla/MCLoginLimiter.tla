--------------------------- MODULE MCLoginLimiter ---------------------------
(***************************************************************************)
(* Five logins for one username from one address: two failures lock it,   *)
(* and the clock runs until a lock has ended and another begun.            *)
(***************************************************************************)
EXTENDS LoginLimiter, TLC

(* Requests differ only by what they do, so they are interchangeable. *)
LoginSymmetry == Permutations(Login)
=============================================================================
