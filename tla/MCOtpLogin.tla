----------------------------- MODULE MCOtpLogin -----------------------------
(***************************************************************************)
(* Instances of OtpLogin for TLC.  Requests, verifications, phones and     *)
(* addresses have no attributes and are interchangeable.                   *)
(***************************************************************************)
EXTENDS OtpLogin, TLC

OtpSymmetry ==
  Permutations(Request) \cup Permutations(Try) \cup Permutations(Phone) \cup Permutations(IP)
=============================================================================
