----------------------------- MODULE MCOutside -----------------------------
(***************************************************************************)
(* An instance of Outside for TLC: a proof, a new QR code and a notice     *)
(* about the proof that two transactions may queue.                        *)
(***************************************************************************)
EXTENDS Outside, TLC
=============================================================================
