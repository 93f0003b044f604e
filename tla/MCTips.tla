------------------------------ MODULE MCTips ------------------------------
(* A small instance of Tips for TLC. *)
EXTENDS Tips, TLC

CONSTANTS r1, i1
=============================================================================
