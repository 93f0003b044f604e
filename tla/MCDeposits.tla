----------------------------- MODULE MCDeposits -----------------------------
(* Small instances of Deposits for TLC. *)
EXTENDS Deposits, TLC

CONSTANTS a1, r1
=============================================================================
