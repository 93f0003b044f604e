------------------------------ MODULE MCEnrolment ------------------------------
(* Small instances of Enrolment for TLC. *)
EXTENDS Enrolment, TLC

CONSTANTS e1, e2, p1, p2

\* Free on the first day, a deposit from the second; closed on the third.
MCFeeTiers == {[from |-> 2, chf |-> 10]}

PeopleSymmetry == Permutations(Procs) \cup Permutations(Addresses)

=============================================================================
