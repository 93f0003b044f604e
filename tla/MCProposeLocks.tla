---------------------------- MODULE MCProposeLocks ----------------------------
(* Small instances of ProposeLocks for TLC. *)
EXTENDS ProposeLocks, TLC

CONSTANTS a1, a2, a3, r1, r2

\* Rows are met in the order they were written; the last ones rank first, as
\* after a re-queue or by location.
MCScanOrder == [r \in Registrations |->
  CASE r = a1 -> 1 [] r = a2 -> 2 [] r = a3 -> 3 [] r = r1 -> 4 [] r = r2 -> 5]
MCRankOrder == [r \in Registrations |-> 10 - MCScanOrder[r]]

=============================================================================
