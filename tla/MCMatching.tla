----------------------------- MODULE MCMatching -----------------------------
(* Small instances of Matching, with its queries, its mails and the abstract
   specification it refines, for TLC. *)
EXTENDS MatchingQueue, MatchingNotices, MatchingRefinement, TLC

CONSTANTS a1, a2, a3, r1, r2

\* a1 and r1 are near each other, so that the location decides between them;
\* r2 is near nobody, so that priority and registration date do.  a1 registered
\* first, r2 last.
MCLocation == [r \in Registrations |->
  CASE r \in {a1, r1} -> "north" [] r = r2 -> "west" [] OTHER -> "south"]
MCCreatedAt == [r \in Registrations |->
  CASE r = a1 -> 1 [] r = r1 -> 2 [] r = a3 -> 3 [] r = a2 -> 4 [] r = r2 -> 5]

ProcsSymmetry == Permutations(Procs)

\* consent is history: no action reads it, so that states which differ in it
\* alone have the same future for the properties that do not mention it.
ModuloHistory == <<reg, match, deposit, open, deadline, logged, req>>

=============================================================================
