-------------------------- MODULE MatchingRefinement --------------------------
(* Matching, with handlers that run one after the other, implements Pairing:
   the match table is a set of couples with answers, and fetching, logging,
   priorities and the time left to answer are invisible. *)
EXTENDS Matching

Coupled == {<<match[m].amb, match[m].ref>> : m \in {n \in Created : IsActive(match[n])}}
SaidYes == UNION {match[m].accepted : m \in {n \in Created : IsActive(match[n])}}
StandsAt == [r \in Registrations |-> reg[r].status]
HasPaid == {r \in Registrations : deposit[r] # "NONE"}

Promise == INSTANCE Pairing WITH
  standing <- StandsAt,
  pairs <- Coupled,
  yes <- SaidYes,
  paid <- HasPaid,
  opened <- open

(* Every behaviour of the service, handlers one after the other, is one that
   Pairing allows: each commit changes standing, couples, answers and deposits
   received together, as one of the visible events and nothing else. *)
ImplementsPairing == Promise!PSpec

=============================================================================
