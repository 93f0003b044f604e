------------------------------- MODULE Matching -------------------------------
(***************************************************************************)
(* The matching engine and the match lifecycle of matching/services.py and *)
(* matching/models.py, as the requests of public/views/match.py and        *)
(* accounts/views.py and the two hourly crons drive them.                  *)
(*                                                                         *)
(* A handler first FETCHES: it loads the rows it works on into memory and  *)
(* evaluates its guards there.  It then COMMITS one transaction that saves *)
(* what it computed from the in-memory rows.  No row is locked and nothing *)
(* is read again in between, so another process may commit meanwhile.      *)
(* Each handler is therefore two actions of the process that runs it; the  *)
(* rows in memory are kept in req.  With one process in Procs handlers run *)
(* one after the other; with more they interleave.                         *)
(***************************************************************************)
EXTENDS Integers

CONSTANTS
  Ambassadors,  \* registrations with role AMBASSADOR
  Referees,     \* registrations with role REFEREE
  ValidPass,    \* registrations whose prior_pass admits their role
  PaidTier,     \* registrations with fee_chf > 0
  Location,     \* preferred_location of each registration
  CreatedAt,    \* created_at of each registration
  MatchIds,     \* bound: the primary keys of the matches that may be created
  MaxPriority,  \* bound: no re-queue or rejoin goes beyond this, up or down
  Procs,        \* gunicorn workers and crons that can be in a handler at once
  NoMatch,      \* a match row that was not created
  Idle          \* a process that is in no handler

Registrations == Ambassadors \cup Referees

RegistrationStatus == {"UNVERIFIED", "VERIFIED", "PAUSED", "SUSPENDED"}
MatchStatus == {"PROPOSED", "PENDING", "ACCEPTED",
                "DECLINED", "EXPIRED", "CANCELLED"}
OpenStatus == {"PROPOSED", "PENDING"}
ActiveStatus == OpenStatus \cup {"ACCEPTED"}
PaymentStatus == {"NONE", "HELD", "CAPTURED", "REFUNDED", "FORFEITED"}
\* now is before, at, or after expires_at
Deadline == {"ahead", "now", "over"}

RegistrationRow == [status : RegistrationStatus, priority : Int]

\* accepted: the parties whose *_accepted_at is set;
\* reported: no_show_reported_by is set.
MatchRow == [amb : Ambassadors, ref : Referees, status : MatchStatus,
             accepted : SUBSET Registrations, reported : BOOLEAN]

MatchOps == {"accept", "withdraw", "decline", "report", "expire"}
RegistrationOps == {"confirm", "rejoin", "propose"}

\* What a process holds in memory between fetch and commit: the match row with
\* its two registrations (select_related), or one registration.
MatchRequest == [op : MatchOps, id : MatchIds, who : Registrations,
                 row : MatchRow, own : RegistrationRow, other : RegistrationRow]
RegistrationRequest == [op : RegistrationOps, who : Registrations,
                        own : RegistrationRow]

ASSUME RolesDisjoint == Ambassadors \cap Referees = {}
ASSUME SubsetsOfRegistrations ==
  ValidPass \subseteq Registrations /\ PaidTier \subseteq Registrations
ASSUME CreatedAtOrders ==
  /\ CreatedAt \in [Registrations -> Nat]
  /\ \A r, s \in Registrations : CreatedAt[r] = CreatedAt[s] => r = s
ASSUME BoundsAssumption == MatchIds \subseteq Nat /\ MaxPriority \in Nat
ASSUME NullsAssumption ==
  /\ NoMatch \notin MatchRow
  /\ Idle \notin MatchRequest \cup RegistrationRequest

VARIABLES
  reg,      \* [Registrations -> RegistrationRow]: the registration table
  match,    \* [MatchIds -> MatchRow or NoMatch]: the match table
  deposit,  \* [Registrations -> PaymentStatus]: the registration's Payment
  open,     \* timezone.now() >= matching_opens_at()
  deadline, \* [MatchIds -> Deadline]: where now stands to expires_at
  logged,   \* per match, "after" of its last StateTransitionLog row
  req,      \* [Procs -> what the process holds in memory]
  consent   \* history: the parties whose last committed answer is "accept"

vars == <<reg, match, deposit, open, deadline, logged, req, consent>>

-----------------------------------------------------------------------------
(* Queries.  They take the tables as arguments, because a transaction reads
   its own uncommitted writes. *)

Parties(row) == {row.amb, row.ref}
OtherParty(row, r) == IF r = row.amb THEN row.ref ELSE row.amb
IsActive(row) == row.status \in ActiveStatus
\* mutant: the guard only refuses a match that is accepted
IsOpenUnlessAccepted(row) == row.status # "ACCEPTED"
IsOpen(row) == row.status \in OpenStatus
Created == {m \in MatchIds : match[m] # NoMatch}
OpenMatches == {m \in Created : IsOpen(match[m])}

(* The two comparisons of the code: MatchQuerySet.lapsed takes expires_at <= now,
   MatchDisplay._window_lapsed takes now > expires_at. *)
Due == {m \in MatchIds : deadline[m] # "ahead"}
Over == {m \in MatchIds : deadline[m] = "over"}

ActiveFor(ms, r) ==
  {m \in MatchIds : ms[m] # NoMatch /\ IsActive(ms[m]) /\ r \in Parties(ms[m])}

\* mutants: an ACCEPTED match does not count, or the status is not looked at
EligibleWhenAccepted(regs, ms, r) ==
  /\ regs[r].status = "VERIFIED"
  /\ r \in ValidPass
  /\ \A m \in ActiveFor(ms, r) : ~IsOpen(ms[m])
EligibleAnyStatus(regs, ms, r) == r \in ValidPass /\ ActiveFor(ms, r) = {}
Eligible(regs, ms, r) ==
  /\ regs[r].status = "VERIFIED"
  /\ r \in ValidPass
  /\ ActiveFor(ms, r) = {}

Counterparts(r) == IF r \in Ambassadors THEN Referees ELSE Ambassadors

Candidates(regs, ms, r) == {c \in Counterparts(r) : Eligible(regs, ms, c)}

\* mutant: among equals the last to register comes first
RanksLastFirst(regs, r, c, d) ==
  LET near(x) == Location[x] = Location[r]
  IN  \/ near(c) /\ ~near(d)
      \/ /\ near(c) = near(d)
         /\ \/ regs[c].priority > regs[d].priority
            \/ /\ regs[c].priority = regs[d].priority
               /\ CreatedAt[c] > CreatedAt[d]
(* _rank_candidates: shared location first, then priority, then FIFO. *)
RanksBefore(regs, r, c, d) ==
  LET near(x) == Location[x] = Location[r]
  IN  \/ near(c) /\ ~near(d)
      \/ /\ near(c) = near(d)
         /\ \/ regs[c].priority > regs[d].priority
            \/ /\ regs[c].priority = regs[d].priority
               /\ CreatedAt[c] < CreatedAt[d]

BestCandidates(regs, ms, r) ==
  {c \in Candidates(regs, ms, r) :
     \A d \in Candidates(regs, ms, r) \ {c} : RanksBefore(regs, r, c, d)}

FreeIds(ms) == {m \in MatchIds : ms[m] = NoMatch}
NextId(ms) == {m \in FreeIds(ms) : \A n \in FreeIds(ms) : m <= n}

\* mutant: the proposer takes the ambassador's side, whatever its role
NewMatchByProposer(r, c) ==
  [amb |-> r, ref |-> c, status |-> "PROPOSED", accepted |-> {}, reported |-> FALSE]
NewMatch(r, c) ==
  [amb |-> IF r \in Ambassadors THEN r ELSE c,
   ref |-> IF r \in Ambassadors THEN c ELSE r,
   status |-> "PROPOSED", accepted |-> {}, reported |-> FALSE]

(* propose_match(r), r being VERIFIED in memory: what it leaves of the match
   table ms.  Once MatchIds is used up no further match is created (bound). *)
MayPropose(r, ms) == open /\ r \in ValidPass /\ ActiveFor(ms, r) = {}

Propose(r, regs, ms) ==
  IF MayPropose(r, ms) /\ BestCandidates(regs, ms, r) # {} /\ NextId(ms) # {}
    THEN \E c \in BestCandidates(regs, ms, r), m \in NextId(ms) :
           match' = [ms EXCEPT ![m] = NewMatch(r, c)]
    ELSE match' = ms

-----------------------------------------------------------------------------
(* Row mutations: the model method followed by save(update_fields=...). *)

\* mutant: one acceptance is enough
DerivedStatusFromAny(row, accepted) ==
  IF Parties(row) \cap accepted = {} THEN "PROPOSED" ELSE "ACCEPTED"
(* Match.set_status *)
DerivedStatus(row, accepted) ==
  CASE Parties(row) \subseteq accepted -> "ACCEPTED"
    [] Parties(row) \cap accepted = {} -> "PROPOSED"
    [] OTHER -> "PENDING"

\* mutants: update_fields lacks the acceptances, or the status
SaveAcceptanceStatusAlone(ms, m, accepted, status) == [ms EXCEPT ![m].status = status]
SaveAcceptanceDatesAlone(ms, m, accepted, status) == [ms EXCEPT ![m].accepted = accepted]
SaveAcceptance(ms, m, accepted, status) ==
  [ms EXCEPT ![m].accepted = accepted, ![m].status = status]
SaveStatus(ms, m, status) == [ms EXCEPT ![m].status = status]
SaveCancelled(ms, m) == [ms EXCEPT ![m].status = "CANCELLED", ![m].reported = TRUE]

(* Registration.pause and .suspend save the status alone. *)
Pause(regs, r) == [regs EXCEPT ![r].status = "PAUSED"]
Suspend(regs, r) == [regs EXCEPT ![r].status = "SUSPENDED"]
(* Registration.requeue: no guard, and the priority in memory plus one. *)
Requeue(regs, r, seen) ==
  [regs EXCEPT ![r] = [status |-> "VERIFIED", priority |-> seen.priority + 1]]

\* mutants: every held deposit is captured, or the ambassador's alone
CaptureAllHeld(ds, rs) ==
  [r \in Registrations |-> IF ds[r] = "HELD" THEN "CAPTURED" ELSE ds[r]]
CaptureAmbassador(ds, rs) ==
  [r \in Registrations |->
     IF r \in rs \cap Ambassadors /\ ds[r] = "HELD" THEN "CAPTURED" ELSE ds[r]]
(* capture and forfeit lock the payment row and require it to be HELD. *)
Capture(ds, rs) ==
  [r \in Registrations |-> IF r \in rs /\ ds[r] = "HELD" THEN "CAPTURED" ELSE ds[r]]
Forfeit(ds, r) == IF ds[r] = "HELD" THEN [ds EXCEPT ![r] = "FORFEITED"] ELSE ds

-----------------------------------------------------------------------------
(* Fetch: the first half of a handler. *)

FetchMatch(p, op, m, r) ==
  /\ req[p] = Idle
  /\ m \in Created
  /\ r \in Parties(match[m])
  /\ req' = [req EXCEPT ![p] =
               [op |-> op, id |-> m, who |-> r, row |-> match[m],
                own |-> reg[r], other |-> reg[OtherParty(match[m], r)]]]
  /\ UNCHANGED <<reg, match, deposit, open, deadline, logged, consent>>

FetchRegistration(p, op, r) ==
  /\ req[p] = Idle
  /\ req' = [req EXCEPT ![p] = [op |-> op, who |-> r, own |-> reg[r]]]
  /\ UNCHANGED <<reg, match, deposit, open, deadline, logged, consent>>

(* MatchDisplay.guard_state: "actionable" and "waiting". *)
Actionable(m, r) == IsOpen(match[m]) /\ m \notin Over /\ r \notin match[m].accepted
\* mutant: a party that has not answered may withdraw
WaitingUnanswered(m, r) == IsOpen(match[m]) /\ m \notin Over
Waiting(m, r) == IsOpen(match[m]) /\ m \notin Over /\ r \in match[m].accepted

(* Bounds on the priorities a re-queue of rs, or a rejoin of r, starts from. *)
RequeueRoom(rs) == \A r \in rs : reg[r].priority < MaxPriority
RejoinRoom(r) == reg[r].priority > -MaxPriority

ViewAccept(p, m, r) == FetchMatch(p, "accept", m, r) /\ Actionable(m, r)
ViewWithdraw(p, m, r) == FetchMatch(p, "withdraw", m, r) /\ Waiting(m, r)
ViewDecline(p, m, r) ==
  /\ FetchMatch(p, "decline", m, r)
  /\ Actionable(m, r)
  /\ RequeueRoom({OtherParty(match[m], r)})
ViewReport(p, m, r) ==
  /\ FetchMatch(p, "report", m, r)
  /\ match[m].status = "ACCEPTED"
  /\ ~match[m].reported
  /\ RequeueRoom({r})

\* mutant: the sweep forgets the matches nobody answered
SweepFetchPending(p, m) ==
  /\ m \in Created \cap Due
  /\ FetchMatch(p, "expire", m, match[m].amb)
  /\ match[m].status = "PENDING"
  /\ RequeueRoom(match[m].accepted)
(* The sweep lists the matches that are due, then fetches each in a transaction of
   its own; Match.expire lets it through only if it is still open. *)
SweepFetch(p, m) ==
  /\ m \in Created \cap Due
  /\ FetchMatch(p, "expire", m, match[m].amb)
  /\ IsOpen(match[m])
  /\ RequeueRoom(match[m].accepted)

(* The confirmation link of a free registration. *)
ViewConfirm(p, r) ==
  /\ r \notin PaidTier
  /\ reg[r].status = "UNVERIFIED"
  /\ FetchRegistration(p, "confirm", r)

\* mutant: a suspended registration may rejoin as well
ViewRejoinSuspended(p, r) ==
  /\ reg[r].status \in {"PAUSED", "SUSPENDED"}
  /\ RejoinRoom(r)
  /\ FetchRegistration(p, "rejoin", r)
ViewRejoin(p, r) ==
  /\ reg[r].status = "PAUSED"
  /\ RejoinRoom(r)
  /\ FetchRegistration(p, "rejoin", r)

(* run_matching fetches one ambassador of its list; propose_match goes on only
   with a VERIFIED one. *)
DrainFetch(p, r) ==
  /\ r \in Ambassadors \cap ValidPass
  /\ reg[r].status = "VERIFIED"
  /\ FetchRegistration(p, "propose", r)

-----------------------------------------------------------------------------
(* Commit: the transaction, computed from the rows in memory. *)

\* mutant: the log row has before and after swapped
LogSwapped(m, before, after) == logged' = [logged EXCEPT ![m] = before]
(* record_transition after the save *)
Log(m, before, after) ==
  logged' = IF before = after THEN logged ELSE [logged EXCEPT ![m] = after]

Finish(p) == req' = [req EXCEPT ![p] = Idle]

InHandler(p, op) == req[p] # Idle /\ req[p].op = op

CommitAccept(p) ==
  LET q == req[p]
      accepted == q.row.accepted \cup {q.who}
      status == DerivedStatus(q.row, accepted)
  IN  /\ InHandler(p, "accept")
      /\ match' = SaveAcceptance(match, q.id, accepted, status)
      /\ Log(q.id, q.row.status, status)
      /\ deposit' = IF status = "ACCEPTED" THEN Capture(deposit, Parties(q.row))
                                           ELSE deposit
      /\ consent' = [consent EXCEPT ![q.id] = @ \cup {q.who}]
      /\ Finish(p)
      /\ UNCHANGED <<reg, open, deadline>>

CommitWithdraw(p) ==
  LET q == req[p]
      accepted == q.row.accepted \ {q.who}
      status == DerivedStatus(q.row, accepted)
  IN  /\ InHandler(p, "withdraw")
      /\ match' = SaveAcceptance(match, q.id, accepted, status)
      /\ Log(q.id, q.row.status, status)
      /\ consent' = [consent EXCEPT ![q.id] = @ \ {q.who}]
      /\ Finish(p)
      /\ UNCHANGED <<reg, deposit, open, deadline>>

CommitDecline(p) ==
  LET q == req[p]
      other == OtherParty(q.row, q.who)
      regs == Requeue(Pause(reg, q.who), other, q.other)
  IN  /\ InHandler(p, "decline")
      /\ q.own.status = "VERIFIED"
      /\ Log(q.id, q.row.status, "DECLINED")
      /\ reg' = regs
      /\ Propose(other, regs, SaveStatus(match, q.id, "DECLINED"))
      /\ consent' = [consent EXCEPT ![q.id] = @ \ {q.who}]
      /\ Finish(p)
      /\ UNCHANGED <<deposit, open, deadline>>

\* mutant: the party that answered is paused, the silent one re-queued
LapsedSwapped(regs, q, r, seen) ==
  IF r \in q.row.accepted THEN Pause(regs, r) ELSE Requeue(regs, r, seen)
(* handle_lapsed_participant *)
Lapsed(regs, q, r, seen) ==
  IF r \in q.row.accepted THEN Requeue(regs, r, seen) ELSE Pause(regs, r)

(* The party that had accepted is proposed for after both were handled.  At
   most one had: with both, set_status would have made the match ACCEPTED. *)
CommitExpire(p) ==
  LET q == req[p]
      other == OtherParty(q.row, q.who)
      regs == Lapsed(Lapsed(reg, q, q.who, q.own), q, other, q.other)
      expired == SaveStatus(match, q.id, "EXPIRED")
  IN  /\ InHandler(p, "expire")
      /\ q.who \notin q.row.accepted => q.own.status = "VERIFIED"
      /\ other \notin q.row.accepted => q.other.status = "VERIFIED"
      /\ Log(q.id, q.row.status, "EXPIRED")
      /\ reg' = regs
      /\ CASE q.who \in q.row.accepted -> Propose(q.who, regs, expired)
           [] other \in q.row.accepted -> Propose(other, regs, expired)
           [] OTHER -> match' = expired
      /\ Finish(p)
      /\ UNCHANGED <<deposit, open, deadline, consent>>

CommitReport(p) ==
  LET q == req[p]
      accused == OtherParty(q.row, q.who)
      regs == Requeue(Suspend(reg, accused), q.who, q.own)
  IN  /\ InHandler(p, "report")
      /\ q.other.status = "VERIFIED"
      /\ Log(q.id, q.row.status, "CANCELLED")
      /\ reg' = regs
      /\ deposit' = Forfeit(deposit, accused)
      /\ Propose(q.who, regs, SaveCancelled(match, q.id))
      /\ Finish(p)
      /\ UNCHANGED <<open, deadline, consent>>

(* Registration.pause or .suspend refuses the row in memory: the exception
   rolls the whole transaction back. *)
Rollback(p) ==
  LET q == req[p]
  IN  /\ \/ InHandler(p, "decline") /\ q.own.status # "VERIFIED"
         \/ InHandler(p, "report") /\ q.other.status # "VERIFIED"
         \/ /\ InHandler(p, "expire")
            /\ \/ q.who \notin q.row.accepted /\ q.own.status # "VERIFIED"
               \/ /\ OtherParty(q.row, q.who) \notin q.row.accepted
                  /\ q.other.status # "VERIFIED"
      /\ Finish(p)
      /\ UNCHANGED <<reg, match, deposit, open, deadline, logged, consent>>

(* confirm_registration saves the status alone; rejoin_queue also the priority
   in memory minus one. *)
CommitConfirm(p) ==
  LET q == req[p]
      regs == [reg EXCEPT ![q.who].status = "VERIFIED"]
  IN  /\ InHandler(p, "confirm")
      /\ reg' = regs
      /\ Propose(q.who, regs, match)
      /\ Finish(p)
      /\ UNCHANGED <<deposit, open, deadline, logged, consent>>

CommitRejoin(p) ==
  LET q == req[p]
      regs == [reg EXCEPT ![q.who] = [status |-> "VERIFIED",
                                      priority |-> q.own.priority - 1]]
  IN  /\ InHandler(p, "rejoin")
      /\ reg' = regs
      /\ Propose(q.who, regs, match)
      /\ Finish(p)
      /\ UNCHANGED <<deposit, open, deadline, logged, consent>>

CommitDrain(p) ==
  /\ InHandler(p, "propose")
  /\ Propose(req[p].who, reg, match)
  /\ Finish(p)
  /\ UNCHANGED <<reg, deposit, open, deadline, logged, consent>>

(* finalize_paid_registration locks the registration row and reads it under
   the lock, so that it is one step; its second call finds the deposit. *)
FinalizePaid(p, r) ==
  LET confirmed == [reg EXCEPT ![r].status = "VERIFIED"]
  IN  /\ req[p] = Idle
      /\ r \in PaidTier
      /\ deposit[r] = "NONE"
      /\ deposit' = [deposit EXCEPT ![r] = "HELD"]
      /\ IF reg[r].status = "UNVERIFIED"
           THEN reg' = confirmed /\ Propose(r, confirmed, match)
           ELSE UNCHANGED <<reg, match>>
      /\ UNCHANGED <<open, deadline, logged, req, consent>>

(* A deposit goes back: by staff in Stripe (record_payment_refunded, whatever its
   status) or by close_season (refund, while it is HELD).  The registration and
   its match stay as they are. *)
Refund(r) ==
  /\ deposit[r] \in PaymentStatus \ {"NONE", "REFUNDED"}
  /\ deposit' = [deposit EXCEPT ![r] = "REFUNDED"]
  /\ UNCHANGED <<reg, match, open, deadline, logged, req, consent>>

-----------------------------------------------------------------------------
(* Time *)

OpenMatching ==
  /\ ~open
  /\ open' = TRUE
  /\ UNCHANGED <<reg, match, deposit, deadline, logged, req, consent>>

(* Time reaches the deadline of an open match, then passes it. *)
Lapse(m) ==
  /\ m \in OpenMatches \ Over
  /\ deadline' = [deadline EXCEPT ![m] = IF m \in Due THEN "over" ELSE "now"]
  /\ UNCHANGED <<reg, match, deposit, open, logged, req, consent>>

-----------------------------------------------------------------------------
Init ==
  /\ reg = [r \in Registrations |-> [status |-> "UNVERIFIED", priority |-> 0]]
  /\ match = [m \in MatchIds |-> NoMatch]
  /\ deposit = [r \in Registrations |-> "NONE"]
  /\ open = FALSE
  /\ deadline = [m \in MatchIds |-> "ahead"]
  /\ logged = [m \in MatchIds |-> "PROPOSED"]
  /\ req = [p \in Procs |-> Idle]
  /\ consent = [m \in MatchIds |-> {}]

Fetch(p) ==
  \/ \E m \in MatchIds, r \in Registrations :
       \/ ViewAccept(p, m, r)
       \/ ViewWithdraw(p, m, r)
       \/ ViewDecline(p, m, r)
       \/ ViewReport(p, m, r)
  \/ \E m \in MatchIds : SweepFetch(p, m)
  \/ \E r \in Registrations :
       \/ ViewConfirm(p, r)
       \/ ViewRejoin(p, r)
       \/ DrainFetch(p, r)

Commit(p) ==
  \/ CommitAccept(p)
  \/ CommitWithdraw(p)
  \/ CommitDecline(p)
  \/ CommitExpire(p)
  \/ CommitReport(p)
  \/ Rollback(p)
  \/ CommitConfirm(p)
  \/ CommitRejoin(p)
  \/ CommitDrain(p)

Next ==
  \/ \E p \in Procs : Fetch(p) \/ Commit(p)
  \/ \E p \in Procs, r \in Registrations : FinalizePaid(p, r)
  \/ \E r \in Registrations : Refund(r)
  \/ OpenMatching
  \/ \E m \in MatchIds : Lapse(m)

Spec == Init /\ [][Next]_vars

(* A handler that has fetched goes on; the hourly expire_matches cron fetches
   every match that is due in turn, whatever else keeps the processes busy. *)
Fairness ==
  /\ \A p \in Procs : WF_vars(Commit(p))
  /\ \A m \in MatchIds : SF_vars(\E p \in Procs : SweepFetch(p, m))

FairSpec == Spec /\ Fairness

-----------------------------------------------------------------------------
(* Properties *)

TypeOK ==
  /\ reg \in [Registrations -> RegistrationRow]
  /\ match \in [MatchIds -> MatchRow \cup {NoMatch}]
  /\ deposit \in [Registrations -> PaymentStatus]
  /\ open \in BOOLEAN
  /\ deadline \in [MatchIds -> Deadline]
  /\ logged \in [MatchIds -> MatchStatus]
  /\ req \in [Procs -> MatchRequest \cup RegistrationRequest \cup {Idle}]
  /\ consent \in [MatchIds -> SUBSET Registrations]

(* Whatever handlers interleave, the status of an active match is the one
   set_status derives from the two acceptances stored with it: in particular
   contact details (shown on ACCEPTED alone) need both. *)
StatusFollowsAcceptances ==
  \A m \in Created : IsActive(match[m]) =>
    match[m].status = DerivedStatus(match[m], match[m].accepted)

(* Whatever handlers interleave, the last StateTransitionLog row of a match
   ends in the status it has: the log an operator reconciles by is complete. *)
AuditTrail == \A m \in Created : logged[m] = match[m].status

Settled == {"CAPTURED", "REFUNDED"}

(* Whatever handlers interleave, no deposit of a mutually accepted match is left
   HELD, FORFEITED or missing: each is captured, unless it was paid back before
   or after.  So close_season and delete_account, which refund what is HELD, have
   nothing of an accepted pair to refund. *)
NothingHeldOnceAccepted ==
  \A m \in Created : match[m].status = "ACCEPTED" =>
    \A r \in Parties(match[m]) \cap PaidTier : deposit[r] \in Settled

(* Whatever handlers interleave, nobody is ever matched before the e-mail
   address is confirmed and, in a paid tier, the deposit received. *)
MatchedAreConfirmed ==
  \A m \in Created : \A r \in Parties(match[m]) :
    /\ reg[r].status # "UNVERIFIED"
    /\ r \in PaidTier => deposit[r] # "NONE"

(* Invariant 3 of the code: a registration holds at most one active match. *)
OneActiveMatch ==
  \A r \in Registrations : \A m, n \in ActiveFor(match, r) : m = n

(* Both parties of an active match are VERIFIED, which pause and suspend rely
   on (otherwise the decline, the sweep or the report fails). *)
ActivePartiesVerified ==
  \A m \in Created : IsActive(match[m]) =>
    \A r \in Parties(match[m]) : reg[r].status = "VERIFIED"

(* The contacts of both parties are revealed only if the last answer of each
   was to accept: neither declined nor withdrew after it. *)
MutualConsent ==
  \A m \in Created : match[m].status \in {"ACCEPTED", "CANCELLED"} =>
    Parties(match[m]) \subseteq consent[m]

(* DECLINED, EXPIRED and CANCELLED are terminal. *)
TerminalIsFinal ==
  [][\A m \in Created : ~IsActive(match[m]) => match'[m] = match[m]]_vars

(* A deposit is captured only in a step that leaves its owner in a match whose
   two parties both have accept as their last answer. *)
CaptureNeedsConsent ==
  [][\A r \in Registrations :
       deposit[r] # "CAPTURED" /\ deposit'[r] = "CAPTURED" =>
         \E m \in Created : /\ r \in Parties(match[m])
                            /\ Parties(match[m]) \subseteq consent'[m]]_vars

(* Once reported as a no-show, a registration never comes back into the pool. *)
SuspendedStays ==
  [][\A r \in Registrations :
       reg[r].status = "SUSPENDED" => reg'[r].status = "SUSPENDED"]_vars

(* A registration of a paid tier that is suspended as a no-show has lost its
   deposit. *)
SuspendedForfeits ==
  \A r \in PaidTier : reg[r].status = "SUSPENDED" => deposit[r] = "FORFEITED"

(* pause() would refuse a party that has not accepted: what makes the sweep roll
   back, at this run and at every later one until the party is VERIFIED again. *)
Unpausable(m) ==
  \E r \in Parties(match[m]) \ match[m].accepted : reg[r].status # "VERIFIED"

(* A match left unanswered past its contact window is closed by the hourly sweep,
   whatever handlers interleave with it, unless a party that has not accepted is
   no longer VERIFIED (a stale save has revived the match, or matched somebody
   who was paused meanwhile).  The last disjunct is the bound on priorities. *)
LapsedIsSwept ==
  \A m \in MatchIds :
    m \in OpenMatches \cap Due ~>
      m \notin OpenMatches \/ Unpausable(m) \/ ~RequeueRoom(match[m].accepted)

-----------------------------------------------------------------------------
(* What makes the four properties above that hold whatever handlers interleave
   inductive: a request keeps enough of what its fetch saw. *)

RequestHolds(q) ==
  /\ q.op \in MatchOps =>
       /\ q.who \in Parties(q.row)
       /\ match[q.id] # NoMatch
       /\ match[q.id].amb = q.row.amb
       /\ match[q.id].ref = q.row.ref
       /\ IsActive(q.row)
       /\ q.row.status = DerivedStatus(q.row, q.row.accepted)
  /\ q.op \in {"accept", "decline", "expire", "withdraw"} => IsOpen(q.row)
  /\ q.op = "accept" => q.who \notin q.row.accepted
  /\ q.op = "withdraw" => q.who \in q.row.accepted
  /\ q.op = "report" =>
       /\ q.row.status = "ACCEPTED"
       /\ \A r \in Parties(q.row) \cap PaidTier : deposit[r] \in Settled
  /\ q.op = "confirm" => q.who \notin PaidTier
  /\ q.op \in {"rejoin", "propose"} => reg[q.who].status # "UNVERIFIED"

RequestsHold == \A p \in Procs : req[p] # Idle => RequestHolds(req[p])

DepositsInHand ==
  \A r \in Registrations :
    /\ deposit[r] # "FORFEITED"
    /\ IF r \in PaidTier THEN reg[r].status # "UNVERIFIED" => deposit[r] # "NONE"
                         ELSE deposit[r] = "NONE"

UnusedUnlogged == \A m \in MatchIds \ Created : logged[m] = "PROPOSED"

(* Whatever handlers interleave: what a handler relies on when it saves still
   holds, though the rows it read may be stale (the match exists with the same
   parties, the answer it records is a new one, the deposits of a reported pair
   are captured or paid back, never HELD again); in a paid tier nobody leaves
   UNVERIFIED before the deposit is received; no deposit is ever forfeited, because
   the report that would do it finds it settled by the acceptance or a refund. *)
ConcurrentInv == RequestsHold /\ DepositsInHand /\ UnusedUnlogged

-----------------------------------------------------------------------------
(* What makes the properties of handlers that run one after the other
   inductive. *)

OneAtATime == \A p, q \in Procs : p = q

RowsFresh ==
  \A p \in Procs : req[p] # Idle =>
    LET q == req[p]
    IN  /\ q.op \in MatchOps =>
             /\ q.row = match[q.id]
             /\ q.own = reg[q.who]
             /\ q.other = reg[OtherParty(q.row, q.who)]
        /\ q.op = "confirm" => reg[q.who].status = "UNVERIFIED"
        /\ q.op = "rejoin" => q.own = reg[q.who] /\ q.own.status = "PAUSED"
        /\ q.op = "propose" => reg[q.who].status = "VERIFIED"

ConsentRecorded ==
  \A m \in MatchIds :
    IF match[m] = NoMatch THEN consent[m] = {}
    ELSE /\ IsActive(match[m]) => match[m].accepted = consent[m]
         /\ match[m].status = "CANCELLED" => Parties(match[m]) \subseteq consent[m]

(* When handlers run one after the other, a handler saves the very rows it
   read, and the acceptances stored with an active match are exactly the
   answers its parties last gave. *)
SerialInv == RowsFresh /\ ConsentRecorded

=============================================================================
