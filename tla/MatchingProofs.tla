---------------------------- MODULE MatchingProofs ----------------------------
(***************************************************************************)
(* Theorems about Matching, for any registrations, matches and processes.  *)
(***************************************************************************)
EXTENDS Matching, TLAPS

MatchTables == [MatchIds -> MatchRow \cup {NoMatch}]
RegistrationTables == [Registrations -> RegistrationRow]

-----------------------------------------------------------------------------
(* Operators *)

LEMMA CounterpartsType ==
  ASSUME NEW r \in Registrations, NEW c \in Counterparts(r)
  PROVE  c \in Registrations /\ NewMatch(r, c) \in MatchRow
  BY DEF Registrations, Counterparts, NewMatch, MatchRow, MatchStatus

(* propose_match leaves the table alone or adds one PROPOSED match in a free
   row, between r and an eligible counterpart, r having no active match. *)
LEMMA ProposeEffect ==
  ASSUME NEW r \in Registrations, NEW regs, NEW ms, Propose(r, regs, ms)
  PROVE  \/ match' = ms
         \/ \E c \in Counterparts(r), m \in MatchIds :
              /\ Eligible(regs, ms, c)
              /\ ActiveFor(ms, r) = {}
              /\ ms[m] = NoMatch
              /\ match' = [ms EXCEPT ![m] = NewMatch(r, c)]
  BY DEF Propose, MayPropose, BestCandidates, Candidates, NextId, FreeIds

LEMMA ProposeType ==
  ASSUME NEW r \in Registrations, NEW regs, NEW ms \in MatchTables,
         Propose(r, regs, ms)
  PROVE  match' \in MatchTables
  <1>1. CASE match' = ms
    BY <1>1
  <1>2. ASSUME NEW c \in Counterparts(r), NEW m \in MatchIds,
               match' = [ms EXCEPT ![m] = NewMatch(r, c)]
        PROVE  match' \in MatchTables
    BY <1>2, CounterpartsType DEF MatchTables
  <1>3. QED
    BY <1>1, <1>2, ProposeEffect

LEMMA OtherPartyType ==
  ASSUME NEW row \in MatchRow, NEW r \in Registrations
  PROVE  OtherParty(row, r) \in Registrations
  BY DEF MatchRow, OtherParty, Registrations

LEMMA DerivedStatusType ==
  ASSUME NEW row, NEW S
  PROVE  DerivedStatus(row, S) \in ActiveStatus
  BY DEF DerivedStatus, ActiveStatus, OpenStatus

LEMMA SaveType ==
  ASSUME NEW ms \in MatchTables, NEW m \in MatchIds, NEW S \in SUBSET Registrations,
         NEW st \in MatchStatus, ms[m] # NoMatch
  PROVE  /\ SaveAcceptance(ms, m, S, st) \in MatchTables
         /\ SaveStatus(ms, m, st) \in MatchTables
         /\ SaveCancelled(ms, m) \in MatchTables
  <1>1. ms[m] \in MatchRow
    BY DEF MatchTables
  <1>2. [ms[m] EXCEPT !.accepted = S, !.status = st] \in MatchRow
    BY <1>1 DEF MatchRow
  <1>3. [ms[m] EXCEPT !.status = st] \in MatchRow
    BY <1>1 DEF MatchRow
  <1>4. [ms[m] EXCEPT !.status = "CANCELLED", !.reported = TRUE] \in MatchRow
    BY <1>1 DEF MatchRow, MatchStatus
  <1>5. SaveAcceptance(ms, m, S, st) =
          [ms EXCEPT ![m] = [ms[m] EXCEPT !.accepted = S, !.status = st]]
    BY <1>1 DEF SaveAcceptance, MatchTables, MatchRow
  <1>6. SaveStatus(ms, m, st) = [ms EXCEPT ![m] = [ms[m] EXCEPT !.status = st]]
    BY DEF SaveStatus, MatchTables
  <1>7. SaveCancelled(ms, m) =
          [ms EXCEPT ![m] = [ms[m] EXCEPT !.status = "CANCELLED", !.reported = TRUE]]
    BY <1>1 DEF SaveCancelled, MatchTables, MatchRow
  <1>8. QED
    BY <1>2, <1>3, <1>4, <1>5, <1>6, <1>7 DEF MatchTables

LEMMA RegistrationSaveType ==
  ASSUME NEW regs \in RegistrationTables, NEW r \in Registrations,
         NEW seen \in RegistrationRow
  PROVE  /\ Pause(regs, r) \in RegistrationTables
         /\ Suspend(regs, r) \in RegistrationTables
         /\ Requeue(regs, r, seen) \in RegistrationTables
  BY DEF RegistrationTables, RegistrationRow, RegistrationStatus, Pause, Suspend, Requeue

LEMMA DepositSaveType ==
  ASSUME NEW ds \in [Registrations -> PaymentStatus], NEW r \in Registrations, NEW rs
  PROVE  /\ Capture(ds, rs) \in [Registrations -> PaymentStatus]
         /\ Forfeit(ds, r) \in [Registrations -> PaymentStatus]
  BY DEF Capture, Forfeit, PaymentStatus

LEMMA ProposeSame ==
  ASSUME NEW r \in Registrations, NEW regs, NEW ms, Propose(r, regs, ms)
  PROVE  \A m \in MatchIds : ms[m] # NoMatch /\ ms \in MatchTables => match'[m] = ms[m]
  BY ProposeEffect DEF MatchTables

-----------------------------------------------------------------------------
(* Requests *)

LEMMA RequestType ==
  ASSUME TypeOK, NEW p \in Procs, req[p] # Idle
  PROVE  /\ req[p].op \in MatchOps => req[p] \in MatchRequest
         /\ req[p].op \in RegistrationOps => req[p] \in RegistrationRequest
         /\ req[p].op \in MatchOps \cup RegistrationOps
         /\ req[p].who \in Registrations
  BY DEF TypeOK, MatchRequest, RegistrationRequest, MatchOps, RegistrationOps

LEMMA FinishType ==
  ASSUME TypeOK, NEW p \in Procs, Finish(p)
  PROVE  /\ req' \in [Procs -> MatchRequest \cup RegistrationRequest \cup {Idle}]
         /\ req'[p] = Idle
         /\ \A o \in Procs : o # p => req'[o] = req[o]
  BY DEF TypeOK, Finish

LEMMA LogType ==
  ASSUME TypeOK, NEW m \in MatchIds, NEW before, NEW after \in MatchStatus,
         Log(m, before, after)
  PROVE  logged' \in [MatchIds -> MatchStatus]
  BY DEF TypeOK, Log

-----------------------------------------------------------------------------
(* Type correctness *)

TypeInv == TypeOK /\ RequestsHold

LEMMA TypeInit ==
  ASSUME Init PROVE TypeOK
  <1>1. reg \in [Registrations -> RegistrationRow]
    <2>1. [status |-> "UNVERIFIED", priority |-> 0] \in RegistrationRow
      BY DEF RegistrationRow, RegistrationStatus
    <2>2. QED
      BY <2>1 DEF Init
  <1>2. deposit \in [Registrations -> PaymentStatus] /\ deadline \in [MatchIds -> Deadline]
    BY DEF Init, PaymentStatus, Deadline
  <1>3. logged \in [MatchIds -> MatchStatus]
    BY DEF Init, MatchStatus
  <1>4. match \in [MatchIds -> MatchRow \cup {NoMatch}]
    BY DEF Init
  <1>5. consent \in [MatchIds -> SUBSET Registrations]
    BY DEF Init
  <1>6. req \in [Procs -> MatchRequest \cup RegistrationRequest \cup {Idle}]
    BY DEF Init
  <1>7. QED
    BY <1>1, <1>2, <1>3, <1>4, <1>5, <1>6 DEF Init, TypeOK

LEMMA FetchMatchType ==
  ASSUME TypeOK, NEW p \in Procs, NEW op \in MatchOps, NEW m \in MatchIds,
         NEW r \in Registrations, FetchMatch(p, op, m, r)
  PROVE  TypeOK'
  <1>1. match[m] \in MatchRow
    BY DEF TypeOK, FetchMatch, Created
  <1>2. OtherParty(match[m], r) \in Registrations
    BY <1>1, OtherPartyType
  <1>3. [op |-> op, id |-> m, who |-> r, row |-> match[m],
         own |-> reg[r], other |-> reg[OtherParty(match[m], r)]] \in MatchRequest
    BY <1>1, <1>2 DEF TypeOK, MatchRequest
  <1>4. req' \in [Procs -> MatchRequest \cup RegistrationRequest \cup {Idle}]
    BY <1>3 DEF TypeOK, FetchMatch
  <1>5. QED
    BY <1>4 DEF TypeOK, FetchMatch

LEMMA FetchRegistrationType ==
  ASSUME TypeOK, NEW p \in Procs, NEW op \in RegistrationOps,
         NEW r \in Registrations, FetchRegistration(p, op, r)
  PROVE  TypeOK'
  <1>1. [op |-> op, who |-> r, own |-> reg[r]] \in RegistrationRequest
    BY DEF TypeOK, RegistrationRequest
  <1>2. req' \in [Procs -> MatchRequest \cup RegistrationRequest \cup {Idle}]
    BY <1>1 DEF TypeOK, FetchRegistration
  <1>3. QED
    BY <1>2 DEF TypeOK, FetchRegistration

LEMMA FetchType ==
  ASSUME TypeOK, NEW p \in Procs, Fetch(p)
  PROVE  TypeOK'
  <1>1. ASSUME NEW m \in MatchIds, NEW r \in Registrations,
               \/ ViewAccept(p, m, r) \/ ViewWithdraw(p, m, r)
               \/ ViewDecline(p, m, r) \/ ViewReport(p, m, r)
        PROVE  TypeOK'
    <2>1. PICK op \in MatchOps : FetchMatch(p, op, m, r)
      BY <1>1 DEF ViewAccept, ViewWithdraw, ViewDecline, ViewReport, MatchOps
    <2>2. QED
      BY <2>1, FetchMatchType
  <1>2. ASSUME NEW m \in MatchIds, SweepFetch(p, m)
        PROVE  TypeOK'
    <2>1. match[m].amb \in Registrations /\ "expire" \in MatchOps
      BY <1>2 DEF SweepFetch, Created, TypeOK, MatchRow, Registrations, MatchOps
    <2>2. QED
      BY <1>2, <2>1, FetchMatchType DEF SweepFetch
  <1>3. ASSUME NEW r \in Registrations,
               ViewConfirm(p, r) \/ ViewRejoin(p, r) \/ DrainFetch(p, r)
        PROVE  TypeOK'
    <2>1. PICK op \in RegistrationOps : FetchRegistration(p, op, r)
      BY <1>3 DEF ViewConfirm, ViewRejoin, DrainFetch, RegistrationOps
    <2>2. QED
      BY <2>1, FetchRegistrationType
  <1>4. QED
    BY <1>1, <1>2, <1>3 DEF Fetch

(* What a commit finds in memory, and what its save leaves the table as. *)
LEMMA CommitFinds ==
  ASSUME TypeInv, NEW p \in Procs, NEW op \in MatchOps, InHandler(p, op)
  PROVE  /\ req[p] \in MatchRequest
         /\ req[p].op = op
         /\ req[p].id \in MatchIds
         /\ req[p].who \in Registrations
         /\ req[p].row \in MatchRow
         /\ req[p].own \in RegistrationRow
         /\ req[p].other \in RegistrationRow
         /\ OtherParty(req[p].row, req[p].who) \in Registrations
         /\ match[req[p].id] # NoMatch
         /\ match[req[p].id] \in MatchRow
  <1>1. req[p] # Idle /\ req[p].op = op
    BY DEF InHandler
  <1>2. req[p] \in MatchRequest
    BY <1>1, RequestType DEF TypeInv
  <1>3. /\ req[p].id \in MatchIds
        /\ req[p].who \in Registrations
        /\ req[p].row \in MatchRow
        /\ req[p].own \in RegistrationRow
        /\ req[p].other \in RegistrationRow
    BY <1>2 DEF MatchRequest
  <1>4. match[req[p].id] # NoMatch
    BY <1>1 DEF TypeInv, RequestsHold, RequestHolds
  <1>5. QED
    BY <1>1, <1>2, <1>3, <1>4, OtherPartyType DEF TypeInv, TypeOK

LEMMA CommitAcceptType ==
  ASSUME TypeInv, NEW p \in Procs, CommitAccept(p)
  PROVE  TypeOK'
  <1> DEFINE q == req[p]
             accepted == q.row.accepted \cup {q.who}
             status == DerivedStatus(q.row, accepted)
  <1> USE DEF TypeInv
  <1>1. InHandler(p, "accept") /\ "accept" \in MatchOps
    BY DEF CommitAccept, MatchOps
  <1>2. /\ q.id \in MatchIds /\ q.who \in Registrations /\ q.row \in MatchRow
        /\ match[q.id] # NoMatch
    BY <1>1, CommitFinds
  <1>3. accepted \in SUBSET Registrations
    BY <1>2 DEF MatchRow
  <1>4. status \in MatchStatus
    BY DerivedStatusType DEF MatchStatus, ActiveStatus, OpenStatus
  <1>5. match' \in MatchTables
    BY <1>2, <1>3, <1>4, SaveType DEF CommitAccept, TypeOK, MatchTables
  <1>6. logged' \in [MatchIds -> MatchStatus]
    BY <1>2, <1>4, LogType DEF CommitAccept
  <1>7. deposit' \in [Registrations -> PaymentStatus]
    BY <1>2, DepositSaveType DEF CommitAccept, TypeOK
  <1>8. consent' \in [MatchIds -> SUBSET Registrations]
    BY <1>2 DEF CommitAccept, TypeOK
  <1>9. req' \in [Procs -> MatchRequest \cup RegistrationRequest \cup {Idle}]
    BY FinishType DEF CommitAccept
  <1>10. QED
    BY <1>5, <1>6, <1>7, <1>8, <1>9 DEF CommitAccept, TypeOK, MatchTables

LEMMA CommitWithdrawType ==
  ASSUME TypeInv, NEW p \in Procs, CommitWithdraw(p)
  PROVE  TypeOK'
  <1> DEFINE q == req[p]
             accepted == q.row.accepted \ {q.who}
             status == DerivedStatus(q.row, accepted)
  <1> USE DEF TypeInv
  <1>1. InHandler(p, "withdraw") /\ "withdraw" \in MatchOps
    BY DEF CommitWithdraw, MatchOps
  <1>2. /\ q.id \in MatchIds /\ q.row \in MatchRow /\ match[q.id] # NoMatch
    BY <1>1, CommitFinds
  <1>3. accepted \in SUBSET Registrations
    BY <1>2 DEF MatchRow
  <1>4. status \in MatchStatus
    BY DerivedStatusType DEF MatchStatus, ActiveStatus, OpenStatus
  <1>5. match' \in MatchTables
    BY <1>2, <1>3, <1>4, SaveType DEF CommitWithdraw, TypeOK, MatchTables
  <1>6. logged' \in [MatchIds -> MatchStatus]
    BY <1>2, <1>4, LogType DEF CommitWithdraw
  <1>7. consent' \in [MatchIds -> SUBSET Registrations]
    BY <1>2 DEF CommitWithdraw, TypeOK
  <1>8. req' \in [Procs -> MatchRequest \cup RegistrationRequest \cup {Idle}]
    BY FinishType DEF CommitWithdraw
  <1>9. QED
    BY <1>5, <1>6, <1>7, <1>8 DEF CommitWithdraw, TypeOK, MatchTables

LEMMA CommitDeclineType ==
  ASSUME TypeInv, NEW p \in Procs, CommitDecline(p)
  PROVE  TypeOK'
  <1> DEFINE q == req[p]
             other == OtherParty(q.row, q.who)
             regs == Requeue(Pause(reg, q.who), other, q.other)
             ms == SaveStatus(match, q.id, "DECLINED")
  <1> USE DEF TypeInv
  <1>1. InHandler(p, "decline") /\ "decline" \in MatchOps /\ "DECLINED" \in MatchStatus
    BY DEF CommitDecline, MatchOps, MatchStatus
  <1>2. /\ q.id \in MatchIds /\ q.who \in Registrations /\ q.row \in MatchRow
        /\ q.other \in RegistrationRow /\ other \in Registrations
        /\ match[q.id] # NoMatch
    BY <1>1, CommitFinds
  <1>3. reg' \in RegistrationTables
    BY <1>2, RegistrationSaveType DEF CommitDecline, TypeOK, RegistrationTables
  <1>4. ms \in MatchTables
    BY <1>1, <1>2, SaveType DEF TypeOK, MatchTables
  <1>5. match' \in MatchTables
    BY <1>2, <1>4, ProposeType DEF CommitDecline
  <1>6. logged' \in [MatchIds -> MatchStatus]
    BY <1>1, <1>2, LogType DEF CommitDecline
  <1>7. consent' \in [MatchIds -> SUBSET Registrations]
    BY <1>2 DEF CommitDecline, TypeOK
  <1>8. req' \in [Procs -> MatchRequest \cup RegistrationRequest \cup {Idle}]
    BY FinishType DEF CommitDecline
  <1>9. QED
    BY <1>3, <1>5, <1>6, <1>7, <1>8
    DEF CommitDecline, TypeOK, MatchTables, RegistrationTables

LEMMA LapsedType ==
  ASSUME NEW regs \in RegistrationTables, NEW q, NEW r \in Registrations,
         NEW seen \in RegistrationRow
  PROVE  Lapsed(regs, q, r, seen) \in RegistrationTables
  BY RegistrationSaveType DEF Lapsed

LEMMA CommitExpireType ==
  ASSUME TypeInv, NEW p \in Procs, CommitExpire(p)
  PROVE  TypeOK'
  <1> DEFINE q == req[p]
             other == OtherParty(q.row, q.who)
             regs == Lapsed(Lapsed(reg, q, q.who, q.own), q, other, q.other)
             ms == SaveStatus(match, q.id, "EXPIRED")
  <1> USE DEF TypeInv
  <1>1. InHandler(p, "expire") /\ "expire" \in MatchOps /\ "EXPIRED" \in MatchStatus
    BY DEF CommitExpire, MatchOps, MatchStatus
  <1>2. /\ q.id \in MatchIds /\ q.who \in Registrations /\ q.row \in MatchRow
        /\ q.own \in RegistrationRow /\ q.other \in RegistrationRow
        /\ other \in Registrations /\ match[q.id] # NoMatch
    BY <1>1, CommitFinds
  <1>3. regs \in RegistrationTables
    BY <1>2, LapsedType DEF TypeOK, RegistrationTables
  <1>4. ms \in MatchTables
    BY <1>1, <1>2, SaveType DEF TypeOK, MatchTables
  <1>5. match' = ms \/ Propose(q.who, regs, ms) \/ Propose(other, regs, ms)
    BY DEF CommitExpire
  <1>6. match' \in MatchTables
    BY <1>2, <1>4, <1>5, ProposeType
  <1>7. logged' \in [MatchIds -> MatchStatus]
    BY <1>1, <1>2, LogType DEF CommitExpire
  <1>8. req' \in [Procs -> MatchRequest \cup RegistrationRequest \cup {Idle}]
    BY FinishType DEF CommitExpire
  <1>9. reg' \in RegistrationTables
    BY <1>3 DEF CommitExpire
  <1>10. QED
    BY <1>6, <1>7, <1>8, <1>9 DEF CommitExpire, TypeOK, MatchTables, RegistrationTables

LEMMA CommitReportType ==
  ASSUME TypeInv, NEW p \in Procs, CommitReport(p)
  PROVE  TypeOK'
  <1> DEFINE q == req[p]
             accused == OtherParty(q.row, q.who)
             ms == SaveCancelled(match, q.id)
  <1> USE DEF TypeInv
  <1>1. InHandler(p, "report") /\ "report" \in MatchOps /\ "CANCELLED" \in MatchStatus
    BY DEF CommitReport, MatchOps, MatchStatus
  <1>2. /\ q.id \in MatchIds /\ q.who \in Registrations /\ q.row \in MatchRow
        /\ q.own \in RegistrationRow /\ accused \in Registrations
        /\ match[q.id] # NoMatch
    BY <1>1, CommitFinds
  <1>3. reg' \in RegistrationTables
    BY <1>2, RegistrationSaveType DEF CommitReport, TypeOK, RegistrationTables
  <1>4. ms \in MatchTables
    BY <1>1, <1>2, SaveType DEF TypeOK, MatchTables
  <1>5. match' \in MatchTables
    BY <1>2, <1>4, ProposeType DEF CommitReport
  <1>6. logged' \in [MatchIds -> MatchStatus]
    BY <1>1, <1>2, LogType DEF CommitReport
  <1>7. deposit' \in [Registrations -> PaymentStatus]
    BY <1>2, DepositSaveType DEF CommitReport, TypeOK
  <1>8. req' \in [Procs -> MatchRequest \cup RegistrationRequest \cup {Idle}]
    BY FinishType DEF CommitReport
  <1>9. QED
    BY <1>3, <1>5, <1>6, <1>7, <1>8
    DEF CommitReport, TypeOK, MatchTables, RegistrationTables

(* The handlers of one registration, and the payment. *)
LEMMA CommitRegistrationType ==
  ASSUME TypeInv, NEW p \in Procs,
         CommitConfirm(p) \/ CommitRejoin(p) \/ CommitDrain(p)
  PROVE  TypeOK'
  <1> DEFINE q == req[p]
  <1> USE DEF TypeInv
  <1>1. q # Idle /\ q.op \in RegistrationOps
    BY DEF CommitConfirm, CommitRejoin, CommitDrain, InHandler, RegistrationOps
  <1>2. q.who \in Registrations /\ q.own \in RegistrationRow
    BY <1>1, RequestType DEF RegistrationRequest
  <1>3. reg' \in RegistrationTables
    <2>1. CASE CommitConfirm(p)
      BY <1>2, <2>1
      DEF CommitConfirm, TypeOK, RegistrationTables, RegistrationRow, RegistrationStatus
    <2>2. CASE CommitRejoin(p)
      BY <1>2, <2>2
      DEF CommitRejoin, TypeOK, RegistrationTables, RegistrationRow, RegistrationStatus
    <2>3. CASE CommitDrain(p)
      BY <2>3 DEF CommitDrain, TypeOK, RegistrationTables
    <2>4. QED
      BY <2>1, <2>2, <2>3
  <1>4. match' \in MatchTables
    <2>1. PICK regs : Propose(q.who, regs, match)
      BY DEF CommitConfirm, CommitRejoin, CommitDrain
    <2>2. QED
      BY <1>2, <2>1, ProposeType DEF TypeOK, MatchTables
  <1>5. req' \in [Procs -> MatchRequest \cup RegistrationRequest \cup {Idle}]
    BY FinishType DEF CommitConfirm, CommitRejoin, CommitDrain
  <1>6. QED
    BY <1>3, <1>4, <1>5 DEF CommitConfirm, CommitRejoin, CommitDrain, TypeOK,
      MatchTables, RegistrationTables

LEMMA FinalizePaidType ==
  ASSUME TypeOK, NEW p \in Procs, NEW r \in Registrations, FinalizePaid(p, r)
  PROVE  TypeOK'
  <1> DEFINE confirmed == [reg EXCEPT ![r].status = "VERIFIED"]
  <1>1. confirmed \in RegistrationTables
    BY DEF TypeOK, RegistrationTables, RegistrationRow, RegistrationStatus
  <1>2. deposit' \in [Registrations -> PaymentStatus]
    BY DEF FinalizePaid, TypeOK, PaymentStatus
  <1>3. CASE reg[r].status = "UNVERIFIED"
    <2>1. reg' = confirmed /\ Propose(r, confirmed, match)
      BY <1>3 DEF FinalizePaid
    <2>2. match' \in MatchTables
      BY <2>1, ProposeType DEF TypeOK, MatchTables
    <2>3. QED
      BY <1>1, <1>2, <2>1, <2>2 DEF FinalizePaid, TypeOK, MatchTables, RegistrationTables
  <1>4. CASE reg[r].status # "UNVERIFIED"
    BY <1>2, <1>4 DEF FinalizePaid, TypeOK
  <1>5. QED
    BY <1>3, <1>4

LEMMA TypeStep ==
  ASSUME TypeInv, [Next]_vars
  PROVE  TypeOK'
  <1> USE DEF TypeInv
  <1>1. ASSUME NEW p \in Procs, Fetch(p) PROVE TypeOK'
    BY <1>1, FetchType
  <1>2. ASSUME NEW p \in Procs, Commit(p) PROVE TypeOK'
    <2>1. CASE Rollback(p)
      BY <2>1, FinishType DEF Rollback, TypeOK
    <2>2. QED
      BY <1>2, <2>1, CommitAcceptType, CommitWithdrawType, CommitDeclineType,
         CommitExpireType, CommitReportType, CommitRegistrationType DEF Commit
  <1>3. ASSUME NEW p \in Procs, NEW r \in Registrations, FinalizePaid(p, r)
        PROVE  TypeOK'
    BY <1>3, FinalizePaidType
  <1>4. CASE OpenMatching
    BY <1>4 DEF OpenMatching, TypeOK
  <1>5. ASSUME NEW m \in MatchIds, Lapse(m) PROVE TypeOK'
    <2>1. deadline' \in [MatchIds -> Deadline]
      BY <1>5 DEF Lapse, TypeOK, Deadline
    <2>2. QED
      BY <1>5, <2>1 DEF Lapse, TypeOK
  <1>6. ASSUME NEW r \in Registrations, Refund(r) PROVE TypeOK'
    <2>1. deposit' \in [Registrations -> PaymentStatus]
      BY <1>6 DEF Refund, TypeOK, PaymentStatus
    <2>2. QED
      BY <1>6, <2>1 DEF Refund, TypeOK
  <1>7. CASE UNCHANGED vars
    BY <1>7 DEF vars, TypeOK
  <1>8. QED
    BY <1>1, <1>2, <1>3, <1>4, <1>5, <1>6, <1>7 DEF Next

-----------------------------------------------------------------------------
(* What one step does to one match *)

(* The row a match request leaves: the fields in update_fields come from the
   row in memory, the others stay. *)
Outcome(q, row) ==
  CASE q.op = "accept" ->
         [row EXCEPT !.accepted = q.row.accepted \cup {q.who},
                     !.status = DerivedStatus(q.row, q.row.accepted \cup {q.who})]
    [] q.op = "withdraw" ->
         [row EXCEPT !.accepted = q.row.accepted \ {q.who},
                     !.status = DerivedStatus(q.row, q.row.accepted \ {q.who})]
    [] q.op = "decline" -> [row EXCEPT !.status = "DECLINED"]
    [] q.op = "expire" -> [row EXCEPT !.status = "EXPIRED"]
    [] q.op = "report" -> [row EXCEPT !.status = "CANCELLED", !.reported = TRUE]

Untouched(m) == match'[m] = match[m] /\ logged'[m] = logged[m]

Written(p, m) ==
  LET q == req[p]
  IN  /\ q # Idle
      /\ q.op \in MatchOps
      /\ q.id = m
      /\ match[m] # NoMatch
      /\ match'[m] = Outcome(q, match[m])
      /\ logged'[m] = IF q.row.status = match'[m].status THEN logged[m]
                                                         ELSE match'[m].status
      /\ q.op = "accept" /\ match'[m].status = "ACCEPTED" =>
           deposit' = Capture(deposit, Parties(q.row))

Proposed(m) ==
  /\ match[m] = NoMatch
  /\ logged'[m] = logged[m]
  /\ \E r \in Registrations : \E c \in Counterparts(r) :
       /\ match'[m] = NewMatch(r, c)
       /\ reg'[r].status # "UNVERIFIED"
       /\ reg'[c].status # "UNVERIFIED"

RowEffect(m) == Untouched(m) \/ Proposed(m) \/ \E p \in Procs : Written(p, m)

LEMMA ProposeRow ==
  ASSUME NEW r \in Registrations, NEW regs, NEW ms \in MatchTables,
         Propose(r, regs, ms), regs[r].status # "UNVERIFIED", NEW n \in MatchIds
  PROVE  \/ match'[n] = ms[n]
         \/ /\ ms[n] = NoMatch
            /\ \E c \in Counterparts(r) : /\ match'[n] = NewMatch(r, c)
                                          /\ regs[c].status # "UNVERIFIED"
  BY ProposeEffect DEF MatchTables, Eligible

LEMMA SavedStatus ==
  ASSUME NEW ms \in MatchTables, NEW m \in MatchIds, ms[m] # NoMatch,
         NEW st \in MatchStatus,
         NEW n \in MatchIds
  PROVE  SaveStatus(ms, m, st)[n] =
           IF n = m THEN [ms[m] EXCEPT !.status = st] ELSE ms[n]
  <1>1. ms[m] \in MatchRow
    BY DEF MatchTables
  <1>2. QED
    BY <1>1 DEF SaveStatus, MatchTables, MatchRow

LEMMA SavedCancelled ==
  ASSUME NEW ms \in MatchTables, NEW m \in MatchIds, ms[m] # NoMatch,
         NEW n \in MatchIds
  PROVE  SaveCancelled(ms, m)[n] =
           IF n = m THEN [ms[m] EXCEPT !.status = "CANCELLED", !.reported = TRUE] ELSE ms[n]
  <1>1. ms[m] \in MatchRow
    BY DEF MatchTables
  <1>2. QED
    BY <1>1 DEF SaveCancelled, MatchTables, MatchRow

LEMMA LoggedRow ==
  ASSUME TypeOK, NEW m \in MatchIds, NEW before, NEW after, Log(m, before, after),
         NEW n \in MatchIds
  PROVE  logged'[n] = IF n = m /\ before # after THEN after ELSE logged[n]
  BY DEF Log, TypeOK

LEMMA RequeuedStatus ==
  ASSUME NEW regs \in RegistrationTables, NEW r \in Registrations, NEW seen,
         NEW s \in Registrations
  PROVE  Requeue(regs, r, seen)[s].status = IF s = r THEN "VERIFIED" ELSE regs[s].status
  BY DEF Requeue, RegistrationTables

LEMMA RemovedStatus ==
  ASSUME NEW regs \in RegistrationTables, NEW r \in Registrations,
         NEW s \in Registrations
  PROVE  /\ Pause(regs, r)[s].status = IF s = r THEN "PAUSED" ELSE regs[s].status
         /\ Suspend(regs, r)[s].status = IF s = r THEN "SUSPENDED" ELSE regs[s].status
  BY DEF Pause, Suspend, RegistrationTables, RegistrationRow

LEMMA AcceptRow ==
  ASSUME TypeInv, NEW p \in Procs, CommitAccept(p), NEW m \in MatchIds
  PROVE  RowEffect(m) /\ (m = req[p].id => Written(p, m))
  <1> DEFINE q == req[p]
             accepted == q.row.accepted \cup {q.who}
             status == DerivedStatus(q.row, accepted)
  <1> USE DEF TypeInv
  <1>1. /\ q.id \in MatchIds /\ match[q.id] # NoMatch /\ match[q.id] \in MatchRow
        /\ q # Idle /\ q.op = "accept" /\ "accept" \in MatchOps
    BY CommitFinds DEF CommitAccept, InHandler, MatchOps
  <1>2. match'[m] = IF m = q.id THEN Outcome(q, match[m]) ELSE match[m]
    <2> HIDE DEF accepted, status
    <2>1. match \in MatchTables
      BY DEF TypeOK, MatchTables
    <2>2. SaveAcceptance(match, q.id, accepted, status) =
            [match EXCEPT ![q.id] =
               [match[q.id] EXCEPT !.accepted = accepted, !.status = status]]
      BY <1>1, <2>1 DEF SaveAcceptance, MatchTables, MatchRow
    <2>3. Outcome(q, match[q.id]) =
            [match[q.id] EXCEPT !.accepted = accepted, !.status = status]
      BY <1>1 DEF Outcome, accepted, status
    <2>4. QED
      BY <1>1, <2>1, <2>2, <2>3 DEF accepted, status, MatchTables, CommitAccept
  <1>3. logged'[m] = IF m = q.id /\ q.row.status # status THEN status ELSE logged[m]
    BY <1>1, LoggedRow DEF CommitAccept
  <1>4. m = q.id => match'[m].status = status
    BY <1>1, <1>2 DEF Outcome, MatchRow
  <1>5. status = "ACCEPTED" => deposit' = Capture(deposit, Parties(q.row))
    BY DEF CommitAccept
  <1>6. CASE m = q.id
    BY <1>1, <1>2, <1>3, <1>4, <1>5, <1>6 DEF RowEffect, Written
  <1>7. CASE m # q.id
    BY <1>2, <1>3, <1>7 DEF RowEffect, Untouched
  <1>8. QED
    BY <1>6, <1>7

LEMMA WithdrawRow ==
  ASSUME TypeInv, NEW p \in Procs, CommitWithdraw(p), NEW m \in MatchIds
  PROVE  RowEffect(m) /\ (m = req[p].id => Written(p, m))
  <1> DEFINE q == req[p]
             accepted == q.row.accepted \ {q.who}
             status == DerivedStatus(q.row, accepted)
  <1> USE DEF TypeInv
  <1>1. /\ q.id \in MatchIds /\ match[q.id] # NoMatch /\ match[q.id] \in MatchRow
        /\ q # Idle /\ q.op = "withdraw" /\ "withdraw" \in MatchOps
    BY CommitFinds DEF CommitWithdraw, InHandler, MatchOps
  <1>2. match'[m] = IF m = q.id THEN Outcome(q, match[m]) ELSE match[m]
    <2> HIDE DEF accepted, status
    <2>1. match \in MatchTables
      BY DEF TypeOK, MatchTables
    <2>2. SaveAcceptance(match, q.id, accepted, status) =
            [match EXCEPT ![q.id] =
               [match[q.id] EXCEPT !.accepted = accepted, !.status = status]]
      BY <1>1, <2>1 DEF SaveAcceptance, MatchTables, MatchRow
    <2>3. Outcome(q, match[q.id]) =
            [match[q.id] EXCEPT !.accepted = accepted, !.status = status]
      BY <1>1 DEF Outcome, accepted, status
    <2>4. QED
      BY <1>1, <2>1, <2>2, <2>3 DEF accepted, status, MatchTables, CommitWithdraw
  <1>3. logged'[m] = IF m = q.id /\ q.row.status # status THEN status ELSE logged[m]
    BY <1>1, LoggedRow DEF CommitWithdraw
  <1>4. m = q.id => match'[m].status = status
    BY <1>1, <1>2 DEF Outcome, MatchRow
  <1>5. CASE m = q.id
    BY <1>1, <1>2, <1>3, <1>4, <1>5 DEF RowEffect, Written
  <1>6. CASE m # q.id
    BY <1>2, <1>3, <1>6 DEF RowEffect, Untouched
  <1>7. QED
    BY <1>5, <1>6

(* The three requests that end a match save it as ms, with status st, and may
   propose for a party that is VERIFIED by then. *)
Ends(p, ms, st) ==
  LET q == req[p]
  IN  /\ q # Idle /\ q.op \in {"decline", "expire", "report"}
      /\ ms \in MatchTables
      /\ \A n \in MatchIds :
           ms[n] = IF n = q.id THEN Outcome(q, match[n]) ELSE match[n]
      /\ Outcome(q, match[q.id]).status = st
      /\ \/ match' = ms
         \/ \E r \in Registrations :
              Propose(r, reg', ms) /\ reg'[r].status = "VERIFIED"
      /\ Log(q.id, q.row.status, st)

LEMMA EndedRow ==
  ASSUME TypeInv, NEW p \in Procs, NEW ms, NEW st, Ends(p, ms, st), NEW m \in MatchIds
  PROVE  RowEffect(m) /\ (m = req[p].id => Written(p, m))
  <1> DEFINE q == req[p]
  <1> USE DEF TypeInv
  <1>1. /\ q.op \in {"decline", "expire", "report"}
        /\ q.op \in MatchOps /\ q.op # "accept"
    BY DEF Ends, MatchOps
  <1>2. /\ q.id \in MatchIds /\ match[q.id] # NoMatch
        /\ ms[q.id] # NoMatch
    <2>1. InHandler(p, q.op)
      BY DEF Ends, InHandler
    <2>2. q.id \in MatchIds /\ match[q.id] \in MatchRow /\ match[q.id] # NoMatch
      BY <1>1, <2>1, CommitFinds
    <2>3. Outcome(q, match[q.id]) \in MatchRow
      BY <1>1, <2>2 DEF Outcome, MatchRow, MatchStatus
    <2>4. QED
      BY <2>2, <2>3, NullsAssumption DEF Ends
  <1>3. logged'[m] = IF m = q.id /\ q.row.status # st THEN st ELSE logged[m]
    BY <1>2, LoggedRow DEF Ends
  <1>4. \/ match'[m] = ms[m]
        \/ /\ ms[m] = NoMatch
           /\ \E r \in Registrations : \E c \in Counterparts(r) :
                /\ match'[m] = NewMatch(r, c)
                /\ reg'[r].status # "UNVERIFIED" /\ reg'[c].status # "UNVERIFIED"
    BY ProposeRow DEF Ends
  <1>5. CASE m = q.id
    <2>1. match'[m] = Outcome(q, match[m])
      BY <1>2, <1>4, <1>5 DEF Ends
    <2>2. QED
      BY <1>1, <1>2, <1>3, <1>5, <2>1 DEF Ends, RowEffect, Written
  <1>6. CASE m # q.id
    BY <1>3, <1>4, <1>6 DEF Ends, RowEffect, Untouched, Proposed
  <1>7. QED
    BY <1>5, <1>6

LEMMA DeclineEnds ==
  ASSUME TypeInv, NEW p \in Procs, CommitDecline(p)
  PROVE  Ends(p, SaveStatus(match, req[p].id, "DECLINED"), "DECLINED")
  <1> DEFINE q == req[p]
             other == OtherParty(q.row, q.who)
             ms == SaveStatus(match, q.id, "DECLINED")
  <1> USE DEF TypeInv
  <1>1. /\ q.id \in MatchIds /\ q.who \in Registrations /\ other \in Registrations
        /\ match[q.id] # NoMatch /\ match[q.id] \in MatchRow
        /\ q # Idle /\ q.op = "decline" /\ "DECLINED" \in MatchStatus
    BY CommitFinds DEF CommitDecline, InHandler, MatchOps, MatchStatus
  <1>2. ms \in MatchTables
    BY <1>1, SaveType DEF TypeOK, MatchTables
  <1>3. \A n \in MatchIds : ms[n] = IF n = q.id THEN Outcome(q, match[n]) ELSE match[n]
    <2>1. match \in MatchTables
      BY DEF TypeOK, MatchTables
    <2>2. \A n \in MatchIds : ms[n] =
            IF n = q.id THEN [match[q.id] EXCEPT !.status = "DECLINED"] ELSE match[n]
      BY <1>1, <2>1, SavedStatus
    <2>3. Outcome(q, match[q.id]) = [match[q.id] EXCEPT !.status = "DECLINED"]
      BY <1>1 DEF Outcome
    <2>4. QED
      BY <2>2, <2>3
  <1>4. Outcome(q, match[q.id]).status = "DECLINED"
    BY <1>1 DEF Outcome, MatchRow
  <1>5. Pause(reg, q.who) \in RegistrationTables
    BY <1>1 DEF Pause, TypeOK, RegistrationTables, RegistrationRow, RegistrationStatus
  <1>6. Propose(other, reg', ms) /\ reg'[other].status = "VERIFIED"
    BY <1>1, <1>5, RequeuedStatus DEF CommitDecline
  <1>7. Log(q.id, q.row.status, "DECLINED")
    BY DEF CommitDecline
  <1>8. QED
    BY <1>1, <1>2, <1>3, <1>4, <1>6, <1>7 DEF Ends

LEMMA ReportEnds ==
  ASSUME TypeInv, NEW p \in Procs, CommitReport(p)
  PROVE  Ends(p, SaveCancelled(match, req[p].id), "CANCELLED")
  <1> DEFINE q == req[p]
             accused == OtherParty(q.row, q.who)
             ms == SaveCancelled(match, q.id)
  <1> USE DEF TypeInv
  <1>1. /\ q.id \in MatchIds /\ q.who \in Registrations /\ accused \in Registrations
        /\ match[q.id] # NoMatch /\ match[q.id] \in MatchRow
        /\ q # Idle /\ q.op = "report" /\ "CANCELLED" \in MatchStatus
    BY CommitFinds DEF CommitReport, InHandler, MatchOps, MatchStatus
  <1>2. ms \in MatchTables
    BY <1>1, SaveType DEF TypeOK, MatchTables
  <1>3. \A n \in MatchIds : ms[n] = IF n = q.id THEN Outcome(q, match[n]) ELSE match[n]
    <2>1. match \in MatchTables
      BY DEF TypeOK, MatchTables
    <2>2. \A n \in MatchIds : ms[n] =
            IF n = q.id
              THEN [match[q.id] EXCEPT !.status = "CANCELLED", !.reported = TRUE]
              ELSE match[n]
      BY <1>1, <2>1, SavedCancelled
    <2>3. Outcome(q, match[q.id]) =
            [match[q.id] EXCEPT !.status = "CANCELLED", !.reported = TRUE]
      BY <1>1 DEF Outcome
    <2>4. QED
      BY <2>2, <2>3
  <1>4. Outcome(q, match[q.id]).status = "CANCELLED"
    BY <1>1 DEF Outcome, MatchRow
  <1>5. Suspend(reg, accused) \in RegistrationTables
    BY <1>1 DEF Suspend, TypeOK, RegistrationTables, RegistrationRow, RegistrationStatus
  <1>6. Propose(q.who, reg', ms) /\ reg'[q.who].status = "VERIFIED"
    BY <1>1, <1>5, RequeuedStatus DEF CommitReport
  <1>7. Log(q.id, q.row.status, "CANCELLED")
    BY DEF CommitReport
  <1>8. QED
    BY <1>1, <1>2, <1>3, <1>4, <1>6, <1>7 DEF Ends

LEMMA LapsedStatus ==
  ASSUME NEW regs \in RegistrationTables, NEW q, NEW r \in Registrations, NEW seen,
         NEW s \in Registrations
  PROVE  /\ s # r => Lapsed(regs, q, r, seen)[s].status = regs[s].status
         /\ s = r => Lapsed(regs, q, r, seen)[s].status =
                       IF r \in q.row.accepted THEN "VERIFIED" ELSE "PAUSED"
  BY RequeuedStatus, RemovedStatus DEF Lapsed

LEMMA ExpireEnds ==
  ASSUME TypeInv, NEW p \in Procs, CommitExpire(p)
  PROVE  Ends(p, SaveStatus(match, req[p].id, "EXPIRED"), "EXPIRED")
  <1> DEFINE q == req[p]
             other == OtherParty(q.row, q.who)
             once == Lapsed(reg, q, q.who, q.own)
             regs == Lapsed(once, q, other, q.other)
             ms == SaveStatus(match, q.id, "EXPIRED")
  <1> USE DEF TypeInv
  <1>1. /\ q.id \in MatchIds /\ q.who \in Registrations /\ other \in Registrations
        /\ q.own \in RegistrationRow
        /\ match[q.id] # NoMatch /\ match[q.id] \in MatchRow
        /\ q # Idle /\ q.op = "expire" /\ "EXPIRED" \in MatchStatus
    BY CommitFinds DEF CommitExpire, InHandler, MatchOps, MatchStatus
  <1>2. ms \in MatchTables
    BY <1>1, SaveType DEF TypeOK, MatchTables
  <1>3. \A n \in MatchIds : ms[n] = IF n = q.id THEN Outcome(q, match[n]) ELSE match[n]
    <2>1. match \in MatchTables
      BY DEF TypeOK, MatchTables
    <2>2. \A n \in MatchIds : ms[n] =
            IF n = q.id THEN [match[q.id] EXCEPT !.status = "EXPIRED"] ELSE match[n]
      BY <1>1, <2>1, SavedStatus
    <2>3. Outcome(q, match[q.id]) = [match[q.id] EXCEPT !.status = "EXPIRED"]
      BY <1>1 DEF Outcome
    <2>4. QED
      BY <2>2, <2>3
  <1>4. Outcome(q, match[q.id]).status = "EXPIRED"
    BY <1>1 DEF Outcome, MatchRow
  <1>5. once \in RegistrationTables
    BY <1>1, LapsedType DEF TypeOK, RegistrationTables
  <1>6. reg' = regs
    BY DEF CommitExpire
  <1>7. /\ q.who \in q.row.accepted => regs[q.who].status = "VERIFIED"
        /\ other \in q.row.accepted => regs[other].status = "VERIFIED"
    <2>1. reg \in RegistrationTables
      BY DEF TypeOK, RegistrationTables
    <2>2. q.who \in q.row.accepted => once[q.who].status = "VERIFIED"
      BY <1>1, <2>1, LapsedStatus
    <2>3. /\ q.who # other => regs[q.who].status = once[q.who].status
          /\ other \in q.row.accepted => regs[other].status = "VERIFIED"
      BY <1>1, <1>5, LapsedStatus
    <2>4. QED
      BY <2>2, <2>3
  <1>8. \/ match' = ms
        \/ q.who \in q.row.accepted /\ Propose(q.who, regs, ms)
        \/ other \in q.row.accepted /\ Propose(other, regs, ms)
    BY DEF CommitExpire
  <1>9. \/ match' = ms
        \/ \E r \in Registrations : Propose(r, reg', ms) /\ reg'[r].status = "VERIFIED"
    BY <1>1, <1>6, <1>7, <1>8
  <1>10. Log(q.id, q.row.status, "EXPIRED")
    BY DEF CommitExpire
  <1>11. QED
    BY <1>1, <1>2, <1>3, <1>4, <1>9, <1>10 DEF Ends

LEMMA RegistrationRows ==
  ASSUME TypeInv, NEW r \in Registrations, Propose(r, reg', match),
         reg'[r].status # "UNVERIFIED", logged' = logged, NEW m \in MatchIds
  PROVE  RowEffect(m)
  <1>1. match \in MatchTables
    BY DEF TypeInv, TypeOK, MatchTables
  <1>2. QED
    BY <1>1, ProposeRow DEF RowEffect, Untouched, Proposed

LEMMA CommitRegistrationRow ==
  ASSUME TypeInv, NEW p \in Procs, NEW m \in MatchIds,
         CommitConfirm(p) \/ CommitRejoin(p) \/ CommitDrain(p)
  PROVE  RowEffect(m)
  <1> DEFINE q == req[p]
  <1> USE DEF TypeInv
  <1>1. q # Idle /\ q.op \in RegistrationOps /\ q.who \in Registrations
    BY RequestType DEF CommitConfirm, CommitRejoin, CommitDrain, InHandler,
      RegistrationOps
  <1>2. Propose(q.who, reg', match) /\ logged' = logged
    BY DEF CommitConfirm, CommitRejoin, CommitDrain
  <1>3. reg'[q.who].status # "UNVERIFIED"
    <2>1. CASE CommitConfirm(p)
      BY <1>1, <2>1 DEF CommitConfirm, TypeOK, RegistrationRow
    <2>2. CASE CommitRejoin(p)
      BY <1>1, <2>2 DEF CommitRejoin, TypeOK
    <2>3. CASE CommitDrain(p)
      BY <1>1, <2>3 DEF CommitDrain, InHandler, RequestsHold, RequestHolds
    <2>4. QED
      BY <2>1, <2>2, <2>3
  <1>4. QED
    BY <1>1, <1>2, <1>3, RegistrationRows

LEMMA FinalizePaidRow ==
  ASSUME TypeInv, NEW p \in Procs, NEW r \in Registrations, FinalizePaid(p, r),
         NEW m \in MatchIds
  PROVE  RowEffect(m)
  <1> USE DEF TypeInv
  <1>1. CASE reg[r].status = "UNVERIFIED"
    <2>1. reg' = [reg EXCEPT ![r].status = "VERIFIED"] /\ logged' = logged
      BY <1>1 DEF FinalizePaid
    <2>2. Propose(r, reg', match)
      BY <1>1, <2>1 DEF FinalizePaid
    <2>3. reg'[r].status # "UNVERIFIED"
      BY <2>1 DEF TypeOK, RegistrationRow
    <2>4. QED
      BY <2>1, <2>2, <2>3, RegistrationRows
  <1>2. CASE reg[r].status # "UNVERIFIED"
    BY <1>2 DEF FinalizePaid, RowEffect, Untouched
  <1>3. QED
    BY <1>1, <1>2

LEMMA FetchFrame ==
  ASSUME NEW p \in Procs, Fetch(p)
  PROVE  UNCHANGED <<reg, match, deposit, open, deadline, logged, consent>>
  BY DEF Fetch, ViewAccept, ViewWithdraw, ViewDecline, ViewReport, SweepFetch,
    ViewConfirm, ViewRejoin, DrainFetch, FetchMatch, FetchRegistration

(* Whatever the step, a match is left alone, is new, or was saved by the
   request of a process that works on it. *)
LEMMA RowStep ==
  ASSUME TypeInv, [Next]_vars, NEW m \in MatchIds
  PROVE  RowEffect(m)
  <1>1. ASSUME NEW p \in Procs, Fetch(p) PROVE RowEffect(m)
    BY <1>1, FetchFrame DEF RowEffect, Untouched
  <1>2. ASSUME NEW p \in Procs, Commit(p) PROVE RowEffect(m)
    <2>1. CASE Rollback(p)
      BY <2>1 DEF Rollback, RowEffect, Untouched
    <2>2. QED
      BY <1>2, <2>1, AcceptRow, WithdrawRow, DeclineEnds, ExpireEnds, ReportEnds,
         EndedRow, CommitRegistrationRow DEF Commit
  <1>3. ASSUME NEW p \in Procs, NEW r \in Registrations, FinalizePaid(p, r)
        PROVE  RowEffect(m)
    BY <1>3, FinalizePaidRow
  <1>4. CASE OpenMatching
    BY <1>4 DEF OpenMatching, RowEffect, Untouched
  <1>5. ASSUME NEW n \in MatchIds, Lapse(n) PROVE RowEffect(m)
    BY <1>5 DEF Lapse, RowEffect, Untouched
  <1>6. ASSUME NEW r \in Registrations, Refund(r) PROVE RowEffect(m)
    BY <1>6 DEF Refund, RowEffect, Untouched
  <1>7. CASE UNCHANGED vars
    BY <1>7 DEF vars, RowEffect, Untouched
  <1>8. QED
    BY <1>1, <1>2, <1>3, <1>4, <1>5, <1>6, <1>7 DEF Next

-----------------------------------------------------------------------------
(* The inductive invariant, whatever handlers interleave.  A request may be
   stale, so that nothing is known of the current status of its match; but it
   saves the status and the acceptances together, computed from each other,
   and never the status it has read. *)

IInv ==
  /\ TypeInv
  /\ StatusFollowsAcceptances
  /\ AuditTrail
  /\ UnusedUnlogged
  /\ NothingHeldOnceAccepted
  /\ MatchedAreConfirmed
  /\ DepositsInHand

LEMMA DerivedAnswers ==
  ASSUME NEW row \in MatchRow, row.status = DerivedStatus(row, row.accepted),
         IsOpen(row), NEW r \in Parties(row)
  PROVE  /\ r \notin row.accepted =>
              DerivedStatus(row, row.accepted \cup {r}) # row.status
         /\ r \in row.accepted =>
              DerivedStatus(row, row.accepted \ {r}) = "PROPOSED" /\ row.status = "PENDING"
  <1>1. row.amb # row.ref
    BY RolesDisjoint DEF MatchRow
  <1>2. row.status \in {"PROPOSED", "PENDING"}
    BY DEF IsOpen, OpenStatus
  <1>3. ~(Parties(row) \subseteq row.accepted)
    BY <1>2 DEF DerivedStatus
  <1>4. CASE r \in row.accepted
    BY <1>1, <1>3, <1>4 DEF Parties, DerivedStatus
  <1>5. CASE r \notin row.accepted
    <2>1. CASE row.status = "PROPOSED"
      BY <1>1, <1>3, <1>5, <2>1 DEF Parties, DerivedStatus
    <2>2. CASE row.status = "PENDING"
      BY <1>1, <1>3, <1>5, <2>2 DEF Parties, DerivedStatus
    <2>3. QED
      BY <1>2, <2>1, <2>2
  <1>6. QED
    BY <1>4, <1>5

(* What a saved row has to do with the row it replaces. *)
LEMMA WrittenFacts ==
  ASSUME IInv, NEW m \in MatchIds, NEW p \in Procs, Written(p, m)
  PROVE  LET q == req[p]
         IN  /\ match'[m] \in MatchRow
             /\ match'[m].amb = match[m].amb /\ match'[m].ref = match[m].ref
             /\ q.row.amb = match[m].amb /\ q.row.ref = match[m].ref
             /\ match'[m].status # q.row.status
             /\ IsActive(match'[m]) =>
                  match'[m].status = DerivedStatus(match'[m], match'[m].accepted)
             /\ match'[m].status = "ACCEPTED" => q.op = "accept"
  <1> DEFINE q == req[p]
             more == q.row.accepted \cup {q.who}
             less == q.row.accepted \ {q.who}
  <1>1. /\ q \in MatchRequest /\ q.row \in MatchRow /\ match[m] \in MatchRow
        /\ q.who \in Registrations /\ RequestHolds(q) /\ q.op \in MatchOps
        /\ q.id = m /\ match'[m] = Outcome(q, match[m])
    <2>1. q # Idle /\ q.op \in MatchOps /\ q.id = m /\ match'[m] = Outcome(q, match[m])
      BY DEF Written
    <2>2. InHandler(p, q.op)
      BY <2>1 DEF InHandler
    <2>3. RequestHolds(q)
      BY <2>1 DEF IInv, TypeInv, RequestsHold
    <2>4. QED
      BY <2>1, <2>2, <2>3, CommitFinds DEF IInv
  <1>2. /\ q.who \in Parties(q.row) /\ match[m].amb = q.row.amb
        /\ match[m].ref = q.row.ref /\ q.row.status = DerivedStatus(q.row, q.row.accepted)
    BY <1>1 DEF RequestHolds
  <1>3. \A S : /\ DerivedStatus(q.row, S) \in MatchStatus
               /\ DerivedStatus(q.row, S) = DerivedStatus(match[m], S)
    BY <1>2, DerivedStatusType
    DEF DerivedStatus, Parties, MatchStatus, ActiveStatus, OpenStatus
  <1>4. CASE q.op = "accept"
    <2> HIDE DEF more
    <2>1. IsOpen(q.row) /\ q.who \notin q.row.accepted
      BY <1>1, <1>4 DEF RequestHolds
    <2>2. match'[m] = [match[m] EXCEPT !.accepted = more,
                                       !.status = DerivedStatus(q.row, more)]
      BY <1>1, <1>4 DEF Outcome, more
    <2>3. more \in SUBSET Registrations
      BY <1>1 DEF more, MatchRow
    <2>4. /\ match'[m] \in MatchRow /\ match'[m].accepted = more
          /\ match'[m].amb = match[m].amb /\ match'[m].ref = match[m].ref
          /\ match'[m].status = DerivedStatus(q.row, more)
      <3>1. PICK st \in MatchStatus : st = DerivedStatus(q.row, more)
        BY <1>3
      <3>2. PICK row \in MatchRow : row = match[m]
        BY <1>1
      <3>3. match'[m] = [row EXCEPT !.accepted = more, !.status = st]
        BY <2>2, <3>1, <3>2
      <3>4. match'[m] \in MatchRow
        BY <2>3, <3>1, <3>2, <3>3 DEF MatchRow
      <3>5. /\ match'[m].accepted = more /\ match'[m].status = st
            /\ match'[m].amb = row.amb /\ match'[m].ref = row.ref
        BY <3>2, <3>3 DEF MatchRow
      <3>6. QED
        BY <3>1, <3>2, <3>4, <3>5
    <2>5. DerivedStatus(q.row, more) # q.row.status
      BY <1>1, <1>2, <2>1, DerivedAnswers DEF more
    <2>6. DerivedStatus(match'[m], more) = DerivedStatus(q.row, more)
      BY <1>2, <2>4 DEF DerivedStatus, Parties
    <2>7. QED
      BY <1>2, <1>4, <2>4, <2>5, <2>6
  <1>5. CASE q.op = "withdraw"
    <2> HIDE DEF less
    <2>1. IsOpen(q.row) /\ q.who \in q.row.accepted
      BY <1>1, <1>5 DEF RequestHolds
    <2>2. match'[m] = [match[m] EXCEPT !.accepted = less,
                                       !.status = DerivedStatus(q.row, less)]
      BY <1>1, <1>5 DEF Outcome, less
    <2>3. less \in SUBSET Registrations
      BY <1>1 DEF less, MatchRow
    <2>4. /\ match'[m] \in MatchRow /\ match'[m].accepted = less
          /\ match'[m].amb = match[m].amb /\ match'[m].ref = match[m].ref
          /\ match'[m].status = DerivedStatus(q.row, less)
      <3>1. PICK st \in MatchStatus : st = DerivedStatus(q.row, less)
        BY <1>3
      <3>2. PICK row \in MatchRow : row = match[m]
        BY <1>1
      <3>3. match'[m] = [row EXCEPT !.accepted = less, !.status = st]
        BY <2>2, <3>1, <3>2
      <3>4. match'[m] \in MatchRow
        BY <2>3, <3>1, <3>2, <3>3 DEF MatchRow
      <3>5. /\ match'[m].accepted = less /\ match'[m].status = st
            /\ match'[m].amb = row.amb /\ match'[m].ref = row.ref
        BY <3>2, <3>3 DEF MatchRow
      <3>6. QED
        BY <3>1, <3>2, <3>4, <3>5
    <2>5. DerivedStatus(q.row, less) = "PROPOSED" /\ q.row.status = "PENDING"
      BY <1>1, <1>2, <2>1, DerivedAnswers DEF less
    <2>6. DerivedStatus(match'[m], less) = DerivedStatus(q.row, less)
      BY <1>2, <2>4 DEF DerivedStatus, Parties
    <2>7. QED
      BY <1>2, <2>4, <2>5, <2>6
  <1>6. CASE q.op \in {"decline", "expire", "report"}
    <2>1. IsActive(q.row)
      BY <1>1 DEF RequestHolds
    <2>2. /\ match'[m] \in MatchRow
          /\ match'[m].amb = match[m].amb /\ match'[m].ref = match[m].ref
          /\ match'[m].status \in {"DECLINED", "EXPIRED", "CANCELLED"}
      <3>1. \E st \in {"DECLINED", "EXPIRED", "CANCELLED"} :
              \/ match'[m] = [match[m] EXCEPT !.status = st]
              \/ match'[m] = [match[m] EXCEPT !.status = st, !.reported = TRUE]
        <4>1. CASE q.op = "decline"
          BY <1>1, <4>1 DEF Outcome
        <4>2. CASE q.op = "expire"
          BY <1>1, <4>2 DEF Outcome
        <4>3. CASE q.op = "report"
          BY <1>1, <4>3 DEF Outcome
        <4>4. QED
          BY <1>6, <4>1, <4>2, <4>3
      <3>3. {"DECLINED", "EXPIRED", "CANCELLED"} \subseteq MatchStatus
        BY DEF MatchStatus
      <3>4. PICK row \in MatchRow : row = match[m]
        BY <1>1
      <3>5. ASSUME NEW st \in {"DECLINED", "EXPIRED", "CANCELLED"},
                   match'[m] = [row EXCEPT !.status = st]
            PROVE  /\ match'[m] \in MatchRow /\ match'[m].status = st
                   /\ match'[m].amb = row.amb /\ match'[m].ref = row.ref
        BY <3>3, <3>5 DEF MatchRow
      <3>6. ASSUME NEW st \in {"DECLINED", "EXPIRED", "CANCELLED"},
                   match'[m] = [row EXCEPT !.status = st, !.reported = TRUE]
            PROVE  /\ match'[m] \in MatchRow /\ match'[m].status = st
                   /\ match'[m].amb = row.amb /\ match'[m].ref = row.ref
        BY <3>3, <3>6 DEF MatchRow
      <3>7. QED
        BY <3>1, <3>4, <3>5, <3>6
    <2>3. QED
      BY <1>2, <2>1, <2>2 DEF IsActive, ActiveStatus, OpenStatus
  <1>7. QED
    BY <1>1, <1>4, <1>5, <1>6 DEF MatchOps

LEMMA ProposedFacts ==
  ASSUME NEW m \in MatchIds, Proposed(m)
  PROVE  /\ match'[m] \in MatchRow
         /\ match'[m] # NoMatch
         /\ match'[m].status = "PROPOSED"
         /\ match'[m].accepted = {}
         /\ DerivedStatus(match'[m], {}) = "PROPOSED"
         /\ \A r \in Parties(match'[m]) :
              r \in Registrations /\ reg'[r].status # "UNVERIFIED"
  <1>6. PICK r \in Registrations : \E c \in Counterparts(r) :
          /\ match'[m] = NewMatch(r, c)
          /\ reg'[r].status # "UNVERIFIED" /\ reg'[c].status # "UNVERIFIED"
    BY DEF Proposed
  <1>1. PICK c \in Counterparts(r) :
          /\ match'[m] = NewMatch(r, c)
          /\ reg'[r].status # "UNVERIFIED" /\ reg'[c].status # "UNVERIFIED"
    BY <1>6
  <1>2. NewMatch(r, c) \in MatchRow /\ c \in Registrations
    BY CounterpartsType
  <1>3. Parties(NewMatch(r, c)) = {r, c}
    BY DEF NewMatch, Parties
  <1>4. NewMatch(r, c).status = "PROPOSED" /\ NewMatch(r, c).accepted = {}
    BY DEF NewMatch
  <1>5. QED
    BY <1>1, <1>2, <1>3, <1>4, NullsAssumption DEF DerivedStatus

(* Deposits and statuses: what one step may do to one registration. *)

LEMMA DepositStep ==
  ASSUME IInv, [Next]_vars, NEW r \in Registrations
  PROVE  /\ deposit[r] \in Settled => deposit'[r] \in Settled
         /\ deposit[r] # "NONE" => deposit'[r] # "NONE"
         /\ deposit'[r] # "FORFEITED"
         /\ r \notin PaidTier => deposit'[r] = "NONE"
  <1> DEFINE Fine == /\ deposit[r] \in Settled => deposit'[r] \in Settled
                     /\ deposit[r] # "NONE" => deposit'[r] # "NONE"
                     /\ deposit'[r] # "FORFEITED"
                     /\ r \notin PaidTier => deposit'[r] = "NONE"
  <1> USE DEF IInv, TypeInv
  <1>1. /\ deposit[r] # "FORFEITED" /\ deposit[r] \in PaymentStatus
        /\ r \notin PaidTier => deposit[r] = "NONE"
    BY DEF DepositsInHand, TypeOK
  <1>2. CASE deposit' = deposit
    BY <1>1, <1>2
  <1>3. ASSUME NEW rs, deposit' = Capture(deposit, rs) PROVE Fine
    BY <1>1, <1>3 DEF Capture, Settled
  <1>4. ASSUME NEW p \in Procs, CommitReport(p) PROVE Fine
    <2> DEFINE q == req[p]
               accused == OtherParty(q.row, q.who)
    <2>1. /\ q.row \in MatchRow /\ accused \in Registrations
          /\ q # Idle /\ q.op = "report"
      BY <1>4, CommitFinds DEF CommitReport, InHandler, MatchOps
    <2>2. accused \in PaidTier => deposit[accused] \in Settled
      BY <2>1 DEF RequestsHold, RequestHolds, OtherParty, Parties
    <2>3. accused \notin PaidTier => deposit[accused] = "NONE"
      BY <2>1 DEF DepositsInHand
    <2>4. deposit' = deposit
      BY <1>4, <2>2, <2>3 DEF CommitReport, Forfeit, Settled
    <2>5. QED
      BY <1>2, <2>4
  <1>5. ASSUME NEW p \in Procs, Commit(p) PROVE Fine
    <2>1. CASE CommitAccept(p)
      <3>1. deposit' = deposit \/ deposit' = Capture(deposit, Parties(req[p].row))
        BY <2>1 DEF CommitAccept
      <3>2. QED
        BY <1>2, <1>3, <3>1
    <2>2. CASE CommitReport(p)
      BY <1>4, <2>2
    <2>3. CASE ~CommitAccept(p) /\ ~CommitReport(p)
      BY <1>2, <1>5, <2>3 DEF Commit, CommitWithdraw, CommitDecline, CommitExpire,
        Rollback, CommitConfirm, CommitRejoin, CommitDrain
    <2>4. QED
      BY <2>1, <2>2, <2>3
  <1>6. ASSUME NEW p \in Procs, NEW s \in Registrations, FinalizePaid(p, s) PROVE Fine
    BY <1>1, <1>6 DEF FinalizePaid, TypeOK, Settled
  <1>7. ASSUME NEW p \in Procs, Fetch(p) PROVE Fine
    BY <1>2, <1>7, FetchFrame
  <1>8. ASSUME NEW s \in Registrations, Refund(s) PROVE Fine
    <2>1. CASE s = r
      BY <1>1, <1>8, <2>1 DEF Refund, TypeOK, Settled
    <2>2. CASE s # r
      BY <1>1, <1>8, <2>2 DEF Refund, TypeOK
    <2>3. QED
      BY <2>1, <2>2
  <1>9. CASE OpenMatching \/ (\E m \in MatchIds : Lapse(m)) \/ UNCHANGED vars
    BY <1>2, <1>9 DEF OpenMatching, Lapse, vars
  <1>10. QED
    BY <1>5, <1>6, <1>7, <1>8, <1>9 DEF Next

(* The parties of the match a request works on. *)
LEMMA PartiesConfirmed ==
  ASSUME IInv, NEW p \in Procs, NEW op \in MatchOps, InHandler(p, op)
  PROVE  LET q == req[p]
         IN  /\ q.who \in Parties(match[q.id])
             /\ OtherParty(q.row, q.who) \in Parties(match[q.id])
             /\ Parties(match[q.id]) = Parties(q.row)
             /\ \A r \in Parties(match[q.id]) : reg[r].status # "UNVERIFIED"
  <1> DEFINE q == req[p]
  <1>1. q.id \in MatchIds /\ match[q.id] # NoMatch /\ q # Idle /\ q.op \in MatchOps
    BY CommitFinds DEF IInv, InHandler
  <1>2. /\ q.who \in Parties(q.row) /\ match[q.id].amb = q.row.amb
        /\ match[q.id].ref = q.row.ref
    BY <1>1 DEF IInv, TypeInv, RequestsHold, RequestHolds
  <1>3. \A r \in Parties(match[q.id]) : reg[r].status # "UNVERIFIED"
    BY <1>1 DEF IInv, MatchedAreConfirmed, Created
  <1>4. QED
    BY <1>2, <1>3 DEF Parties, OtherParty

LEMMA ConfirmedStep ==
  ASSUME IInv, [Next]_vars, NEW r \in Registrations
  PROVE  /\ reg[r].status # "UNVERIFIED" => reg'[r].status # "UNVERIFIED"
         /\ r \in PaidTier /\ reg'[r].status # "UNVERIFIED" => deposit'[r] # "NONE"
  <1> DEFINE Kept == reg'[r].status # "UNVERIFIED" <=> reg[r].status # "UNVERIFIED"
             Fine == /\ reg[r].status # "UNVERIFIED" => reg'[r].status # "UNVERIFIED"
                     /\ r \in PaidTier /\ reg'[r].status # "UNVERIFIED" =>
                          deposit'[r] # "NONE"
  <1> USE DEF IInv, TypeInv
  <1>1. r \in PaidTier /\ reg[r].status # "UNVERIFIED" => deposit'[r] # "NONE"
    BY DepositStep DEF DepositsInHand
  <1>2. CASE Kept
    BY <1>1, <1>2
  <1>3. reg \in RegistrationTables
    BY DEF TypeOK, RegistrationTables
  <1>4. ASSUME NEW p \in Procs, CommitDecline(p) PROVE Kept
    <2> DEFINE q == req[p]
               other == OtherParty(q.row, q.who)
    <2>1. /\ q.who \in Registrations /\ other \in Registrations
          /\ reg[q.who].status # "UNVERIFIED" /\ reg[other].status # "UNVERIFIED"
      BY <1>4, CommitFinds, PartiesConfirmed DEF CommitDecline, MatchOps
    <2>2. Pause(reg, q.who) \in RegistrationTables
      BY <1>3, <2>1 DEF Pause, RegistrationTables, RegistrationRow, RegistrationStatus
    <2>3. reg'[r].status = IF r = other THEN "VERIFIED" ELSE Pause(reg, q.who)[r].status
      BY <1>4, <2>1, <2>2, RequeuedStatus DEF CommitDecline
    <2>4. Pause(reg, q.who)[r].status = IF r = q.who THEN "PAUSED" ELSE reg[r].status
      BY <1>3, <2>1, RemovedStatus
    <2>5. QED
      BY <2>1, <2>3, <2>4
  <1>5. ASSUME NEW p \in Procs, CommitReport(p) PROVE Kept
    <2> DEFINE q == req[p]
               accused == OtherParty(q.row, q.who)
    <2>1. /\ q.who \in Registrations /\ accused \in Registrations
          /\ reg[q.who].status # "UNVERIFIED" /\ reg[accused].status # "UNVERIFIED"
      BY <1>5, CommitFinds, PartiesConfirmed DEF CommitReport, MatchOps
    <2>2. Suspend(reg, accused) \in RegistrationTables
      BY <1>3, <2>1 DEF Suspend, RegistrationTables, RegistrationRow, RegistrationStatus
    <2>3. reg'[r].status = IF r = q.who THEN "VERIFIED" ELSE Suspend(reg, accused)[r].status
      BY <1>5, <2>1, <2>2, RequeuedStatus DEF CommitReport
    <2>4. Suspend(reg, accused)[r].status =
            IF r = accused THEN "SUSPENDED" ELSE reg[r].status
      BY <1>3, <2>1, RemovedStatus
    <2>5. QED
      BY <2>1, <2>3, <2>4
  <1>6. ASSUME NEW p \in Procs, CommitExpire(p) PROVE Kept
    <2> DEFINE q == req[p]
               other == OtherParty(q.row, q.who)
               once == Lapsed(reg, q, q.who, q.own)
    <2>1. /\ q.who \in Registrations /\ other \in Registrations
          /\ q.own \in RegistrationRow
          /\ reg[q.who].status # "UNVERIFIED" /\ reg[other].status # "UNVERIFIED"
      BY <1>6, CommitFinds, PartiesConfirmed DEF CommitExpire, MatchOps
    <2>2. once \in RegistrationTables
      BY <1>3, <2>1, LapsedType
    <2>3. once[q.who].status = IF q.who \in q.row.accepted THEN "VERIFIED" ELSE "PAUSED"
      BY <1>3, <2>1, LapsedStatus
    <2>4. r # q.who => once[r].status = reg[r].status
      BY <1>3, <2>1 DEF Lapsed, Requeue, Pause, RegistrationTables
    <2>5. /\ r = other => reg'[r].status # "UNVERIFIED"
          /\ r # other => reg'[r].status = once[r].status
      BY <1>6, <2>1, <2>2, LapsedStatus DEF CommitExpire
    <2>6. QED
      BY <2>1, <2>3, <2>4, <2>5
  <1>7. ASSUME NEW p \in Procs, CommitConfirm(p) \/ CommitRejoin(p) PROVE Fine
    <2> DEFINE q == req[p]
    <2>1. q # Idle /\ q.who \in Registrations /\ q.op \in {"confirm", "rejoin"}
      BY <1>7, RequestType DEF CommitConfirm, CommitRejoin, InHandler
    <2>2. /\ q.op = "confirm" => q.who \notin PaidTier
          /\ q.op = "rejoin" => reg[q.who].status # "UNVERIFIED"
      BY <2>1 DEF RequestsHold, RequestHolds
    <2>3. reg'[r].status = IF r = q.who THEN "VERIFIED" ELSE reg[r].status
      BY <1>7, <2>1 DEF CommitConfirm, CommitRejoin, TypeOK, RegistrationRow
    <2>4. QED
      BY <1>1, <2>1, <2>2, <2>3
  <1>8. ASSUME NEW p \in Procs, NEW s \in Registrations, FinalizePaid(p, s) PROVE Fine
    <2>1. reg' = reg \/ reg' = [reg EXCEPT ![s].status = "VERIFIED"]
      BY <1>8 DEF FinalizePaid
    <2>2. r # s => reg'[r].status = reg[r].status
      BY <2>1 DEF TypeOK
    <2>3. r = s => reg[r].status = "UNVERIFIED" \/ Kept
      BY <1>8 DEF FinalizePaid
    <2>4. r = s => deposit'[r] # "NONE"
      BY <1>8 DEF FinalizePaid, TypeOK
    <2>5. QED
      BY <1>1, <2>2, <2>3, <2>4
  <1>9. CASE reg' = reg
    BY <1>2, <1>9
  <1>10. ASSUME NEW p \in Procs, Fetch(p) \/ Commit(p) PROVE Fine
    <2>1. CASE reg' # reg
      <3>1. \/ CommitDecline(p) \/ CommitReport(p) \/ CommitExpire(p)
            \/ CommitConfirm(p) \/ CommitRejoin(p)
        BY <1>10, <2>1, FetchFrame DEF Commit, CommitAccept, CommitWithdraw,
          Rollback, CommitDrain
      <3>2. QED
        BY <1>2, <1>4, <1>5, <1>6, <1>7, <3>1
    <2>2. QED
      BY <1>9, <2>1
  <1>11. CASE OpenMatching \/ (\E m \in MatchIds : Lapse(m))
         \/ (\E owner \in Registrations : Refund(owner)) \/ UNCHANGED vars
    BY <1>9, <1>11 DEF OpenMatching, Lapse, Refund, vars
  <1>12. QED
    BY <1>8, <1>10, <1>11 DEF Next

-----------------------------------------------------------------------------
(* Each conjunct is preserved *)

LEMMA CreatedStays ==
  ASSUME IInv, [Next]_vars, NEW m \in Created
  PROVE  /\ m \in MatchIds /\ match'[m] # NoMatch
         /\ match'[m].amb = match[m].amb /\ match'[m].ref = match[m].ref
         /\ Parties(match'[m]) = Parties(match[m])
  <1>1. m \in MatchIds /\ match[m] # NoMatch
    BY DEF Created
  <1>2. RowEffect(m)
    BY <1>1, RowStep DEF IInv
  <1>3. CASE Untouched(m)
    BY <1>1, <1>3 DEF Untouched, Parties
  <1>4. ASSUME NEW p \in Procs, Written(p, m)
        PROVE  /\ match'[m] # NoMatch
               /\ match'[m].amb = match[m].amb /\ match'[m].ref = match[m].ref
    BY <1>1, <1>4, WrittenFacts, NullsAssumption
  <1>5. QED
    BY <1>1, <1>2, <1>3, <1>4 DEF RowEffect, Proposed, Parties

LEMMA StatusStep ==
  ASSUME IInv, [Next]_vars PROVE StatusFollowsAcceptances'
  <1> SUFFICES ASSUME NEW m \in Created', IsActive(match'[m])
               PROVE  match'[m].status = DerivedStatus(match'[m], match'[m].accepted)
    BY DEF StatusFollowsAcceptances
  <1>1. m \in MatchIds /\ match'[m] # NoMatch
    BY DEF Created
  <1>2. CASE Untouched(m)
    BY <1>1, <1>2 DEF Untouched, IInv, StatusFollowsAcceptances, Created
  <1>3. CASE Proposed(m)
    BY <1>1, <1>3, ProposedFacts
  <1>4. ASSUME NEW p \in Procs, Written(p, m)
        PROVE  match'[m].status = DerivedStatus(match'[m], match'[m].accepted)
    BY <1>1, <1>4, WrittenFacts
  <1>5. QED
    BY <1>1, <1>2, <1>3, <1>4, RowStep DEF RowEffect, IInv

LEMMA AuditStep ==
  ASSUME IInv, [Next]_vars PROVE AuditTrail' /\ UnusedUnlogged'
  <1>1. ASSUME NEW m \in Created' PROVE logged'[m] = match'[m].status
    <2>1. m \in MatchIds /\ match'[m] # NoMatch
      BY DEF Created
    <2>2. CASE Untouched(m)
      BY <2>1, <2>2 DEF Untouched, IInv, AuditTrail, Created
    <2>3. CASE Proposed(m)
      <3>1. logged[m] = "PROPOSED" /\ logged'[m] = logged[m]
        BY <2>1, <2>3 DEF Proposed, IInv, UnusedUnlogged, Created
      <3>2. QED
        BY <2>1, <2>3, <3>1, ProposedFacts
    <2>4. ASSUME NEW p \in Procs, Written(p, m) PROVE logged'[m] = match'[m].status
      <3>1. match'[m].status # req[p].row.status
        BY <2>1, <2>4, WrittenFacts
      <3>2. QED
        BY <2>4, <3>1 DEF Written
    <2>5. QED
      BY <2>1, <2>2, <2>3, <2>4, RowStep DEF RowEffect, IInv
  <1>2. ASSUME NEW m \in MatchIds, match'[m] = NoMatch PROVE logged'[m] = "PROPOSED"
    <2>1. m \notin Created
      BY <1>2, CreatedStays
    <2>2. CASE Untouched(m)
      BY <1>2, <2>1, <2>2 DEF Untouched, IInv, UnusedUnlogged
    <2>3. QED
      BY <1>2, <2>1, <2>2, RowStep, ProposedFacts
      DEF RowEffect, IInv, Written, Created
  <1>3. QED
    BY <1>1, <1>2 DEF AuditTrail, UnusedUnlogged, Created

LEMMA SettledStep ==
  ASSUME IInv, [Next]_vars PROVE NothingHeldOnceAccepted'
  <1> SUFFICES ASSUME NEW m \in Created', match'[m].status = "ACCEPTED",
                      NEW r \in Parties(match'[m]) \cap PaidTier
               PROVE  deposit'[r] \in Settled
    BY DEF NothingHeldOnceAccepted
  <1>1. m \in MatchIds /\ match'[m] # NoMatch /\ r \in Registrations
    BY SubsetsOfRegistrations DEF Created
  <1>2. CASE Untouched(m)
    <2>1. deposit[r] \in Settled
      BY <1>1, <1>2 DEF Untouched, IInv, NothingHeldOnceAccepted, Created
    <2>2. QED
      BY <1>1, <2>1, DepositStep
  <1>3. CASE Proposed(m)
    BY <1>1, <1>3, ProposedFacts
  <1>4. ASSUME NEW p \in Procs, Written(p, m) PROVE deposit'[r] \in Settled
    <2> DEFINE q == req[p]
    <2>1. /\ q.op = "accept"
          /\ match'[m].amb = q.row.amb /\ match'[m].ref = q.row.ref
          /\ match[m].amb = q.row.amb /\ match[m].ref = q.row.ref
      BY <1>1, <1>4, WrittenFacts
    <2>2. deposit' = Capture(deposit, Parties(q.row))
      BY <1>4, <2>1 DEF Written
    <2>3. r \in Parties(q.row) /\ r \in Parties(match[m]) /\ m \in Created
      BY <1>1, <1>4, <2>1 DEF Parties, Written, Created
    <2>4. deposit[r] # "NONE" /\ deposit[r] # "FORFEITED" /\ deposit[r] \in PaymentStatus
      BY <1>1, <2>3 DEF IInv, TypeInv, TypeOK, MatchedAreConfirmed, DepositsInHand
    <2>5. QED
      BY <1>1, <2>2, <2>3, <2>4 DEF Capture, PaymentStatus, Settled
  <1>5. QED
    BY <1>1, <1>2, <1>3, <1>4, RowStep DEF RowEffect, IInv

LEMMA ConfirmedPartiesStep ==
  ASSUME IInv, [Next]_vars PROVE MatchedAreConfirmed' /\ DepositsInHand'
  <1>1. DepositsInHand'
    BY DepositStep, ConfirmedStep DEF DepositsInHand
  <1>2. ASSUME NEW m \in Created', NEW r \in Parties(match'[m])
        PROVE  r \in Registrations /\ reg'[r].status # "UNVERIFIED"
    <2>1. m \in MatchIds
      BY DEF Created
    <2>2. CASE m \in Created
      <3>1. r \in Parties(match[m]) /\ match[m] \in MatchRow
        BY <2>2, CreatedStays DEF IInv, TypeInv, TypeOK, Created
      <3>2. r \in Registrations /\ reg[r].status # "UNVERIFIED"
        BY <2>2, <3>1 DEF IInv, MatchedAreConfirmed, Parties, MatchRow, Registrations
      <3>3. QED
        BY <3>2, ConfirmedStep
    <2>3. CASE m \notin Created
      <3>1. Proposed(m)
        BY <2>1, <2>3, RowStep DEF RowEffect, Untouched, Written, Created, IInv
      <3>2. QED
        BY <2>1, <3>1, ProposedFacts
    <2>4. QED
      BY <2>2, <2>3
  <1>3. QED
    BY <1>1, <1>2, ConfirmedStep DEF MatchedAreConfirmed
LEMMA RequestKept ==
  ASSUME IInv, [Next]_vars, NEW q \in MatchRequest \cup RegistrationRequest,
         RequestHolds(q)
  PROVE  RequestHolds(q)'
  <1>1. CASE q.op \in MatchOps
    <2>1. q \in MatchRequest /\ q.row \in MatchRow /\ q.id \in MatchIds
      BY <1>1 DEF MatchRequest, RegistrationRequest, MatchOps, RegistrationOps
    <2>2. match[q.id] # NoMatch /\ q.id \in Created
      BY <1>1, <2>1 DEF RequestHolds, Created
    <2>3. /\ match'[q.id] # NoMatch /\ match'[q.id].amb = match[q.id].amb
          /\ match'[q.id].ref = match[q.id].ref
      BY <2>2, CreatedStays
    <2>4. \A r \in Parties(q.row) : deposit[r] \in Settled => deposit'[r] \in Settled
      BY <2>1, DepositStep DEF Parties, MatchRow, Registrations
    <2>5. QED
      BY <1>1, <2>3, <2>4 DEF RequestHolds, MatchOps
  <1>2. CASE q.op \in RegistrationOps
    <2>1. q.who \in Registrations
      BY DEF MatchRequest, RegistrationRequest
    <2>2. reg[q.who].status # "UNVERIFIED" => reg'[q.who].status # "UNVERIFIED"
      BY <2>1, ConfirmedStep
    <2>3. QED
      BY <1>2, <2>2 DEF RequestHolds, RegistrationOps, MatchOps
  <1>3. QED
    BY <1>1, <1>2 DEF MatchRequest, RegistrationRequest

LEMMA FetchedHolds ==
  ASSUME IInv, NEW p \in Procs, Fetch(p)
  PROVE  RequestHolds(req[p])'
  <1>1. UNCHANGED <<reg, match, deposit>>
    BY FetchFrame
  <1>2. ASSUME NEW op \in MatchOps, NEW m \in MatchIds, NEW r \in Registrations,
               FetchMatch(p, op, m, r), IsActive(match[m]),
               op \in {"accept", "decline", "expire", "withdraw"} => IsOpen(match[m]),
               op = "accept" => r \notin match[m].accepted,
               op = "withdraw" => r \in match[m].accepted,
               op = "report" => match[m].status = "ACCEPTED"
        PROVE  RequestHolds(req[p])'
    <2>1. m \in Created /\ r \in Parties(match[m])
      BY <1>2 DEF FetchMatch
    <2>2. match[m] # NoMatch /\ match[m].status = DerivedStatus(match[m], match[m].accepted)
      BY <1>2, <2>1 DEF IInv, StatusFollowsAcceptances, Created
    <2>3. match[m].status = "ACCEPTED" =>
            \A s \in Parties(match[m]) \cap PaidTier : deposit[s] \in Settled
      BY <2>1 DEF IInv, NothingHeldOnceAccepted
    <2>4. PICK q : /\ q = req'[p] /\ q.op = op /\ q.id = m /\ q.who = r
                   /\ q.row = match[m]
      BY <1>2 DEF FetchMatch, IInv, TypeInv, TypeOK
    <2>5. RequestHolds(q)
      BY <1>2, <2>1, <2>2, <2>3, <2>4 DEF RequestHolds, MatchOps
    <2>6. QED
      BY <1>1, <2>4, <2>5 DEF RequestHolds
  <1>3. ASSUME NEW m \in MatchIds, NEW r \in Registrations,
               \/ ViewAccept(p, m, r) \/ ViewWithdraw(p, m, r)
               \/ ViewDecline(p, m, r) \/ ViewReport(p, m, r)
        PROVE  RequestHolds(req[p])'
    BY <1>2, <1>3 DEF ViewAccept, ViewWithdraw, ViewDecline, ViewReport, MatchOps,
      Actionable, Waiting, IsActive, IsOpen, ActiveStatus
  <1>4. ASSUME NEW m \in MatchIds, SweepFetch(p, m)
        PROVE  RequestHolds(req[p])'
    <2>1. match[m].amb \in Registrations /\ "expire" \in MatchOps
      BY <1>4 DEF SweepFetch, Created, IInv, TypeInv, TypeOK, MatchRow, Registrations,
        MatchOps
    <2>2. QED
      BY <1>2, <1>4, <2>1 DEF SweepFetch, IsActive, IsOpen, ActiveStatus
  <1>5. ASSUME NEW op \in RegistrationOps, NEW r \in Registrations,
               FetchRegistration(p, op, r),
               op = "confirm" => r \notin PaidTier,
               op \in {"rejoin", "propose"} => reg[r].status # "UNVERIFIED"
        PROVE  RequestHolds(req[p])'
    <2>1. PICK q : q = req'[p] /\ q.op = op /\ q.who = r
      BY <1>5 DEF FetchRegistration, IInv, TypeInv, TypeOK
    <2>2. RequestHolds(q)
      BY <1>5, <2>1 DEF RequestHolds, MatchOps, RegistrationOps
    <2>3. QED
      BY <1>1, <2>1, <2>2 DEF RequestHolds
  <1>6. ASSUME NEW r \in Registrations,
               ViewConfirm(p, r) \/ ViewRejoin(p, r) \/ DrainFetch(p, r)
        PROVE  RequestHolds(req[p])'
    BY <1>5, <1>6 DEF ViewConfirm, ViewRejoin, DrainFetch, RegistrationOps
  <1>7. QED
    BY <1>3, <1>4, <1>6 DEF Fetch

(* Only a fetch puts something into memory. *)
LEMMA RequestStep ==
  ASSUME TypeOK, [Next]_vars, NEW o \in Procs
  PROVE  req'[o] = req[o] \/ req'[o] = Idle \/ Fetch(o)
  <1>1. ASSUME NEW p \in Procs, Fetch(p) PROVE req'[o] = req[o] \/ Fetch(o)
    <2>1. CASE o = p
      BY <1>1, <2>1
    <2>2. CASE o # p
      BY <1>1, <2>2 DEF TypeOK, Fetch, ViewAccept, ViewWithdraw, ViewDecline,
        ViewReport, SweepFetch, ViewConfirm, ViewRejoin, DrainFetch, FetchMatch,
        FetchRegistration
    <2>3. QED
      BY <2>1, <2>2
  <1>2. ASSUME NEW p \in Procs, Commit(p) PROVE req'[o] = req[o] \/ req'[o] = Idle
    <2>1. Finish(p)
      BY <1>2 DEF Commit, CommitAccept, CommitWithdraw, CommitDecline, CommitExpire,
        CommitReport, Rollback, CommitConfirm, CommitRejoin, CommitDrain
    <2>2. QED
      BY <2>1, FinishType
  <1>3. ASSUME NEW p \in Procs, NEW r \in Registrations, FinalizePaid(p, r)
        PROVE  req' = req
    BY <1>3 DEF FinalizePaid
  <1>4. CASE OpenMatching \/ (\E m \in MatchIds : Lapse(m))
         \/ (\E owner \in Registrations : Refund(owner)) \/ UNCHANGED vars
    BY <1>4 DEF OpenMatching, Lapse, Refund, vars
  <1>5. QED
    BY <1>1, <1>2, <1>3, <1>4 DEF Next

LEMMA RequestsStep ==
  ASSUME IInv, [Next]_vars PROVE RequestsHold'
  <1> SUFFICES ASSUME NEW p \in Procs, req'[p] # Idle PROVE RequestHolds(req[p])'
    BY DEF RequestsHold
  <1>1. CASE Fetch(p)
    BY <1>1, FetchedHolds
  <1>2. CASE req'[p] = req[p]
    <2>1. PICK q \in MatchRequest \cup RegistrationRequest : q = req[p] /\ RequestHolds(q)
      BY <1>2 DEF IInv, TypeInv, TypeOK, RequestsHold
    <2>2. RequestHolds(q)' /\ q = req'[p]
      BY <1>2, <2>1, RequestKept
    <2>3. QED
      BY <2>2 DEF RequestHolds
  <1>3. QED
    BY <1>1, <1>2, RequestStep DEF IInv, TypeInv

LEMMA InvInit ==
  ASSUME Init PROVE IInv
  <1>1. TypeOK
    BY TypeInit
  <1>2. Created = {} /\ RequestsHold
    BY DEF Init, Created, RequestsHold
  <1>3. UnusedUnlogged /\ DepositsInHand
    BY DEF Init, UnusedUnlogged, DepositsInHand
  <1>4. QED
    BY <1>1, <1>2, <1>3 DEF IInv, TypeInv, StatusFollowsAcceptances, AuditTrail,
      NothingHeldOnceAccepted, MatchedAreConfirmed

LEMMA InvStep ==
  ASSUME IInv, [Next]_vars PROVE IInv'
  <1>1. TypeOK'
    BY TypeStep DEF IInv
  <1>2. QED
    BY <1>1, RequestsStep, StatusStep, AuditStep, SettledStep, ConfirmedPartiesStep
    DEF IInv, TypeInv

(* However handlers interleave, every reachable state satisfies IInv. *)
THEOREM Invariance == Spec => []IInv
  BY InvInit, InvStep, PTL DEF Spec

(* Type correctness: the tables and the requests always have their types. *)
THEOREM TypeCorrect == Spec => []TypeOK
  <1>1. IInv => TypeOK
    BY DEF IInv, TypeInv
  <1>2. QED
    BY <1>1, Invariance, PTL

(* However many processes interleave, the status of an active match follows
   from the acceptances saved with it. *)
THEOREM StatusIsDerived == Spec => []StatusFollowsAcceptances
  <1>1. IInv => StatusFollowsAcceptances
    BY DEF IInv
  <1>2. QED
    BY <1>1, Invariance, PTL

(* However many processes interleave, every change of a match's status is the
   last row of its log. *)
THEOREM LogIsComplete == Spec => []AuditTrail
  <1>1. IInv => AuditTrail
    BY DEF IInv
  <1>2. QED
    BY <1>1, Invariance, PTL

(* However many processes interleave, and whatever is paid back, no deposit of an
   accepted match is left HELD or missing. *)
THEOREM NothingLeftHeld == Spec => []NothingHeldOnceAccepted
  <1>1. IInv => NothingHeldOnceAccepted
    BY DEF IInv
  <1>2. QED
    BY <1>1, Invariance, PTL

(* However many processes interleave, only confirmed and paid registrations
   are matched. *)
THEOREM OnlyConfirmedMatched == Spec => []MatchedAreConfirmed
  <1>1. IInv => MatchedAreConfirmed
    BY DEF IInv
  <1>2. QED
    BY <1>1, Invariance, PTL

(* What every handler relies on while others run between its read and its
   write: what a request carries from its read stays coherent, a deposit that was
   settled is never HELD again, and an unused match id has no log line. *)
THEOREM HandlersRelyOn == Spec => []ConcurrentInv
  <1>1. IInv => ConcurrentInv
    BY DEF IInv, TypeInv, ConcurrentInv
  <1>2. QED
    BY <1>1, Invariance, PTL

=============================================================================
