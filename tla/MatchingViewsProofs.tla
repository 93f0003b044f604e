-------------------------- MODULE MatchingViewsProofs --------------------------
(***************************************************************************)
(* Theorems about what participants are told when handlers run one after   *)
(* the other: the mails of MatchingNotices, then the pages of              *)
(* MatchingQueue; for any registrations and matches, and a single process. *)
(* The invariant is SInv of MatchingSerialProofs.                          *)
(***************************************************************************)
EXTENDS MatchingSerialProofs, MatchingNotices, MatchingQueue, FiniteSetTheorems,
        WellFoundedInduction


Ending(p) == CommitDecline(p) \/ CommitExpire(p) \/ CommitReport(p)

(* A transaction sends the mails of one transition, and those of the match it
   proposes. *)
LEMMA MailsOf ==
  ASSUME NEW p \in Procs
  PROVE  /\ CommitAccept(p) => Mails(p) = ProposalMails \cup AcceptMails(req[p])
         /\ CommitDecline(p) => Mails(p) = ProposalMails \cup DeclineMails(req[p])
         /\ CommitExpire(p) => Mails(p) = ProposalMails \cup ExpiryMails(req[p])
         /\ CommitReport(p) => Mails(p) = ProposalMails \cup ReportMails(req[p])
         /\ ~CommitAccept(p) /\ ~Ending(p) => Mails(p) = ProposalMails
  <1>1. /\ CommitAccept(p) => req[p].op = "accept"
        /\ CommitDecline(p) => req[p].op = "decline"
        /\ CommitExpire(p) => req[p].op = "expire"
        /\ CommitReport(p) => req[p].op = "report"
    BY DEF CommitAccept, CommitDecline, CommitExpire, CommitReport, InHandler
  <1>2. QED
    BY <1>1 DEF Mails, Ending

-----------------------------------------------------------------------------
(* What a transaction leaves of the rows its mails are about *)

(* A new match is between its two parties and still PROPOSED. *)
LEMMA NewMatchRow ==
  ASSUME SInv, [Next]_vars, NEW m \in NewMatches
  PROVE  /\ m \in MatchIds /\ match'[m].status = "PROPOSED"
         /\ match'[m].amb \in Registrations /\ match'[m].ref \in Registrations
  <1>1. m \in MatchIds /\ match[m] = NoMatch /\ match'[m] # NoMatch
    BY DEF NewMatches
  <1>2. RowEffect(m)
    BY <1>1, RowStep DEF SInv, IInv
  <1>3. \E r \in Registrations : \E c \in Counterparts(r) : match'[m] = NewMatch(r, c)
    BY <1>1, <1>2 DEF RowEffect, Untouched, Proposed, Written
  <1>4. QED
    BY <1>1, <1>3, CounterpartsType DEF NewMatch, MatchRow, Registrations

LEMMA AcceptedRow ==
  ASSUME SInv, NEW p \in Procs, CommitAccept(p)
  PROVE  LET q == req[p]
             other == OtherParty(q.row, q.who)
         IN  /\ q.id \in MatchIds
             /\ q.who \in Registrations /\ other \in Registrations /\ q.who # other
             /\ q.row = match[q.id]
             /\ Parties(match[q.id]) = {q.who, other}
             /\ Parties(match'[q.id]) = {q.who, other}
             /\ match'[q.id].status = DerivedStatus(q.row, q.row.accepted \cup {q.who})
             /\ match'[q.id].accepted = q.row.accepted \cup {q.who}
  <1> DEFINE q == req[p]
             other == OtherParty(q.row, q.who)
  <1>1. InHandler(p, "accept") /\ "accept" \in MatchOps
    BY DEF CommitAccept, MatchOps
  <1>2. /\ q.op = "accept" /\ q.id \in MatchIds /\ match[q.id] # NoMatch
        /\ match[q.id] \in MatchRow /\ q.row = match[q.id]
        /\ q.who \in Registrations /\ other \in Registrations /\ q.who # other
        /\ Parties(match[q.id]) = {q.who, other}
    BY <1>1, CommitFresh
  <1>3. match'[q.id] = Outcome(q, match[q.id])
    BY <1>2, AcceptRow DEF Written, SInv, IInv
  <1>4. QED
    BY <1>2, <1>3 DEF Outcome, MatchRow, Parties

(* A handler that ends a match rewrites the registrations of its two parties
   and no other. *)
LEMMA EndedRows ==
  ASSUME SInv, NEW p \in Procs, Ending(p)
  PROVE  LET q == req[p]
             other == OtherParty(q.row, q.who)
         IN  /\ q # Idle /\ q.id \in MatchIds /\ q.row = match[q.id]
             /\ q.who \in Registrations /\ other \in Registrations /\ q.who # other
             /\ Parties(match'[q.id]) = {q.who, other}
             /\ Parties(q.row) = {q.who, other}
             /\ match'[q.id].status = CASE q.op = "decline" -> "DECLINED"
                                        [] q.op = "expire" -> "EXPIRED"
                                        [] q.op = "report" -> "CANCELLED"
  <1> DEFINE q == req[p]
             other == OtherParty(q.row, q.who)
  <1>1. PICK op \in {"decline", "expire", "report"} : InHandler(p, op)
    BY DEF Ending, CommitDecline, CommitExpire, CommitReport
  <1>2. /\ q.op = op /\ q.id \in MatchIds /\ match[q.id] # NoMatch
        /\ match[q.id] \in MatchRow /\ q.row = match[q.id] /\ q # Idle
        /\ q.who \in Registrations /\ other \in Registrations /\ q.who # other
        /\ Parties(match[q.id]) = {q.who, other}
    BY <1>1, CommitFresh DEF MatchOps, InHandler
  <1>3. match'[q.id] = Outcome(q, match[q.id])
    BY <1>2, DeclineEnds, ExpireEnds, ReportEnds, EndedRow DEF Ending, Written, SInv, IInv
  <1>4. QED
    BY <1>1, <1>2, <1>3 DEF Outcome, MatchRow, Parties

LEMMA EndedStandings ==
  ASSUME SInv, NEW p \in Procs, Ending(p)
  PROVE  LET q == req[p]
             other == OtherParty(q.row, q.who)
         IN  /\ \A r \in Registrations : r \notin {q.who, other} => reg'[r] = reg[r]
             /\ CommitDecline(p) => reg'[other].status = "VERIFIED"
             /\ CommitReport(p) => /\ reg'[other].status = "SUSPENDED"
                                   /\ reg'[q.who].status = "VERIFIED"
             /\ CommitExpire(p) =>
                  \A r \in {q.who, other} :
                    reg'[r].status = IF r \in q.row.accepted THEN "VERIFIED" ELSE "PAUSED"
  <1> DEFINE q == req[p]
             other == OtherParty(q.row, q.who)
             once == Lapsed(reg, q, q.who, q.own)
  <1>1. /\ q.who \in Registrations /\ other \in Registrations /\ q.who # other
    BY EndedRows
  <1>2. q.own \in RegistrationRow
    BY CommitFresh DEF Ending, CommitDecline, CommitExpire, CommitReport, MatchOps
  <1>3. reg \in RegistrationTables
    BY DEF SInv, IInv, TypeInv, TypeOK, RegistrationTables
  <1>4. CASE CommitDecline(p)
    <2>1. reg' = Requeue(Pause(reg, q.who), other, q.other)
      BY <1>4 DEF CommitDecline
    <2>2. ~CommitReport(p) /\ ~CommitExpire(p)
      BY <1>4 DEF CommitDecline, CommitReport, CommitExpire, InHandler
    <2>3. QED
      BY <1>1, <1>3, <2>1, <2>2 DEF Requeue, Pause, RegistrationTables
  <1>5. CASE CommitReport(p)
    <2>1. reg' = Requeue(Suspend(reg, other), q.who, q.own)
      BY <1>5 DEF CommitReport
    <2>2. ~CommitDecline(p) /\ ~CommitExpire(p)
      BY <1>5 DEF CommitDecline, CommitReport, CommitExpire, InHandler
    <2>3. /\ \A r \in Registrations : r \notin {q.who, other} => reg'[r] = reg[r]
          /\ reg'[q.who].status = "VERIFIED"
          /\ reg'[other] = [reg[other] EXCEPT !.status = "SUSPENDED"]
      BY <1>1, <1>3, <2>1 DEF Requeue, Suspend, RegistrationTables
    <2>4. reg[other] \in RegistrationRow
      BY <1>1, <1>3 DEF RegistrationTables
    <2>5. QED
      BY <2>2, <2>3, <2>4 DEF RegistrationRow
  <1>6. CASE CommitExpire(p)
    <2>1. reg' = Lapsed(once, q, other, q.other)
      BY <1>6 DEF CommitExpire
    <2>2. ~CommitDecline(p) /\ ~CommitReport(p)
      BY <1>6 DEF CommitDecline, CommitReport, CommitExpire, InHandler
    <2>3. once \in RegistrationTables
      BY <1>1, <1>2, <1>3, LapsedType
    <2>4. /\ once[q.who].status = IF q.who \in q.row.accepted THEN "VERIFIED" ELSE "PAUSED"
          /\ \A r \in Registrations : r # q.who => once[r] = reg[r]
      <3>1. q.who \in Registrations
        BY <1>1
      <3>2. \A r \in Registrations : r # q.who => once[r] = reg[r]
        BY <1>3, <3>1 DEF Lapsed, Requeue, Pause, RegistrationTables
      <3>3. /\ q.who \in q.row.accepted => once[q.who].status = "VERIFIED"
            /\ q.who \notin q.row.accepted => once[q.who].status = "PAUSED"
        BY <1>3, <3>1, LapsedStatus
      <3>4. QED
        BY <3>2, <3>3
    <2> HIDE DEF once
    <2>5. /\ reg'[other].status = IF other \in q.row.accepted THEN "VERIFIED" ELSE "PAUSED"
          /\ \A r \in Registrations : r # other => reg'[r] = once[r]
      <3>1. other \in Registrations
        BY <1>1
      <3> HIDE DEF q, other
      <3>2. \A r \in Registrations : r # other => reg'[r] = once[r]
        BY <2>1, <2>3, <3>1 DEF Lapsed, Requeue, Pause, RegistrationTables
      <3>3. /\ other \in q.row.accepted => reg'[other].status = "VERIFIED"
            /\ other \notin q.row.accepted => reg'[other].status = "PAUSED"
        BY <2>1, <2>3, <3>1, LapsedStatus
      <3>4. QED
        BY <3>2, <3>3
    <2>6. QED
      BY <1>1, <2>2, <2>4, <2>5
  <1>7. QED
    BY <1>4, <1>5, <1>6 DEF Ending

-----------------------------------------------------------------------------
(* Every mail is true. *)

LEMMA ProposalsAreTrue ==
  ASSUME SInv, [Next]_vars, NEW mail \in ProposalMails
  PROVE  Truthful(mail)
  <1>1. PICK m \in NewMatches :
          mail = Mail("match_proposed", match'[m].amb, m) \/
          mail = Mail("match_proposed", match'[m].ref, m)
    BY DEF ProposalMails
  <1>2. match'[m].status = "PROPOSED"
    BY NewMatchRow
  <1>3. mail.kind = "match_proposed" /\ mail.match = m /\ mail.to \in Parties(match'[m])
    BY <1>1 DEF Mail, Parties
  <1>4. QED
    BY <1>2, <1>3 DEF Truthful

LEMMA AcceptanceIsTrue ==
  ASSUME SInv, NEW p \in Procs, CommitAccept(p), NEW mail \in AcceptMails(req[p])
  PROVE  Truthful(mail)
  <1> DEFINE q == req[p]
             other == OtherParty(q.row, q.who)
             status == DerivedStatus(q.row, q.row.accepted \cup {q.who})
  <1>1. /\ q.who # other
        /\ Parties(q.row) = {q.who, other} /\ Parties(match'[q.id]) = {q.who, other}
        /\ match'[q.id].status = status
        /\ match'[q.id].accepted = q.row.accepted \cup {q.who}
    BY AcceptedRow
  <1>2. CASE status = "PENDING"
    <2>1. mail = Mail("partner_accepted", other, q.id)
      BY <1>2 DEF AcceptMails
    <2>2. mail.kind = "partner_accepted" /\ mail.to = other /\ mail.match = q.id
      BY <2>1 DEF Mail
    <2>3. other \notin q.row.accepted \cup {q.who}
      BY <1>1, <1>2 DEF DerivedStatus
    <2>4. QED
      BY <1>1, <1>2, <2>2, <2>3 DEF Truthful
  <1>3. CASE status = "ACCEPTED"
    <2>1. PICK r \in Parties(q.row) : mail = Mail("match_confirmed", r, q.id)
      BY <1>3 DEF AcceptMails
    <2>2. mail.kind = "match_confirmed" /\ mail.to = r /\ mail.match = q.id
      BY <2>1 DEF Mail
    <2>3. QED
      BY <1>1, <1>3, <2>2 DEF Truthful
  <1>4. CASE status \notin {"PENDING", "ACCEPTED"}
    BY <1>4 DEF AcceptMails
  <1>5. QED
    BY <1>2, <1>3, <1>4

LEMMA EndingIsTrue ==
  ASSUME SInv, NEW p \in Procs, NEW mail,
         \/ CommitDecline(p) /\ mail \in DeclineMails(req[p])
         \/ CommitExpire(p) /\ mail \in ExpiryMails(req[p])
         \/ CommitReport(p) /\ mail \in ReportMails(req[p])
  PROVE  Truthful(mail)
  <1> DEFINE q == req[p]
             other == OtherParty(q.row, q.who)
  <1>1. Ending(p)
    BY DEF Ending
  <1>2. /\ q.who # other
        /\ Parties(q.row) = {q.who, other} /\ Parties(match'[q.id]) = {q.who, other}
        /\ q.op = "decline" => match'[q.id].status = "DECLINED"
        /\ q.op = "expire" => match'[q.id].status = "EXPIRED"
        /\ q.op = "report" => match'[q.id].status = "CANCELLED"
    BY <1>1, EndedRows
  <1>3. CASE CommitDecline(p) /\ mail \in DeclineMails(q)
    <2>1. mail.kind = "requeued" /\ mail.to = other /\ mail.match = q.id
      BY <1>3 DEF DeclineMails, Mail
    <2>2. q.op = "decline"
      BY <1>3 DEF CommitDecline, InHandler
    <2>3. reg'[other].status = "VERIFIED"
      BY <1>1, <1>3, EndedStandings
    <2>4. QED
      BY <1>2, <2>1, <2>2, <2>3 DEF Truthful, IsActive, ActiveStatus, OpenStatus
  <1>4. CASE CommitExpire(p) /\ mail \in ExpiryMails(q)
    <2>1. PICK r \in Parties(q.row) :
            mail = Mail(IF r \in q.row.accepted THEN "requeued" ELSE "window_expired", r, q.id)
      BY <1>4 DEF ExpiryMails
    <2>2. /\ mail.to = r /\ mail.match = q.id
          /\ r \in q.row.accepted => mail.kind = "requeued"
          /\ r \notin q.row.accepted => mail.kind = "window_expired"
      BY <2>1 DEF Mail
    <2>3. q.op = "expire"
      BY <1>4 DEF CommitExpire, InHandler
    <2>4. reg'[r].status = IF r \in q.row.accepted THEN "VERIFIED" ELSE "PAUSED"
      BY <1>1, <1>2, <1>4, EndedStandings
    <2>5. QED
      BY <1>2, <2>2, <2>3, <2>4 DEF Truthful, IsActive, ActiveStatus, OpenStatus
  <1>5. CASE CommitReport(p) /\ mail \in ReportMails(q)
    <2>1. /\ mail.match = q.id
          /\ \/ mail.kind = "no_show" /\ mail.to = other
             \/ mail.kind = "requeued" /\ mail.to = q.who
      BY <1>5 DEF ReportMails, Mail
    <2>2. q.op = "report"
      BY <1>5 DEF CommitReport, InHandler
    <2>3. reg'[other].status = "SUSPENDED" /\ reg'[q.who].status = "VERIFIED"
      BY <1>1, <1>5, EndedStandings
    <2>4. QED
      BY <1>2, <2>1, <2>2, <2>3 DEF Truthful, IsActive, ActiveStatus, OpenStatus
  <1>6. QED
    BY <1>3, <1>4, <1>5

(* MailsAreTrue: what a mail says of its recipient's registration and match is
   so in the state that the transaction has left. *)
THEOREM NoMailLies ==
  ASSUME OneAtATime PROVE Spec => MailsAreTrue
  <1>1. ASSUME SInv, [Next]_vars
        PROVE  [\A p \in Procs : \A mail \in Mails(p) : Truthful(mail)]_vars
    <2> SUFFICES ASSUME NEW p \in Procs, NEW mail \in Mails(p) PROVE Truthful(mail)
      OBVIOUS
    <2>1. CASE mail \in ProposalMails
      BY <1>1, <2>1, ProposalsAreTrue
    <2>2. CASE CommitAccept(p) /\ mail \in AcceptMails(req[p])
      BY <1>1, <2>2, AcceptanceIsTrue
    <2>3. CASE \/ CommitDecline(p) /\ mail \in DeclineMails(req[p])
               \/ CommitExpire(p) /\ mail \in ExpiryMails(req[p])
               \/ CommitReport(p) /\ mail \in ReportMails(req[p])
      BY <1>1, <2>3, EndingIsTrue
    <2>4. QED
      BY <2>1, <2>2, <2>3, MailsOf DEF Ending
  <1>2. QED
    BY <1>1, SerialInvariance, PTL DEF MailsAreTrue, Spec

-----------------------------------------------------------------------------
(* Nobody is left unaware. *)

Told(p, r, m) == \E mail \in Mails(p) : mail.to = r /\ mail.match = m
ByOther(p, r) == req[p] # Idle /\ (req[p].op = "expire" \/ req[p].who # r)

(* Between the fetch and the commit of its only process, nothing is saved. *)
LEMMA OnlyItsCommit ==
  ASSUME SInv, OneAtATime, [Next]_vars, NEW p \in Procs, req[p] # Idle
  PROVE  Commit(p) \/ UNCHANGED <<reg, match>>
  <1>1. ASSUME NEW o \in Procs, Fetch(o) PROVE UNCHANGED <<reg, match>>
    BY <1>1, FetchFrame
  <1>2. ASSUME NEW o \in Procs, Commit(o) PROVE Commit(p)
    BY <1>2 DEF OneAtATime
  <1>3. ASSUME NEW o \in Procs, NEW r \in Registrations, FinalizePaid(o, r)
        PROVE  FALSE
    BY <1>3 DEF OneAtATime, FinalizePaid
  <1>4. CASE OpenMatching \/ (\E m \in MatchIds : Lapse(m))
         \/ (\E owner \in Registrations : Refund(owner)) \/ UNCHANGED vars
    BY <1>4 DEF OpenMatching, Lapse, Refund, vars
  <1>5. QED
    BY <1>1, <1>2, <1>3, <1>4 DEF Next

LEMMA ProposalIsTold ==
  ASSUME NEW p \in Procs, NEW m \in NewMatches, NEW r \in Parties(match'[m])
  PROVE  Told(p, r, m)
  <1>1. Mail("match_proposed", r, m) \in ProposalMails
    BY DEF ProposalMails, Parties
  <1>2. Mail("match_proposed", r, m) \in Mails(p)
    BY <1>1, MailsOf DEF Ending
  <1>3. QED
    BY <1>2 DEF Told, Mail

LEMMA AgreementIsTold ==
  ASSUME SInv, NEW p \in Procs, CommitAccept(p),
         match'[req[p].id].status = "ACCEPTED", NEW r \in Parties(match'[req[p].id])
  PROVE  Told(p, r, req[p].id)
  <1> DEFINE q == req[p]
  <1>1. /\ Parties(match'[q.id]) = Parties(q.row)
        /\ DerivedStatus(q.row, q.row.accepted \cup {q.who}) = "ACCEPTED"
    BY AcceptedRow
  <1>2. Mail("match_confirmed", r, q.id) \in AcceptMails(q)
    BY <1>1 DEF AcceptMails
  <1>3. Mail("match_confirmed", r, q.id) \in Mails(p)
    BY <1>2, MailsOf
  <1>4. QED
    BY <1>3 DEF Told, Mail

(* The end of a match is told to both its parties, save the one who declines. *)
LEMMA EndIsTold ==
  ASSUME SInv, NEW p \in Procs, Ending(p), NEW r, ByOther(p, r),
         r \in {req[p].who, OtherParty(req[p].row, req[p].who)}
  PROVE  Told(p, r, req[p].id)
  <1> DEFINE q == req[p]
             other == OtherParty(q.row, q.who)
  <1>1. Parties(q.row) = {q.who, other}
    BY EndedRows
  <1>2. CASE CommitDecline(p)
    <2>1. r = other
      BY <1>2 DEF ByOther, CommitDecline, InHandler
    <2>2. Mail("requeued", r, q.id) \in Mails(p)
      BY <1>2, <2>1, MailsOf DEF DeclineMails
    <2>3. QED
      BY <2>2 DEF Told, Mail
  <1>3. CASE CommitExpire(p)
    <2>1. Mail(IF r \in q.row.accepted THEN "requeued" ELSE "window_expired", r, q.id)
            \in Mails(p)
      BY <1>1, <1>3, MailsOf DEF ExpiryMails
    <2>2. QED
      BY <2>1 DEF Told, Mail
  <1>4. CASE CommitReport(p)
    <2>1. \/ Mail("no_show", r, q.id) \in Mails(p)
          \/ Mail("requeued", r, q.id) \in Mails(p)
      BY <1>4, MailsOf DEF ReportMails
    <2>2. QED
      BY <2>1 DEF Told, Mail
  <1>5. QED
    BY <1>2, <1>3, <1>4 DEF Ending

(* Whose registration a step of the process that works for somebody else
   changes is a party of the match it ends. *)
LEMMA ChangeIsEnding ==
  ASSUME SInv, OneAtATime, [Next]_vars, NEW p \in Procs, NEW r \in Registrations,
         ByOther(p, r), reg'[r] # reg[r]
  PROVE  Ending(p) /\ r \in {req[p].who, OtherParty(req[p].row, req[p].who)}
  <1>1. Commit(p)
    BY OnlyItsCommit DEF ByOther
  <1>2. ASSUME CommitConfirm(p) \/ CommitRejoin(p) PROVE FALSE
    <2>1. r # req[p].who
      BY <1>2 DEF ByOther, CommitConfirm, CommitRejoin, InHandler
    <2>2. QED
      BY <1>2, <2>1 DEF CommitConfirm, CommitRejoin, SInv, IInv, TypeInv, TypeOK
  <1>3. Ending(p)
    BY <1>1, <1>2
    DEF Commit, CommitAccept, CommitWithdraw, Rollback, CommitDrain, Ending
  <1>4. QED
    BY <1>3, EndedStandings

(* A match of the only process that is saved was saved by its commit. *)
LEMMA SavedMatch ==
  ASSUME SInv, OneAtATime, [Next]_vars, NEW p \in Procs,
         NEW m \in MatchIds, match'[m] # match[m], match[m] # NoMatch
  PROVE  /\ m = req[p].id
         /\ match'[m].status = "ACCEPTED" => CommitAccept(p)
         /\ ~IsActive(match'[m]) => Ending(p)
  <1> DEFINE q == req[p]
  <1>1. Written(p, m)
    <2>1. RowEffect(m)
      BY RowStep DEF SInv, IInv
    <2>2. PICK o \in Procs : Written(o, m)
      BY <2>1 DEF RowEffect, Untouched, Proposed
    <2>3. QED
      BY <2>2 DEF OneAtATime
  <1>2. /\ q # Idle /\ q.op \in MatchOps /\ q.id = m
        /\ match'[m] = Outcome(q, match[m])
    BY <1>1 DEF Written
  <1>3. InHandler(p, q.op)
    BY <1>2 DEF InHandler
  <1>4. match[m] \in MatchRow /\ q.row = match[m] /\ q.who \in Parties(match[m])
    BY <1>2, <1>3, CommitFresh
  <1>5. Commit(p)
    BY <1>2, OnlyItsCommit
  <1>6. /\ q.op = "accept" =>
             match'[m].status = DerivedStatus(q.row, q.row.accepted \cup {q.who})
        /\ q.op = "withdraw" =>
             match'[m].status = DerivedStatus(q.row, q.row.accepted \ {q.who})
        /\ q.op = "decline" => match'[m].status = "DECLINED"
        /\ q.op = "expire" => match'[m].status = "EXPIRED"
        /\ q.op = "report" => match'[m].status = "CANCELLED"
    BY <1>2, <1>4 DEF Outcome, MatchRow
  <1>7. CASE q.op = "accept"
    <2>1. CommitAccept(p)
      BY <1>5, <1>7 DEF Commit, CommitWithdraw, CommitDecline, CommitExpire,
        CommitReport, Rollback, CommitConfirm, CommitRejoin, CommitDrain, InHandler
    <2>2. IsActive(match'[m])
      BY <1>6, <1>7, DerivedStatusType DEF IsActive
    <2>3. QED
      BY <1>2, <2>1, <2>2
  <1>8. CASE q.op = "withdraw"
    <2>1. IsActive(match'[m])
      BY <1>6, <1>8, DerivedStatusType DEF IsActive
    <2>2. match'[m].status # "ACCEPTED"
      BY <1>4, <1>6, <1>8 DEF DerivedStatus
    <2>3. QED
      BY <1>2, <2>1, <2>2
  <1>9. CASE q.op \in {"decline", "expire", "report"}
    <2>1. match'[m].status # "ACCEPTED"
      BY <1>6, <1>9
    <2>2. ~Rollback(p)
      <3>1. match' # match
        OBVIOUS
      <3>2. QED
        BY <3>1 DEF Rollback
    <2>3. Ending(p)
      BY <1>5, <1>9, <2>2 DEF Commit, CommitAccept, CommitWithdraw, CommitConfirm,
        CommitRejoin, CommitDrain, InHandler, Ending
    <2>4. QED
      BY <1>2, <2>1, <2>3
  <1>10. QED
    BY <1>2, <1>7, <1>8, <1>9 DEF MatchOps

(* NobodyIsLeftUnaware: whoever is paused, suspended or re-queued by the step
   of another party or of the sweep, and both parties of a match that is
   proposed, becomes mutual or is ended by another, get a mail in that step. *)
THEOREM EverybodyIsTold ==
  ASSUME OneAtATime PROVE Spec => NobodyIsLeftUnaware
  <1> DEFINE
        Aware(p, r) ==
          LET mails == {n \in Mails(p) : n.to = r}
              told(m) == \E n \in mails : n.match = m
              byOther == req[p] # Idle /\ (req[p].op = "expire" \/ req[p].who # r)
          IN  /\ byOther /\ reg'[r] # reg[r] => mails # {}
              /\ \A m \in MatchIds : match'[m] # match[m] /\ r \in Parties(match'[m]) =>
                   /\ match[m] = NoMatch => told(m)
                   /\ match'[m].status = "ACCEPTED" => told(m)
                   /\ byOther /\ ~IsActive(match'[m]) => told(m)
  <1>1. ASSUME SInv, [Next]_vars
        PROVE  [\A p \in Procs, r \in Registrations : Aware(p, r)]_vars
    <2> SUFFICES ASSUME NEW p \in Procs, NEW r \in Registrations PROVE Aware(p, r)
      OBVIOUS
    <2> USE <1>1
    <2>1. ByOther(p, r) /\ reg'[r] # reg[r] => \E m : Told(p, r, m)
      BY ChangeIsEnding, EndIsTold
    <2>2. ASSUME NEW m \in MatchIds, match'[m] # match[m], r \in Parties(match'[m])
          PROVE  /\ match[m] = NoMatch => Told(p, r, m)
                 /\ match'[m].status = "ACCEPTED" => Told(p, r, m)
                 /\ ByOther(p, r) /\ ~IsActive(match'[m]) => Told(p, r, m)
      <3>1. CASE match[m] = NoMatch
        BY <2>2, <3>1, ProposalIsTold DEF NewMatches
      <3>2. CASE match[m] # NoMatch
        <4>1. /\ m = req[p].id
              /\ match'[m].status = "ACCEPTED" => CommitAccept(p)
              /\ ~IsActive(match'[m]) => Ending(p)
          BY <2>2, <3>2, SavedMatch
        <4>2. match'[m].status = "ACCEPTED" => Told(p, r, m)
          BY <2>2, <4>1, AgreementIsTold
        <4>3. ByOther(p, r) /\ ~IsActive(match'[m]) => Told(p, r, m)
          <5> SUFFICES ASSUME ByOther(p, r), ~IsActive(match'[m]) PROVE Told(p, r, m)
            OBVIOUS
          <5>1. Parties(match'[m]) = {req[p].who, OtherParty(req[p].row, req[p].who)}
            BY <4>1, EndedRows
          <5>2. QED
            BY <2>2, <4>1, <5>1, EndIsTold
        <4>4. QED
          BY <3>2, <4>2, <4>3
      <3>3. QED
        BY <3>1, <3>2
    <2>3. QED
      BY <2>1, <2>2 DEF Told, ByOther
  <1>2. QED
    BY <1>1, SerialInvariance, PTL DEF NobodyIsLeftUnaware, Spec

-----------------------------------------------------------------------------
(* The pages.  The invariant adds that a report cancels the match. *)

ReportedIsCancelled ==
  \A m \in Created : match[m].reported => match[m].status = "CANCELLED"

VInv == SInv /\ ReportedIsCancelled

LEMMA ReportedStep ==
  ASSUME VInv, [Next]_vars PROVE ReportedIsCancelled'
  <1> SUFFICES ASSUME NEW m \in MatchIds, match'[m] # NoMatch, match'[m].reported
               PROVE  match'[m].status = "CANCELLED"
    BY DEF ReportedIsCancelled, Created
  <1>1. RowEffect(m)
    BY RowStep DEF VInv, SInv, IInv
  <1>2. CASE match'[m] = match[m]
    BY <1>2 DEF VInv, ReportedIsCancelled, Created
  <1>3. CASE Proposed(m)
    BY <1>3 DEF Proposed, NewMatch
  <1>4. ASSUME NEW p \in Procs, Written(p, m) PROVE match'[m].status = "CANCELLED"
    <2> DEFINE q == req[p]
    <2>1. /\ q # Idle /\ q.op \in MatchOps /\ q.id = m
          /\ match'[m] = Outcome(q, match[m])
      BY <1>4 DEF Written
    <2>2. match[m] # NoMatch /\ match[m] \in MatchRow /\ IsActive(match[m])
      BY <2>1, CommitFresh DEF InHandler, VInv
    <2>3. ~match[m].reported
      BY <2>2 DEF VInv, ReportedIsCancelled, Created, IsActive, ActiveStatus, OpenStatus
    <2>4. q.op \in {"accept", "withdraw", "decline", "expire"} =>
            match'[m].reported = match[m].reported
      BY <2>1, <2>2 DEF Outcome, MatchRow
    <2>5. q.op = "report" => match'[m].status = "CANCELLED"
      BY <2>1, <2>2 DEF Outcome, MatchRow
    <2>6. QED
      BY <2>1, <2>3, <2>4, <2>5 DEF MatchOps
  <1>5. QED
    BY <1>1, <1>2, <1>3, <1>4 DEF RowEffect, Untouched

LEMMA ViewsInvariance ==
  ASSUME OneAtATime PROVE Spec => []VInv
  <1>1. Init => VInv
    BY SerialInit DEF VInv, ReportedIsCancelled, Init, Created
  <1>2. VInv /\ [Next]_vars => VInv'
    BY SerialStep, ReportedStep DEF VInv
  <1>3. QED
    BY <1>1, <1>2, PTL DEF Spec

(* A match and one of its parties. *)
LEMMA PartyFacts ==
  ASSUME VInv, NEW r \in Registrations, NEW m \in Created, r \in Parties(match[m])
  PROVE  LET row == match[m]
             other == OtherParty(row, r)
         IN  /\ m \in MatchIds /\ row # NoMatch /\ row \in MatchRow
             /\ Parties(row) = {r, other} /\ r # other
             /\ other \in Registrations
             /\ IsActive(row) => /\ reg[r].status = "VERIFIED"
                                 /\ row.status = DerivedStatus(row, row.accepted)
             /\ row.status = "ACCEPTED" => ~row.reported
  <1>1. m \in MatchIds /\ match[m] # NoMatch /\ match[m] \in MatchRow
    BY DEF Created, VInv, SInv, IInv, TypeInv, TypeOK
  <1>2. /\ Parties(match[m]) = {r, OtherParty(match[m], r)} /\ r # OtherParty(match[m], r)
        /\ OtherParty(match[m], r) \in Registrations
    BY <1>1, RolesDisjoint DEF Parties, OtherParty, MatchRow, Registrations
  <1>3. IsActive(match[m]) => reg[r].status = "VERIFIED"
    BY DEF VInv, SInv, ActivePartiesVerified
  <1>4. IsActive(match[m]) => match[m].status = DerivedStatus(match[m], match[m].accepted)
    BY DEF VInv, SInv, IInv, StatusFollowsAcceptances
  <1>5. match[m].status = "ACCEPTED" => ~match[m].reported
    BY DEF VInv, ReportedIsCancelled
  <1>6. QED
    BY <1>1, <1>2, <1>3, <1>4, <1>5

(* The buttons of the match page are the handlers' guards. *)
LEMMA ButtonsAreGuards ==
  ASSUME VInv, NEW r \in Registrations, NEW m \in Created, r \in Parties(match[m])
  PROVE  /\ "accept" \in Offers(m, r) <=> Actionable(m, r)
         /\ "decline" \in Offers(m, r) <=> Actionable(m, r)
         /\ "withdraw" \in Offers(m, r) <=> Waiting(m, r)
         /\ "report" \in Offers(m, r) <=> ShowsContacts(m) /\ ~match[m].reported
         /\ Offers(m, r) # {} <=>
              match[m].status = "ACCEPTED" \/ (IsOpen(match[m]) /\ m \notin Over)
  <1> DEFINE row == match[m]
             view == ViewKey(m, r)
  <1>1. row.status \in MatchStatus /\ (row.status = "ACCEPTED" => ~row.reported)
    BY PartyFacts DEF MatchRow
  <1>2. CASE row.status = "ACCEPTED"
    <2>1. view = "confirmed"
      BY <1>2 DEF ViewKey
    <2>2. Offers(m, r) = {"report"}
      BY <2>1 DEF Offers
    <2>3. QED
      BY <1>1, <1>2, <2>2 DEF Actionable, Waiting, ShowsContacts, IsOpen, OpenStatus
  <1>3. CASE IsOpen(row) /\ m \notin Over
    <2>1. row.status \in {"PROPOSED", "PENDING"}
      BY <1>3 DEF IsOpen, OpenStatus
    <2>2. view = IF r \in row.accepted THEN "you_accepted"
                 ELSE IF OtherParty(row, r) \in row.accepted THEN "partner_accepted"
                 ELSE "proposed"
      BY <1>3, <2>1 DEF ViewKey
    <2>3. Offers(m, r) = IF r \in row.accepted THEN {"withdraw"} ELSE {"accept", "decline"}
      BY <2>2 DEF Offers
    <2>4. QED
      BY <1>3, <2>1, <2>3 DEF Actionable, Waiting, ShowsContacts
  <1>4. CASE row.status # "ACCEPTED" /\ ~(IsOpen(row) /\ m \notin Over)
    <2>1. view \in {"closed", "expired"}
      BY <1>1, <1>4 DEF ViewKey, IsOpen, OpenStatus, MatchStatus
    <2>2. Offers(m, r) = {}
      BY <2>1 DEF Offers
    <2>3. QED
      BY <1>4, <2>2 DEF Actionable, Waiting, ShowsContacts
  <1>5. QED
    BY <1>2, <1>3, <1>4

(* A party of an active match is in no queue; who has none is shown none. *)
LEMMA ShownMatch ==
  ASSUME VInv, NEW r \in Registrations
  PROVE  /\ ShownFor(r) # {} => /\ reg[r].status = "VERIFIED"
                                /\ QueuePosition(reg, match, r) = NoPlace
         /\ \A m \in ActiveFor(match, r) :
              /\ m \in Created /\ r \in Parties(match[m]) /\ IsActive(match[m])
              /\ ShownFor(r) \subseteq {m}
         /\ QueuePosition(reg, match, r) # NoPlace => reg[r].status = "VERIFIED"
  <1>1. \A m \in ActiveFor(match, r) :
          /\ m \in Created /\ r \in Parties(match[m]) /\ IsActive(match[m])
          /\ ShownFor(r) \subseteq {m}
    BY DEF ActiveFor, Created, ShownFor, VInv, SInv, OneActiveMatch
  <1>2. ShownFor(r) # {} => \E m \in ActiveFor(match, r) : TRUE
    BY DEF ShownFor
  <1>3. ShownFor(r) # {} => reg[r].status = "VERIFIED"
    BY <1>1, <1>2 DEF VInv, SInv, ActivePartiesVerified
  <1>4. ActiveFor(match, r) # {} => QueuePosition(reg, match, r) = NoPlace
    BY DEF QueuePosition, Pool, Eligible
  <1>5. QueuePosition(reg, match, r) # NoPlace => reg[r].status = "VERIFIED"
    BY DEF QueuePosition, Pool, Eligible
  <1>6. QED
    BY <1>1, <1>2, <1>3, <1>4, <1>5

(* Contacts are shown when both pills of the roster are green. *)
LEMMA ContactsAreMutual ==
  ASSUME VInv, NEW r \in Registrations, NEW m \in Created, r \in Parties(match[m]),
         IsActive(match[m])
  PROVE  ShowsContacts(m) <=> \A s \in Parties(match[m]) : SideStatus(m, s) = "accepted"
  <1> DEFINE row == match[m]
  <1>1. row.status = DerivedStatus(row, row.accepted)
    BY PartyFacts
  <1>2. row.status \in {"PROPOSED", "PENDING", "ACCEPTED"}
    BY DEF IsActive, ActiveStatus, OpenStatus
  <1>3. \A s \in Parties(row) : SideStatus(m, s) = "accepted" <=>
          row.status = "ACCEPTED" \/ s \in row.accepted
    BY DEF SideStatus
  <1>4. Parties(row) \subseteq row.accepted => row.status = "ACCEPTED"
    BY <1>1 DEF DerivedStatus
  <1>5. QED
    BY <1>3, <1>4 DEF ShowsContacts

(* The card of the account page describes the match page. *)
LEMMA CardIsPage ==
  ASSUME VInv, NEW r \in Registrations, NEW m \in Created, r \in Parties(match[m]),
         m \in ShownFor(r)
  PROVE  LET card == StatusCard(r)
             view == ViewKey(m, r)
         IN  /\ card.match_state = "accepted" <=> view = "confirmed"
             /\ card.match_state = "proposed" <=> view = "proposed"
             /\ card.partner_accepted <=> view \in {"partner_accepted", "confirmed"}
  <1> DEFINE row == match[m]
             other == OtherParty(row, r)
             state == CASE row.status = "ACCEPTED" -> "accepted"
                        [] row.status = "PENDING" -> "pending"
                        [] OTHER -> "proposed"
  <1>1. m \in ActiveFor(match, r) /\ (row.status = "ACCEPTED" \/ m \notin Due)
    BY DEF ShownFor
  <1>2. ShownFor(r) = {m}
    BY <1>1, ShownMatch
  <1>3. (CHOOSE n \in ShownFor(r) : TRUE) = m
    BY <1>2
  <1>4. MatchState(r) = state
    BY <1>2, <1>3 DEF MatchState
  <1>5. StatusCard(r).match_state = state
    BY <1>4 DEF StatusCard
  <1>6. StatusCard(r).partner_accepted <=> other \in row.accepted
    BY <1>2 DEF StatusCard
  <1>7. /\ Parties(row) = {r, other}
        /\ row.status = DerivedStatus(row, row.accepted)
        /\ row.status \in {"PROPOSED", "PENDING", "ACCEPTED"}
    BY <1>1, PartyFacts, ShownMatch DEF IsActive, ActiveStatus, OpenStatus
  <1>8. /\ row.status = "ACCEPTED" <=> {r, other} \subseteq row.accepted
        /\ row.status = "PROPOSED" <=> r \notin row.accepted /\ other \notin row.accepted
    BY <1>7 DEF DerivedStatus
  <1>9. ViewKey(m, r) = IF row.status = "ACCEPTED" THEN "confirmed"
                        ELSE IF r \in row.accepted THEN "you_accepted"
                        ELSE IF other \in row.accepted THEN "partner_accepted"
                        ELSE "proposed"
    BY <1>1, <1>7 DEF ViewKey, Due, Over
  <1> HIDE DEF row, other
  <1>10. QED
    BY <1>5, <1>6, <1>7, <1>8, <1>9

(* PagesAgree: the match page, the roster, the account page, the staff page and
   the handlers' guards, each computed by code of its own, say the same, but
   for the account page at the instant of a deadline. *)
THEOREM PagesSayTheSame ==
  ASSUME OneAtATime PROVE Spec => []PagesAgree
  <1>1. ASSUME VInv PROVE PagesAgree
    <2> SUFFICES ASSUME NEW r \in Registrations
                 PROVE  LET card == StatusCard(r)
                            staff == StaffPage(r) IN
           /\ \A m \in Created : r \in Parties(match[m]) =>
                LET offers == Offers(m, r)
                    view == ViewKey(m, r) IN
                /\ "accept" \in offers <=> Actionable(m, r)
                /\ "decline" \in offers <=> Actionable(m, r)
                /\ "withdraw" \in offers <=> Waiting(m, r)
                /\ "report" \in offers <=> ShowsContacts(m) /\ ~match[m].reported
                /\ IsActive(match[m]) =>
                     (ShowsContacts(m) <=>
                        \A s \in Parties(match[m]) : SideStatus(m, s) = "accepted")
                /\ m \in AccountMatch(r) <=> offers # {} /\ m \notin WouldExpire
                /\ offers # {} /\ m \in WouldExpire => deadline[m] = "now"
                /\ m \in ShownFor(r) =>
                     /\ card.match_state = "accepted" <=> view = "confirmed"
                     /\ card.match_state = "proposed" <=> view = "proposed"
                     /\ card.partner_accepted <=>
                          view \in {"partner_accepted", "confirmed"}
           /\ card.can_rejoin <=> reg[r].status = "PAUSED"
           /\ staff.place = card.queue_position
           /\ staff.standing = "in a match" <=>
                YouFor(r, card.queue_position).column = "matches"
      BY DEF PagesAgree
    <2> USE <1>1
    <2>1. ASSUME NEW m \in Created, r \in Parties(match[m])
          PROVE  /\ m \in AccountMatch(r) <=> Offers(m, r) # {} /\ m \notin WouldExpire
                 /\ Offers(m, r) # {} /\ m \in WouldExpire => deadline[m] = "now"
      <3> DEFINE accepted == match[m].status = "ACCEPTED"
                 opened == IsOpen(match[m])
      <3>1. Offers(m, r) # {} <=> accepted \/ (opened /\ m \notin Over)
        BY <2>1, ButtonsAreGuards
      <3>2. m \in ShownFor(r) <=> accepted \/ (opened /\ m \notin Due)
        BY <2>1 DEF ShownFor, ActiveFor, Created, IsActive, IsOpen, ActiveStatus, OpenStatus
      <3>3. m \in WouldExpire <=> opened /\ m \in Due
        BY DEF WouldExpire, OpenMatches
      <3>4. accepted => ~opened
        BY DEF IsOpen, OpenStatus
      <3>5. m \in Over => m \in Due
        BY DEF Over, Due
      <3>6. m \in Due /\ m \notin Over => deadline[m] = "now"
        BY DEF Over, Due, Deadline, VInv, SInv, IInv, TypeInv, TypeOK, Created
      <3> HIDE DEF accepted, opened
      <3>7. m \in ShownFor(r) => \A n \in ShownFor(r) : n = m
        BY ShownMatch DEF ShownFor
      <3>8. m <= m
        BY BoundsAssumption DEF Created
      <3>9. m \in AccountMatch(r) <=> m \in ShownFor(r)
        BY <3>7, <3>8 DEF AccountMatch
      <3>10. QED
        BY <3>1, <3>2, <3>3, <3>4, <3>5, <3>6, <3>9
    <2>2. StatusCard(r).can_rejoin <=> reg[r].status = "PAUSED"
      BY ShownMatch DEF StatusCard
    <2>3. StaffPage(r).place = StatusCard(r).queue_position
      BY ShownMatch DEF StaffPage, StatusCard
    <2>4. StaffPage(r).standing = "in a match" <=>
            YouFor(r, StatusCard(r).queue_position).column = "matches"
      <3>1. StatusCard(r).queue_position = QueuePosition(reg, match, r)
        BY <2>3 DEF StaffPage
      <3>2. QED
        BY <3>1, ShownMatch DEF StaffPage, Standing, YouFor
    <2>5. QED
      BY <2>1, <2>2, <2>3, <2>4, ButtonsAreGuards, ContactsAreMutual, CardIsPage
  <1>2. QED
    BY <1>1, ViewsInvariance, PTL

-----------------------------------------------------------------------------
(* The queue.  Those ahead of one who is ahead are ahead. *)

LEMMA PoolIsShared ==
  ASSUME NEW regs \in RegistrationTables, NEW ms, NEW x \in Registrations,
         NEW y \in Pool(regs, ms, x)
  PROVE  /\ y \in Registrations /\ Pool(regs, ms, y) = Pool(regs, ms, x)
         /\ IsFiniteSet(Pool(regs, ms, x))
         /\ IsFiniteSet(Ahead(regs, ms, y))
         /\ Cardinality(Ahead(regs, ms, y)) \in Nat
         /\ QueuePosition(regs, ms, y) = Cardinality(Ahead(regs, ms, y)) + 1
         /\ regs[y].priority \in Int /\ CreatedAt[y] \in Nat
  <1>1. y \in Registrations /\ SameRole(y) = SameRole(x)
    BY RolesDisjoint DEF Pool, SameRole, Registrations
  <1>2. Pool(regs, ms, y) = Pool(regs, ms, x)
    BY <1>1 DEF Pool
  <1>3. Pool(regs, ms, x) \in SUBSET Registrations
    BY DEF Pool, SameRole, Registrations
  <1>4. IsFiniteSet(Pool(regs, ms, x))
    BY <1>3, PoolAssumption, FS_Subset
  <1>5. Ahead(regs, ms, y) \in SUBSET Pool(regs, ms, x)
    BY <1>2 DEF Ahead
  <1>6. IsFiniteSet(Ahead(regs, ms, y))
    BY <1>4, <1>5, FS_Subset
  <1>7. Cardinality(Ahead(regs, ms, y)) \in Nat
    BY <1>6, FS_CardinalityType
  <1>8. QueuePosition(regs, ms, y) = Cardinality(Ahead(regs, ms, y)) + 1
    BY <1>2 DEF QueuePosition
  <1>9. regs[y].priority \in Int /\ CreatedAt[y] \in Nat
    BY <1>1, CreatedAtOrders DEF RegistrationTables, RegistrationRow
  <1>10. QED
    BY <1>1, <1>2, <1>4, <1>6, <1>7, <1>8, <1>9

LEMMA PlacesInOrder ==
  ASSUME NEW regs \in RegistrationTables, NEW ms, NEW x \in Registrations,
         x \in Pool(regs, ms, x), NEW y \in Pool(regs, ms, x),
         x \in Ahead(regs, ms, y)
  PROVE  QueuePosition(regs, ms, x) < QueuePosition(regs, ms, y)
  <1>1. /\ y \in Registrations /\ Pool(regs, ms, y) = Pool(regs, ms, x)
        /\ IsFiniteSet(Ahead(regs, ms, y))
        /\ Cardinality(Ahead(regs, ms, y)) \in Nat
        /\ Cardinality(Ahead(regs, ms, x)) \in Nat
        /\ QueuePosition(regs, ms, y) = Cardinality(Ahead(regs, ms, y)) + 1
        /\ QueuePosition(regs, ms, x) = Cardinality(Ahead(regs, ms, x)) + 1
    BY PoolIsShared
  <1>2. \A z \in Pool(regs, ms, x) : regs[z].priority \in Int /\ CreatedAt[z] \in Nat
    BY PoolIsShared
  <1>3. Ahead(regs, ms, x) \in SUBSET Ahead(regs, ms, y)
    BY <1>1, <1>2 DEF Ahead
  <1>4. x \notin Ahead(regs, ms, x)
    BY <1>2 DEF Ahead
  <1>5. /\ Cardinality(Ahead(regs, ms, x)) <= Cardinality(Ahead(regs, ms, y))
        /\ Cardinality(Ahead(regs, ms, x)) # Cardinality(Ahead(regs, ms, y))
    BY <1>1, <1>3, <1>4, FS_Subset
  <1>6. QED
    BY <1>1, <1>5

(* Two that wait in one queue are in some order. *)
LEMMA QueueIsTotal ==
  ASSUME NEW regs \in RegistrationTables, NEW ms, NEW x \in Registrations,
         x \in Pool(regs, ms, x), NEW y \in Pool(regs, ms, x), x # y
  PROVE  x \in Ahead(regs, ms, y) \/ y \in Ahead(regs, ms, x)
  <1>1. /\ y \in Registrations /\ Pool(regs, ms, y) = Pool(regs, ms, x)
        /\ regs[x].priority \in Int /\ regs[y].priority \in Int
        /\ CreatedAt[x] \in Nat /\ CreatedAt[y] \in Nat
    BY PoolIsShared
  <1>2. CreatedAt[x] # CreatedAt[y]
    BY <1>1, CreatedAtOrders
  <1>3. QED
    BY <1>1, <1>2 DEF Ahead

(* The best candidate has nobody ahead of it, save for the location. *)
LEMMA BestIsFirst ==
  ASSUME NEW regs \in RegistrationTables, NEW ms, NEW r \in Registrations,
         NEW c \in BestCandidates(regs, ms, r), NEW d \in Pool(regs, ms, c),
         QueuePosition(regs, ms, d) < QueuePosition(regs, ms, c)
  PROVE  Location[c] = Location[r] /\ Location[d] # Location[r]
  <1>1. c \in Counterparts(r) /\ Eligible(regs, ms, c) /\ c \in Registrations
    BY DEF BestCandidates, Candidates, Counterparts, Registrations
  <1>2. SameRole(c) = Counterparts(r)
    BY <1>1, RolesDisjoint DEF SameRole, Counterparts, Registrations
  <1>3. Pool(regs, ms, c) = Candidates(regs, ms, r) /\ c \in Pool(regs, ms, c)
    BY <1>1, <1>2 DEF Pool, Candidates
  <1>4. /\ Pool(regs, ms, d) = Pool(regs, ms, c)
        /\ Cardinality(Ahead(regs, ms, d)) \in Nat
        /\ Cardinality(Ahead(regs, ms, c)) \in Nat
        /\ QueuePosition(regs, ms, d) = Cardinality(Ahead(regs, ms, d)) + 1
        /\ QueuePosition(regs, ms, c) = Cardinality(Ahead(regs, ms, c)) + 1
    BY <1>1, <1>3, PoolIsShared
  <1>5. c \notin Ahead(regs, ms, d)
    BY <1>1, <1>3, <1>4, PlacesInOrder
  <1>6. d # c
    BY <1>4
  <1>7. RanksBefore(regs, r, c, d)
    BY <1>3, <1>6 DEF BestCandidates
  <1>8. ~ (\/ regs[c].priority > regs[d].priority
           \/ /\ regs[c].priority = regs[d].priority
              /\ CreatedAt[c] < CreatedAt[d])
    BY <1>3, <1>4, <1>5 DEF Ahead
  <1>9. QED
    BY <1>7, <1>8 DEF RanksBefore

-----------------------------------------------------------------------------
(* A proposal, whatever handler makes it *)

SameRows(ms) ==
  ms \in MatchTables /\ \A n \in MatchIds : ms[n] = NoMatch <=> match[n] = NoMatch

ProposesFrom(ms) ==
  \E r \in Registrations :
    Propose(r, reg', ms) /\ reg'[r].status = "VERIFIED" /\ ProposedFor = {r}

(* Whom a request proposes for. *)
LEMMA RequestProposesFor ==
  ASSUME TypeOK, NEW p \in Procs, req[p] # Idle, Finish(p)
  PROVE  ProposedFor =
           {r \in Registrations :
              \/ req[p].op \in RegistrationOps \cup {"report"} /\ r = req[p].who
              \/ req[p].op = "decline" /\ r = OtherParty(req[p].row, req[p].who)
              \/ /\ req[p].op = "expire"
                 /\ r \in Parties(req[p].row) \cap req[p].row.accepted}
  <1>1. /\ req'[p] = Idle /\ req' # req
        /\ \A o \in Procs : o # p => req'[o] = req[o]
    BY FinishType
  <1>2. \A o \in Procs : req[o] # Idle /\ req'[o] = Idle <=> o = p
    BY <1>1
  <1>3. QED
    BY <1>1, <1>2 DEF ProposedFor

(* The ends of a match propose for the party that is re-queued. *)
LEMMA EndProposes ==
  ASSUME SInv, NEW p \in Procs, Ending(p)
  PROVE  \E ms, st : Ends(p, ms, st) /\ (match' = ms \/ ProposesFrom(ms))
  <1> DEFINE q == req[p]
             other == OtherParty(q.row, q.who)
             Goal == \E ms, st : Ends(p, ms, st) /\ (match' = ms \/ ProposesFrom(ms))
  <1>1. /\ q.who \in Registrations /\ other \in Registrations /\ q.who # other
        /\ Parties(q.row) = {q.who, other} /\ IsActive(q.row)
        /\ q.row = match[q.id] /\ q.id \in MatchIds /\ match[q.id] # NoMatch
    BY CommitFresh DEF Ending, CommitDecline, CommitExpire, CommitReport, MatchOps
  <1>2. q # Idle /\ Finish(p) /\ TypeOK
    BY DEF Ending, CommitDecline, CommitExpire, CommitReport, InHandler,
      SInv, IInv, TypeInv
  <1>3. CASE CommitDecline(p)
    <2>1. Ends(p, SaveStatus(match, q.id, "DECLINED"), "DECLINED")
      BY <1>3, DeclineEnds DEF SInv, IInv
    <2>2. q.op = "decline"
      BY <1>3 DEF CommitDecline, InHandler
    <2>3. ProposedFor = {other}
      BY <1>1, <1>2, <2>2, RequestProposesFor DEF RegistrationOps
    <2>4. Propose(other, reg', SaveStatus(match, q.id, "DECLINED"))
      BY <1>3 DEF CommitDecline
    <2>5. reg'[other].status = "VERIFIED"
      BY <1>3, EndedStandings
    <2> HIDE DEF q, other
    <2>6. ProposesFrom(SaveStatus(match, q.id, "DECLINED"))
      BY <1>1, <2>3, <2>4, <2>5 DEF ProposesFrom
    <2>7. QED
      BY <2>1, <2>6 DEF q
  <1>4. CASE CommitReport(p)
    <2>1. Ends(p, SaveCancelled(match, q.id), "CANCELLED")
      BY <1>4, ReportEnds DEF SInv, IInv
    <2>2. q.op = "report"
      BY <1>4 DEF CommitReport, InHandler
    <2>3. ProposedFor = {q.who}
      BY <1>1, <1>2, <2>2, RequestProposesFor
    <2>4. Propose(q.who, reg', SaveCancelled(match, q.id))
      BY <1>4 DEF CommitReport
    <2>5. reg'[q.who].status = "VERIFIED"
      BY <1>4, EndedStandings
    <2> HIDE DEF q, other
    <2>6. ProposesFrom(SaveCancelled(match, q.id))
      BY <1>1, <2>3, <2>4, <2>5 DEF ProposesFrom
    <2>7. QED
      BY <2>1, <2>6 DEF q
  <1>5. CASE CommitExpire(p)
    <2> DEFINE ms == SaveStatus(match, q.id, "EXPIRED")
    <2>1. Ends(p, ms, "EXPIRED")
      BY <1>5, ExpireEnds DEF SInv, IInv
    <2>2. q.op = "expire" /\ InHandler(p, "expire")
      BY <1>5 DEF CommitExpire, InHandler
    <2>3. ProposedFor = {q.who, other} \cap q.row.accepted
      BY <1>1, <1>2, <2>2, RequestProposesFor DEF RegistrationOps
    <2>4. \A r \in {q.who, other} \cap q.row.accepted : reg'[r].status = "VERIFIED"
      BY <1>5, EndedStandings
    <2>5. ~ ({q.who, other} \subseteq q.row.accepted)
      <3>1. IsOpen(q.row)
        BY <1>2, <2>2 DEF SInv, IInv, TypeInv, RequestsHold, RequestHolds
      <3>2. q.row.status = DerivedStatus(q.row, q.row.accepted)
        BY <1>1 DEF SInv, IInv, StatusFollowsAcceptances, Created
      <3>3. QED
        BY <1>1, <3>1, <3>2 DEF DerivedStatus, IsOpen, OpenStatus
    <2>6. /\ q.who \in q.row.accepted => Propose(q.who, reg', ms)
          /\ q.who \notin q.row.accepted /\ other \in q.row.accepted =>
               Propose(other, reg', ms)
          /\ q.who \notin q.row.accepted /\ other \notin q.row.accepted => match' = ms
      <3>1. CASE q.who \in q.row.accepted
        BY <1>5, <2>5, <3>1 DEF CommitExpire
      <3>2. CASE q.who \notin q.row.accepted
        BY <1>5, <3>2 DEF CommitExpire
      <3>3. QED
        BY <3>1, <3>2
    <2> HIDE DEF q, other, ms
    <2>7. match' = ms \/ ProposesFrom(ms)
      <3>1. ASSUME q.who \in q.row.accepted PROVE ProposesFrom(ms)
        <4>1. ProposedFor = {q.who}
          BY <2>3, <2>5, <3>1
        <4>2. QED
          BY <1>1, <2>4, <2>6, <3>1, <4>1 DEF ProposesFrom
      <3>2. ASSUME q.who \notin q.row.accepted, other \in q.row.accepted
            PROVE  ProposesFrom(ms)
        <4>1. ProposedFor = {other}
          BY <2>3, <3>2
        <4>2. QED
          BY <1>1, <2>4, <2>6, <3>2, <4>1 DEF ProposesFrom
      <3>3. QED
        BY <2>6, <3>1, <3>2
    <2>8. QED
      BY <2>1, <2>7
  <1>6. QED
    BY <1>3, <1>4, <1>5 DEF Ending

LEMMA ProposalStep ==
  ASSUME SInv, [Next]_vars
  PROVE  \E ms : SameRows(ms) /\ (match' = ms \/ ProposesFrom(ms))
  <1> DEFINE Goal == \E ms : SameRows(ms) /\ (match' = ms \/ ProposesFrom(ms))
  <1>1. SameRows(match)
    BY DEF SameRows, SInv, IInv, TypeInv, TypeOK, MatchTables
  <1>2. ASSUME NEW p \in Procs, Ending(p) PROVE Goal
    <2>1. PICK ms, st : Ends(p, ms, st) /\ (match' = ms \/ ProposesFrom(ms))
      BY <1>2, EndProposes
    <2>2. ms[req[p].id] = Outcome(req[p], match[req[p].id]) /\ match[req[p].id] # NoMatch
      <3>1. PICK op \in MatchOps : InHandler(p, op)
        BY <1>2 DEF Ending, CommitDecline, CommitExpire, CommitReport, MatchOps
      <3>2. req[p].id \in MatchIds /\ match[req[p].id] # NoMatch
        BY <3>1, CommitFresh
      <3>3. QED
        BY <2>1, <3>2 DEF Ends
    <2>3. ms[req[p].id] # NoMatch
      <3>1. PICK op \in {"decline", "expire", "report"} : InHandler(p, op)
        BY <1>2 DEF Ending, CommitDecline, CommitExpire, CommitReport
      <3>2. req[p].op = op /\ match[req[p].id] \in MatchRow
        BY <3>1, CommitFresh DEF MatchOps
      <3>3. Outcome(req[p], match[req[p].id]) \in MatchRow
        BY <3>2 DEF Outcome, MatchRow, MatchStatus
      <3>4. QED
        BY <2>2, <3>3, NullsAssumption
    <2>4. SameRows(ms)
      BY <2>1, <2>2, <2>3 DEF Ends, SameRows
    <2>5. QED
      BY <2>1, <2>4
  <1>3. ASSUME NEW p \in Procs, CommitAccept(p) \/ CommitWithdraw(p) PROVE Goal
    <2>1. match' \in MatchTables
      BY TypeStep DEF SInv, IInv, TypeOK, MatchTables
    <2>2. PICK op \in MatchOps : InHandler(p, op)
      BY <1>3 DEF CommitAccept, CommitWithdraw, MatchOps
    <2>3. match[req[p].id] # NoMatch /\ req[p].id \in Created
      BY <2>2, CommitFresh DEF Created
    <2>4. match'[req[p].id] # NoMatch
      <3>1. Next
        BY <1>3 DEF Next, Commit
      <3>2. QED
        BY <2>3, <3>1, CreatedStays DEF SInv, Created
    <2>5. \A n \in MatchIds : n # req[p].id => match'[n] = match[n]
      BY <1>1, <1>3 DEF CommitAccept, CommitWithdraw, SaveAcceptance, SameRows, MatchTables
    <2>6. SameRows(match')
      BY <2>1, <2>3, <2>4, <2>5 DEF SameRows
    <2>7. QED
      BY <2>6
  <1>4. ASSUME NEW p \in Procs, CommitConfirm(p) \/ CommitRejoin(p) \/ CommitDrain(p)
        PROVE  Goal
    <2>1. req[p] # Idle /\ req[p].op \in RegistrationOps /\ req[p].who \in Registrations
      BY <1>4, RequestType DEF CommitConfirm, CommitRejoin, CommitDrain, InHandler,
        RegistrationOps, SInv, IInv, TypeInv
    <2>2. Propose(req[p].who, reg', match)
      BY <1>4 DEF CommitConfirm, CommitRejoin, CommitDrain
    <2>3. reg'[req[p].who].status = "VERIFIED"
      BY <1>4, <2>1 DEF CommitConfirm, CommitRejoin, CommitDrain, InHandler,
        SInv, IInv, TypeInv, TypeOK, RegistrationRow, SerialInv, RowsFresh
    <2>4. ProposedFor = {req[p].who}
      <3>1. Finish(p) /\ TypeOK
        BY <1>4 DEF CommitConfirm, CommitRejoin, CommitDrain, SInv, IInv, TypeInv
      <3>2. req[p].op \notin {"decline", "expire"}
        BY <2>1 DEF RegistrationOps
      <3>3. QED
        BY <2>1, <3>1, <3>2, RequestProposesFor
    <2>5. QED
      BY <1>1, <2>1, <2>2, <2>3, <2>4 DEF ProposesFrom
  <1>5. ASSUME NEW p \in Procs, NEW r \in Registrations, FinalizePaid(p, r) PROVE Goal
    <2>1. CASE reg[r].status = "UNVERIFIED"
      <3>1. reg' = [reg EXCEPT ![r].status = "VERIFIED"] /\ Propose(r, reg', match)
        BY <1>5, <2>1 DEF FinalizePaid
      <3>2. reg'[r].status = "VERIFIED"
        BY <3>1 DEF SInv, IInv, TypeInv, TypeOK, RegistrationRow
      <3>3. /\ req' = req /\ req[p] = Idle
            /\ \A s \in Registrations : s # r => reg'[s] = reg[s]
        BY <1>5, <3>1 DEF FinalizePaid, SInv, IInv, TypeInv, TypeOK
      <3>4. ProposedFor = {r}
        BY <2>1, <3>2, <3>3 DEF ProposedFor
      <3>5. QED
        BY <1>1, <3>1, <3>2, <3>4 DEF ProposesFrom
    <2>2. CASE reg[r].status # "UNVERIFIED"
      BY <1>1, <1>5, <2>2 DEF FinalizePaid
    <2>3. QED
      BY <2>1, <2>2
  <1>6. ASSUME NEW p \in Procs, Fetch(p) \/ Rollback(p) PROVE Goal
    BY <1>1, <1>6, FetchFrame DEF Rollback
  <1>7. ASSUME OpenMatching \/ (\E m \in MatchIds : Lapse(m))
         \/ (\E owner \in Registrations : Refund(owner)) \/ UNCHANGED vars
        PROVE  Goal
    BY <1>1, <1>7 DEF OpenMatching, Lapse, Refund, vars
  <1> HIDE DEF Goal
  <1>8. ASSUME NEW p \in Procs, Commit(p) PROVE Goal
    BY <1>2, <1>3, <1>4, <1>6, <1>8 DEF Commit, Ending
  <1>9. Goal
    BY <1>5, <1>6, <1>7, <1>8 DEF Next
  <1>10. QED
    BY <1>9 DEF Goal

(* A new match is between a proposer that is VERIFIED by then, with a valid
   pass, and the best of its candidates. *)
LEMMA ProposalOf ==
  ASSUME SInv, [Next]_vars, NEW m \in MatchIds, match[m] = NoMatch, match'[m] # NoMatch
  PROVE  \E ms : \E r \in Registrations : \E c \in BestCandidates(reg', ms, r) :
           /\ ms \in MatchTables /\ ms[m] = NoMatch
           /\ reg'[r].status = "VERIFIED" /\ r \in ValidPass
           /\ match' = [ms EXCEPT ![m] = NewMatch(r, c)]
           /\ ProposedFor = {r}
  <1>1. PICK ms : SameRows(ms) /\ (match' = ms \/ ProposesFrom(ms))
    BY ProposalStep
  <1>2. ms \in MatchTables /\ ms[m] = NoMatch /\ match' # ms
    BY <1>1 DEF SameRows
  <1>3. PICK r \in Registrations :
          Propose(r, reg', ms) /\ reg'[r].status = "VERIFIED" /\ ProposedFor = {r}
    BY <1>1, <1>2 DEF ProposesFrom
  <1>4. MayPropose(r, ms)
    BY <1>2, <1>3 DEF Propose
  <1>5. PICK c \in BestCandidates(reg', ms, r), n \in NextId(ms) :
          match' = [ms EXCEPT ![n] = NewMatch(r, c)]
    BY <1>2, <1>3 DEF Propose
  <1>6. m = n
    BY <1>2, <1>5 DEF MatchTables
  <1>7. QED
    BY <1>2, <1>3, <1>4, <1>5, <1>6 DEF MayPropose

(* QueueOrderKept: propose_match pairs the registration it is called for in a
   couple that is_eligible_pair admits, and passes no counterpart over for one
   further back, except for one near that registration. *)
THEOREM NobodyIsPassedOver ==
  ASSUME OneAtATime PROVE Spec => QueueOrderKept
  <1> DEFINE
        InOrder(m) ==
          LET before == [match' EXCEPT ![m] = NoMatch]
              place(r) == QueuePosition(reg', before, r)
              near(r, s) == Location[r] = Location[s]
          IN  /\ IsEligiblePair(reg', match'[m].amb, match'[m].ref)
              /\ Parties(match'[m]) \cap ProposedFor # {}
              /\ \A r \in ProposedFor :
                   LET c == OtherParty(match'[m], r)
                   IN  \A d \in Pool(reg', before, c) :
                         place(d) < place(c) => near(c, r) /\ ~near(d, r)
  <1>1. ASSUME VInv, [Next]_vars
        PROVE  [\A m \in MatchIds : match[m] = NoMatch /\ match'[m] # NoMatch => InOrder(m)]_vars
    <2> SUFFICES ASSUME NEW m \in MatchIds, match[m] = NoMatch, match'[m] # NoMatch
                 PROVE  InOrder(m)
      OBVIOUS
    <2> DEFINE From(ms, r, c) == /\ ms \in MatchTables /\ ms[m] = NoMatch
                                 /\ reg'[r].status = "VERIFIED" /\ r \in ValidPass
                                 /\ match' = [ms EXCEPT ![m] = NewMatch(r, c)]
                                 /\ ProposedFor = {r}
    <2>1. \E ms : \E r \in Registrations : \E c \in BestCandidates(reg', ms, r) :
            From(ms, r, c)
      BY <1>1, ProposalOf DEF VInv
    <2> HIDE DEF From
    <2>2. PICK ms : \E r \in Registrations : \E c \in BestCandidates(reg', ms, r) :
            From(ms, r, c)
      BY <2>1
    <2>3. PICK r \in Registrations : \E c \in BestCandidates(reg', ms, r) : From(ms, r, c)
      BY <2>2
    <2>4. PICK c \in BestCandidates(reg', ms, r) : From(ms, r, c)
      BY <2>3
    <2>5. /\ ms \in MatchTables /\ ms[m] = NoMatch
          /\ reg'[r].status = "VERIFIED" /\ r \in ValidPass
      BY <2>4 DEF From
    <2>6. match' = [ms EXCEPT ![m] = NewMatch(r, c)] /\ ProposedFor = {r}
      BY <2>4 DEF From
    <2>7. match'[m] = NewMatch(r, c)
      BY <2>5, <2>6 DEF MatchTables
    <2>8. [match' EXCEPT ![m] = NoMatch] = ms
      BY <2>5, <2>6 DEF MatchTables
    <2>9. reg' \in RegistrationTables
      BY <1>1, TypeStep DEF VInv, SInv, IInv, TypeOK, RegistrationTables
    <2>10. c \in Counterparts(r) /\ c \in Registrations /\ Eligible(reg', ms, c)
      BY DEF BestCandidates, Candidates, Counterparts, Registrations
    <2>11. r \in Parties(match'[m]) /\ OtherParty(match'[m], r) = c
      BY <2>7, <2>10, RolesDisjoint
      DEF NewMatch, Parties, OtherParty, Counterparts, Registrations
    <2>12. IsEligiblePair(reg', match'[m].amb, match'[m].ref)
      BY <2>5, <2>7, <2>10, RolesDisjoint
      DEF IsEligiblePair, NewMatch, Counterparts, Registrations, Eligible
    <2>13. \A d \in Pool(reg', ms, c) : QueuePosition(reg', ms, d) < QueuePosition(reg', ms, c)
            => Location[c] = Location[r] /\ ~(Location[d] = Location[r])
      BY <2>9, BestIsFirst
    <2>14. QED
      BY <2>6, <2>8, <2>11, <2>12, <2>13
  <1>2. QED
    BY <1>1, ViewsInvariance, PTL DEF QueueOrderKept, Spec

-----------------------------------------------------------------------------
(* The promise of an instant match.  A candidate with the fewest before it has
   none: among finitely many there is a best. *)

LEMMA LeastOf ==
  ASSUME NEW S \in SUBSET Nat, S # {}
  PROVE  \E x \in S : \A y \in S : x <= y
  <1>1. S \subseteq Nat /\ S # {}
    OBVIOUS
  <1>2. \E x \in S : \A y \in S : ~ (<<y, x>> \in OpToRel(<, Nat))
    BY <1>1, NatLessThanWellFounded, WFMin, Zenon
  <1>3. PICK x \in S : \A y \in S : ~ (<<y, x>> \in OpToRel(<, Nat))
    BY <1>2
  <1>4. \A k, n \in Nat : k < n => <<k, n>> \in OpToRel(<, Nat)
    BY DEF OpToRel
  <1>5. \A y \in S : ~ (y < x)
    BY <1>1, <1>3, <1>4
  <1>6. QED
    BY <1>1, <1>5

LEMMA BestExists ==
  ASSUME NEW regs \in RegistrationTables, NEW ms, NEW r \in Registrations,
         Candidates(regs, ms, r) # {}
  PROVE  BestCandidates(regs, ms, r) # {}
  <1> DEFINE all == Candidates(regs, ms, r)
             better(c) == {d \in all : d # c /\ RanksBefore(regs, r, d, c)}
             sizes == {Cardinality(better(c)) : c \in all}
  <1>1. all \in SUBSET Registrations
    BY DEF Candidates, Counterparts, Registrations
  <1>2. IsFiniteSet(all)
    BY <1>1, PoolAssumption, FS_Subset
  <1>3. \A c \in all : IsFiniteSet(better(c)) /\ Cardinality(better(c)) \in Nat
    <2> SUFFICES ASSUME NEW c \in all
                 PROVE  IsFiniteSet(better(c)) /\ Cardinality(better(c)) \in Nat
      OBVIOUS
    <2>1. better(c) \in SUBSET all
      OBVIOUS
    <2>2. QED
      BY <1>2, <2>1, FS_Subset, FS_CardinalityType
  <1>4. PICK c \in all : \A d \in all : Cardinality(better(c)) <= Cardinality(better(d))
    <2>1. sizes \in SUBSET Nat /\ sizes # {}
      BY <1>3
    <2>2. \E x \in sizes : \A y \in sizes : x <= y
      BY <2>1, LeastOf
    <2>3. QED
      BY <2>2
  <1>5. \A d \in all : regs[d].priority \in Int /\ CreatedAt[d] \in Nat
    BY <1>1, CreatedAtOrders DEF RegistrationTables, RegistrationRow
  <1>6. better(c) = {}
    <2> SUFFICES ASSUME NEW d \in better(c) PROVE FALSE
      OBVIOUS
    <2>1. d \in all /\ d # c /\ RanksBefore(regs, r, d, c)
      OBVIOUS
    <2> HIDE DEF all
    <2>2. better(d) \in SUBSET better(c)
      BY <1>5, <2>1 DEF RanksBefore
    <2>3. d \notin better(d) /\ d \in better(c)
      OBVIOUS
    <2>4. /\ Cardinality(better(d)) <= Cardinality(better(c))
          /\ Cardinality(better(d)) # Cardinality(better(c))
      <3> HIDE DEF better
      <3>1. QED
        BY <1>3, <2>2, <2>3, FS_Subset
    <2>5. QED
      BY <1>3, <1>4, <2>1, <2>4
  <1>7. \A d \in all \ {c} : RanksBefore(regs, r, c, d)
    <2> SUFFICES ASSUME NEW d \in all, d # c PROVE RanksBefore(regs, r, c, d)
      OBVIOUS
    <2>1. ~RanksBefore(regs, r, d, c)
      BY <1>6
    <2>2. CreatedAt[c] # CreatedAt[d]
      BY <1>1, CreatedAtOrders
    <2>3. QED
      BY <1>5, <2>1, <2>2 DEF RanksBefore
  <1>8. c \in BestCandidates(regs, ms, r)
    BY <1>7 DEF BestCandidates
  <1>9. QED
    BY <1>8

(* Who comes into the pool is proposed for in the same step. *)
LEMMA EntryProposes ==
  ASSUME SInv, [Next]_vars, NEW r \in Registrations,
         reg[r].status # "VERIFIED", reg'[r].status = "VERIFIED"
  PROVE  /\ Propose(r, reg', match)
         /\ \A s \in Registrations : s # r => reg'[s] = reg[s]
  <1> DEFINE Goal == /\ Propose(r, reg', match)
                     /\ \A s \in Registrations : s # r => reg'[s] = reg[s]
  <1>1. reg # reg'
    OBVIOUS
  <1>2. reg \in RegistrationTables
    BY DEF SInv, IInv, TypeInv, TypeOK, RegistrationTables
  <1>3. ASSUME NEW p \in Procs, Ending(p) PROVE FALSE
    <2>1. PICK op \in MatchOps : InHandler(p, op)
      BY <1>3 DEF Ending, CommitDecline, CommitExpire, CommitReport, MatchOps
    <2>2. r \notin {req[p].who, OtherParty(req[p].row, req[p].who)}
      BY <2>1, CommitFresh
    <2>3. reg'[r] = reg[r]
      BY <1>3, <2>2, EndedStandings
    <2>4. QED
      BY <2>3
  <1>4. ASSUME NEW p \in Procs, CommitConfirm(p) \/ CommitRejoin(p) PROVE Goal
    <2>1. req[p] # Idle /\ req[p].who \in Registrations
      BY <1>4, RequestType DEF CommitConfirm, CommitRejoin, InHandler, RegistrationOps,
        SInv, IInv, TypeInv
    <2>2. Propose(req[p].who, reg', match)
      BY <1>4 DEF CommitConfirm, CommitRejoin
    <2>3. \A s \in Registrations : s # req[p].who => reg'[s] = reg[s]
      BY <1>2, <1>4, <2>1 DEF CommitConfirm, CommitRejoin, RegistrationTables
    <2>4. r = req[p].who
      BY <2>3
    <2>5. QED
      BY <2>2, <2>3, <2>4
  <1>5. ASSUME NEW p \in Procs, NEW x \in Registrations, FinalizePaid(p, x) PROVE Goal
    <2>1. /\ reg' = [reg EXCEPT ![x].status = "VERIFIED"]
          /\ Propose(x, reg', match)
      BY <1>1, <1>5 DEF FinalizePaid
    <2>2. \A s \in Registrations : s # x => reg'[s] = reg[s]
      BY <1>2, <2>1 DEF RegistrationTables
    <2>3. r = x
      BY <2>2
    <2>4. QED
      BY <2>1, <2>2, <2>3
  <1>6. ASSUME NEW p \in Procs,
               \/ Fetch(p) \/ Rollback(p) \/ CommitAccept(p) \/ CommitWithdraw(p)
               \/ CommitDrain(p)
        PROVE  FALSE
    BY <1>1, <1>6, FetchFrame DEF Rollback, CommitAccept, CommitWithdraw, CommitDrain
  <1>7. ASSUME OpenMatching \/ (\E m \in MatchIds : Lapse(m))
         \/ (\E owner \in Registrations : Refund(owner)) \/ UNCHANGED vars
        PROVE  FALSE
    BY <1>1, <1>7 DEF OpenMatching, Lapse, Refund, vars
  <1> HIDE DEF Goal
  <1>8. ASSUME NEW p \in Procs, Commit(p) PROVE Goal
    BY <1>3, <1>4, <1>6, <1>8 DEF Commit, Ending
  <1>9. Goal
    BY <1>5, <1>6, <1>7, <1>8 DEF Next
  <1>10. QED
    BY <1>9 DEF Goal

(* InstantMatchIsKept: when the picture says that the next of a role is matched
   at once, the next to come in is, if somebody it can be paired with waits. *)
THEOREM InstantPromiseKept ==
  ASSUME OneAtATime PROVE Spec => InstantMatchIsKept
  <1>1. ASSUME VInv, [Next]_vars
        PROVE  [\A r \in ValidPass :
                  /\ reg[r].status # "VERIFIED" /\ reg'[r].status = "VERIFIED"
                  /\ AccountPage(r).picture.instant =
                       IF r \in Ambassadors THEN "ambassador" ELSE "referee"
                  /\ Unmatched(Counterparts(r)) \cap ValidPass # {}
                  /\ FreeIds(match) # {}
                  => ActiveFor(match', r) # {}]_vars
    <2> SUFFICES ASSUME NEW r \in ValidPass,
                        reg[r].status # "VERIFIED", reg'[r].status = "VERIFIED",
                        AccountPage(r).picture.instant =
                          IF r \in Ambassadors THEN "ambassador" ELSE "referee",
                        NEW d \in Unmatched(Counterparts(r)), d \in ValidPass,
                        FreeIds(match) # {}
                 PROVE  ActiveFor(match', r) # {}
      OBVIOUS
    <2>1. r \in Registrations /\ SInv
      BY <1>1, SubsetsOfRegistrations DEF VInv
    <2>2. Propose(r, reg', match) /\ \A s \in Registrations : s # r => reg'[s] = reg[s]
      BY <1>1, <2>1, EntryProposes
    <2>3. open
      <3>1. PICK j, k : AccountPage(r).picture.instant = InstantMatchRole(j, k)
        BY DEF AccountPage, Picture
      <3>2. QED
        BY <3>1 DEF InstantMatchRole
    <2>4. MayPropose(r, match)
      BY <2>1, <2>3
      DEF MayPropose, SInv, ActivePartiesVerified, ActiveFor, Created
    <2>5. d \in Candidates(reg', match, r)
      BY <2>1, <2>2 DEF Unmatched, Candidates, Eligible, Counterparts, Registrations
    <2>6. BestCandidates(reg', match, r) # {}
      <3>1. reg' \in RegistrationTables
        BY <1>1, <2>1, TypeStep DEF SInv, IInv, TypeOK, RegistrationTables
      <3>2. QED
        BY <2>1, <2>5, <3>1, BestExists
    <2>7. NextId(match) # {}
      <3>1. FreeIds(match) \in SUBSET Nat
        BY BoundsAssumption DEF FreeIds
      <3>2. QED
        BY <3>1, LeastOf DEF NextId
    <2>8. PICK c \in BestCandidates(reg', match, r), m \in NextId(match) :
            match' = [match EXCEPT ![m] = NewMatch(r, c)]
      BY <2>2, <2>4, <2>6, <2>7 DEF Propose
    <2>9. m \in MatchIds /\ c \in Counterparts(r)
      BY DEF NextId, FreeIds, BestCandidates, Candidates
    <2>10. match'[m] = NewMatch(r, c) /\ match'[m] # NoMatch
      BY <2>1, <2>8, <2>9, CounterpartsType, NullsAssumption
      DEF SInv, IInv, TypeInv, TypeOK
    <2>11. m \in ActiveFor(match', r)
      BY <2>1, <2>9, <2>10
      DEF ActiveFor, NewMatch, IsActive, ActiveStatus, OpenStatus, Parties
    <2>12. QED
      BY <2>11
  <1>2. QED
    BY <1>1, ViewsInvariance, PTL DEF InstantMatchIsKept, Spec

-----------------------------------------------------------------------------
(* The picture.  Every matched registration has its one match. *)

MatchedOf(role) == {r \in role : ActiveFor(match, r) # {}}

LEMMA TheMatch ==
  ASSUME SInv, NEW r \in Registrations, ActiveFor(match, r) # {}
  PROVE  \E m \in ActiveMatches :
           /\ ActiveFor(match, r) = {m} /\ r \in Parties(match[m])
           /\ reg[r].status = "VERIFIED"
  <1>1. PICK m : m \in ActiveFor(match, r)
    OBVIOUS
  <1>2. m \in ActiveMatches /\ r \in Parties(match[m])
    BY <1>1 DEF ActiveFor, ActiveMatches, Created
  <1>3. reg[r].status = "VERIFIED"
    BY <1>2 DEF ActiveMatches, SInv, ActivePartiesVerified
  <1>4. ActiveFor(match, r) = {m}
    BY <1>1 DEF SInv, OneActiveMatch
  <1>5. QED
    BY <1>2, <1>3, <1>4

(* One of a role is matched per active match. *)
LEMMA OneOfEachRole ==
  ASSUME SInv, NEW role, role = Ambassadors \/ role = Referees
  PROVE  /\ IsFiniteSet(ActiveMatches)
         /\ IsFiniteSet(MatchedOf(role))
         /\ Cardinality(ActiveMatches) = Cardinality(MatchedOf(role))
  <1> DEFINE party(m) == IF role = Ambassadors THEN match[m].amb ELSE match[m].ref
             f == [m \in ActiveMatches |-> party(m)]
  <1>1. ASSUME NEW m \in ActiveMatches
        PROVE  /\ m \in MatchIds /\ match[m] # NoMatch /\ match[m] \in MatchRow
               /\ IsActive(match[m]) /\ party(m) \in role
               /\ \A r \in role : r \in Parties(match[m]) <=> r = party(m)
    <2>1. m \in MatchIds /\ match[m] # NoMatch /\ match[m] \in MatchRow /\ IsActive(match[m])
      BY DEF ActiveMatches, Created, SInv, IInv, TypeInv, TypeOK
    <2>2. match[m].amb \in Ambassadors /\ match[m].ref \in Referees
      BY <2>1 DEF MatchRow
    <2>3. match[m].amb \notin Referees /\ match[m].ref \notin Ambassadors
      BY <2>2, RolesDisjoint
    <2>4. QED
      BY <2>1, <2>2, <2>3 DEF Parties
  <1>2. ASSUME NEW m \in ActiveMatches
        PROVE  m \in ActiveFor(match, party(m)) /\ party(m) \in MatchedOf(role)
    <2>1. m \in ActiveFor(match, party(m))
      BY <1>1 DEF ActiveFor
    <2>2. QED
      BY <1>1, <2>1 DEF MatchedOf
  <1>3. f \in [ActiveMatches -> MatchedOf(role)]
    BY <1>2
  <1>4. ASSUME NEW m \in ActiveMatches, NEW n \in ActiveMatches, party(m) = party(n)
        PROVE  m = n
    <2>1. party(m) \in Registrations
      BY <1>1 DEF Registrations
    <2>2. m \in ActiveFor(match, party(m)) /\ n \in ActiveFor(match, party(m))
      BY <1>2, <1>4
    <2>3. QED
      BY <2>1, <2>2 DEF SInv, OneActiveMatch
  <1>5. ASSUME NEW r \in MatchedOf(role) PROVE \E m \in ActiveMatches : party(m) = r
    <2>1. r \in role /\ r \in Registrations /\ ActiveFor(match, r) # {}
      BY DEF MatchedOf, Registrations
    <2>2. PICK m \in ActiveMatches : r \in Parties(match[m])
      BY <2>1, TheMatch
    <2>3. QED
      BY <1>1, <2>1, <2>2
  <1>6. IsFiniteSet(MatchedOf(role))
    <2>1. MatchedOf(role) \in SUBSET Registrations
      BY DEF MatchedOf, Registrations
    <2>2. QED
      BY <2>1, PoolAssumption, FS_Subset
  <1> HIDE DEF party
  <1>7. f \in Injection(ActiveMatches, MatchedOf(role))
    BY <1>3, <1>4 DEF Injection, IsInjective
  <1>8. f \in Surjection(ActiveMatches, MatchedOf(role))
    BY <1>3, <1>5 DEF Surjection
  <1> HIDE DEF f
  <1>9. QED
    BY <1>6, <1>7, <1>8, FS_Injection

(* What the columns count. *)
LEMMA ColumnCounts ==
  ASSUME SInv, NEW role, role = Ambassadors \/ role = Referees
  PROVE  /\ Snapshot(role).unmatched = Cardinality(Unmatched(role))
         /\ Snapshot(role).matched = Cardinality(ActiveMatches)
         /\ IsFiniteSet(Unmatched(role)) /\ Cardinality(Unmatched(role)) \in Nat
         /\ IsFiniteSet(ActiveMatches) /\ Cardinality(ActiveMatches) \in Nat
  <1>1. IsFiniteSet(VerifiedOf(role)) /\ IsFiniteSet(Unmatched(role))
    <2>1. /\ VerifiedOf(role) \in SUBSET Registrations
          /\ Unmatched(role) \in SUBSET Registrations
      BY DEF VerifiedOf, Unmatched, Registrations
    <2>2. QED
      BY <2>1, PoolAssumption, FS_Subset
  <1>2. MatchedOf(role) = VerifiedOf(role) \ Unmatched(role)
    <2>1. \A r \in MatchedOf(role) : reg[r].status = "VERIFIED"
      BY TheMatch DEF MatchedOf, Registrations
    <2>2. QED
      BY <2>1 DEF MatchedOf, VerifiedOf, Unmatched
  <1>3. VerifiedOf(role) \cap Unmatched(role) = Unmatched(role)
    BY DEF VerifiedOf, Unmatched
  <1>4. Cardinality(MatchedOf(role)) = Cardinality(VerifiedOf(role))
                                       - Cardinality(Unmatched(role))
    BY <1>1, <1>2, <1>3, FS_Difference
  <1>5. Cardinality(Unmatched(role)) \in Nat /\ Cardinality(ActiveMatches) \in Nat
    BY <1>1, OneOfEachRole, FS_CardinalityType
  <1>6. QED
    BY <1>1, <1>4, <1>5, OneOfEachRole DEF Snapshot

(* A part that misses an element is smaller. *)
LEMMA ProperPart ==
  ASSUME NEW S, IsFiniteSet(S), NEW T \in SUBSET S, NEW x \in S, x \notin T
  PROVE  /\ Cardinality(T) \in Nat /\ Cardinality(S) \in Nat
         /\ Cardinality(T) < Cardinality(S)
  <1>1. IsFiniteSet(T) /\ Cardinality(T) <= Cardinality(S) /\ Cardinality(S) # Cardinality(T)
    BY FS_Subset
  <1>2. Cardinality(T) \in Nat /\ Cardinality(S) \in Nat
    BY <1>1, FS_CardinalityType
  <1>3. QED
    BY <1>1, <1>2

(* The column of a registration that waits, and its index. *)
ColumnOf(r) == IF r \in Ambassadors THEN "ambassadors" ELSE "referees"

LEMMA WhoWaits ==
  ASSUME SInv, NEW r \in ValidPass, reg[r].status = "VERIFIED", ActiveFor(match, r) = {}
  PROVE  /\ r \in Pool(reg, match, r)
         /\ StatusCard(r).queue_position # NoPlace
         /\ YouFor(r, StatusCard(r).queue_position) =
              [column |-> ColumnOf(r), index |-> Cardinality(Ahead(reg, match, r))]
         /\ Cardinality(Ahead(reg, match, r)) \in Nat
         /\ Cardinality(Ahead(reg, match, r)) < Cardinality(Unmatched(SameRole(r)))
  <1> DEFINE k == Cardinality(Ahead(reg, match, r))
  <1>1. r \in Registrations /\ reg \in RegistrationTables
    BY SubsetsOfRegistrations DEF SInv, IInv, TypeInv, TypeOK, RegistrationTables
  <1>2. r \in SameRole(r) /\ (SameRole(r) = Ambassadors \/ SameRole(r) = Referees)
    BY <1>1 DEF SameRole, Registrations
  <1>3. r \in Pool(reg, match, r)
    BY <1>2 DEF Pool, Eligible
  <1>4. k \in Nat /\ QueuePosition(reg, match, r) = k + 1
    BY <1>1, <1>3, PoolIsShared
  <1>5. StatusCard(r).queue_position = k + 1
    <2>1. ShownFor(r) = {}
      BY DEF ShownFor
    <2>2. QED
      BY <1>4, <2>1 DEF StatusCard
  <1>6. k + 1 # NoPlace /\ (k + 1) - 1 = k
    BY <1>4 DEF NoPlace
  <1>7. YouFor(r, k + 1) = [column |-> ColumnOf(r), index |-> k]
    BY <1>6 DEF YouFor, ColumnOf
  <1>8. k < Cardinality(Unmatched(SameRole(r)))
    <2>1. Ahead(reg, match, r) \in SUBSET Unmatched(SameRole(r))
      BY DEF Ahead, Pool, Eligible, Unmatched
    <2>2. r \in Unmatched(SameRole(r))
      BY <1>2 DEF Unmatched
    <2>3. r \notin Ahead(reg, match, r)
      <3>1. reg[r].priority \in Int /\ CreatedAt[r] \in Nat
        BY <1>1, <1>3, PoolIsShared
      <3>2. QED
        BY <3>1 DEF Ahead
    <2>4. IsFiniteSet(Unmatched(SameRole(r)))
      BY <1>2, ColumnCounts
    <2>5. QED
      BY <2>1, <2>2, <2>3, <2>4, ProperPart
  <1>9. QED
    BY <1>3, <1>4, <1>5, <1>6, <1>7, <1>8

(* The pair of a registration that is matched, and its index. *)
LEMMA WhoIsMatched ==
  ASSUME SInv, NEW r \in Registrations, NEW m \in ActiveMatches,
         ActiveFor(match, r) = {m}, reg[r].status = "VERIFIED"
  PROVE  /\ StatusCard(r).queue_position = NoPlace
         /\ YouFor(r, StatusCard(r).queue_position) =
              [column |-> "matches", index |-> Cardinality({n \in ActiveMatches : n < m})]
         /\ Cardinality({n \in ActiveMatches : n < m}) \in Nat
         /\ Cardinality({n \in ActiveMatches : n < m}) < Cardinality(ActiveMatches)
         /\ StatusPill(r) = "Queued" => ActiveFor(match, r) \subseteq Due
  <1>1. StatusCard(r).queue_position = NoPlace
    <2>1. r \notin Pool(reg, match, r)
      BY DEF Pool, Eligible
    <2>2. QED
      BY <2>1 DEF StatusCard, QueuePosition
  <1>2. MatchedPairIndex(r) = Cardinality({n \in ActiveMatches : n < m})
    BY DEF MatchedPairIndex
  <1>3. YouFor(r, NoPlace) = [column |-> "matches", index |-> MatchedPairIndex(r)]
    BY DEF YouFor
  <1>4. /\ Cardinality({n \in ActiveMatches : n < m}) \in Nat
        /\ Cardinality({n \in ActiveMatches : n < m}) < Cardinality(ActiveMatches)
    <2>1. IsFiniteSet(ActiveMatches)
      BY OneOfEachRole
    <2>2. m \in Nat
      BY BoundsAssumption DEF ActiveMatches, Created
    <2>3. m \notin {n \in ActiveMatches : n < m}
      BY <2>2
    <2>4. {n \in ActiveMatches : n < m} \in SUBSET ActiveMatches
      OBVIOUS
    <2>5. QED
      BY <2>1, <2>3, <2>4, ProperPart
  <1>5. ASSUME StatusPill(r) = "Queued" PROVE ActiveFor(match, r) \subseteq Due
    <2>1. ShownFor(r) = {}
      <3>1. ShownFor(r) # {} => MatchState(r) \in {"accepted", "pending", "proposed"}
        BY DEF MatchState
      <3>2. MatchState(r) \notin {"accepted", "pending", "proposed"}
        BY <1>5 DEF StatusPill
      <3>3. QED
        BY <3>1, <3>2
    <2>2. QED
      BY <2>1 DEF ShownFor
  <1>6. QED
    BY <1>1, <1>2, <1>3, <1>4, <1>5

(* Nobody shares a glyph but the two parties of a match. *)
LEMMA WaitingPlacesDiffer ==
  ASSUME NEW regs \in RegistrationTables, NEW ms, NEW x \in Registrations,
         x \in Pool(regs, ms, x), NEW y \in Pool(regs, ms, x), x # y
  PROVE  Cardinality(Ahead(regs, ms, x)) # Cardinality(Ahead(regs, ms, y))
  <1>1. /\ y \in Registrations /\ Pool(regs, ms, y) = Pool(regs, ms, x)
        /\ Cardinality(Ahead(regs, ms, x)) \in Nat
        /\ Cardinality(Ahead(regs, ms, y)) \in Nat
        /\ QueuePosition(regs, ms, x) = Cardinality(Ahead(regs, ms, x)) + 1
        /\ QueuePosition(regs, ms, y) = Cardinality(Ahead(regs, ms, y)) + 1
    BY PoolIsShared
  <1>2. x \in Ahead(regs, ms, y) \/ y \in Ahead(regs, ms, x)
    BY QueueIsTotal
  <1>3. QueuePosition(regs, ms, x) # QueuePosition(regs, ms, y)
    BY <1>1, <1>2, PlacesInOrder
  <1>4. QED
    BY <1>1, <1>3

LEMMA PairIndicesDiffer ==
  ASSUME SInv, NEW m \in ActiveMatches, NEW n \in ActiveMatches, m < n
  PROVE  Cardinality({i \in ActiveMatches : i < m}) #
           Cardinality({i \in ActiveMatches : i < n})
  <1> DEFINE before(j) == {i \in ActiveMatches : i < j}
  <1>1. ActiveMatches \subseteq Nat /\ IsFiniteSet(ActiveMatches)
    BY BoundsAssumption, OneOfEachRole DEF ActiveMatches, Created
  <1>2. before(n) \in SUBSET ActiveMatches
    OBVIOUS
  <1>3. IsFiniteSet(before(n))
    BY <1>1, <1>2, FS_Subset
  <1>4. before(m) \in SUBSET before(n) /\ m \in before(n) /\ m \notin before(m)
    <2>1. \A i \in ActiveMatches : i \in Nat
      BY <1>1
    <2>2. before(m) \subseteq before(n)
      <3>1. ASSUME NEW i \in before(m) PROVE i \in before(n)
        <4>1. i \in ActiveMatches /\ i < m
          OBVIOUS
        <4>2. i < n
          BY <2>1, <4>1
        <4>3. QED
          BY <4>1, <4>2
      <3>2. QED
        BY <3>1
    <2>3. m \in before(n)
      OBVIOUS
    <2>4. ~ (m < m)
      BY <2>1
    <2>5. m \notin before(m)
      BY <2>4
    <2>6. QED
      BY <2>2, <2>3, <2>5
  <1> HIDE DEF before
  <1>5. Cardinality(before(m)) \in Nat /\ Cardinality(before(m)) < Cardinality(before(n))
        /\ Cardinality(before(n)) \in Nat
    BY <1>3, <1>4, ProperPart
  <1>6. QED
    BY <1>5 DEF before

(* A viewer within the counted part of a column sees the own glyph, unless the
   column overruns its grid. *)
LEMMA OwnGlyph ==
  ASSUME NEW count \in Nat, NEW cap \in Nat, NEW index \in 0..(count - 1),
         Column(count, cap, index).you = NoGlyph
  PROVE  Column(count, cap, index).truncated
  <1>1. CASE count <= cap
    <2>1. Glyphs(count, cap) = count
      BY <1>1 DEF Glyphs
    <2>2. Column(count, cap, index).you = index
      BY <2>1 DEF Column
    <2>3. QED
      BY <2>2 DEF NoGlyph
  <1>2. CASE ~(count <= cap)
    <2>1. count > cap
      BY <1>2
    <2>2. Column(count, cap, index).truncated = (count > cap)
      BY DEF Column, Truncated
    <2>3. QED
      BY <2>1, <2>2
  <1>3. QED
    BY <1>1, <1>2

(* The column of the viewer in the picture. *)
LEMMA OwnColumn ==
  ASSUME SInv, NEW r \in ValidPass, reg[r].status = "VERIFIED"
  PROVE  LET page == AccountPage(r)
             own == CASE page.you.column = "ambassadors" -> page.picture.ambassadors
                      [] page.you.column = "referees" -> page.picture.referees
                      [] OTHER -> page.picture.matches
         IN  /\ page.you.index \in 0..(own.count - 1)
             /\ own.you = NoGlyph => own.truncated
             /\ page.pill = "Queued" /\ page.card.queue_position = NoPlace =>
                  ActiveFor(match, r) # {} /\ ActiveFor(match, r) \subseteq Due
  <1> DEFINE page == AccountPage(r)
             you == page.you
             own == CASE you.column = "ambassadors" -> page.picture.ambassadors
                      [] you.column = "referees" -> page.picture.referees
                      [] OTHER -> page.picture.matches
             waiting == IF r \in Ambassadors THEN Ambassadors ELSE Referees
             pairs == Cardinality(ActiveMatches)
  <1>1. r \in Registrations
    BY SubsetsOfRegistrations
  <1>2. /\ page.card = StatusCard(r) /\ page.pill = StatusPill(r)
        /\ you = YouFor(r, StatusCard(r).queue_position)
        /\ page.picture = Picture(you)
    BY DEF AccountPage
  <1>3. Snapshot(Ambassadors).matched = pairs /\ pairs \in Nat
    BY ColumnCounts
  <1>4. MaxIcons \in Nat /\ MaxPairs \in Nat
    BY GridAssumption
  <1>5. CASE ActiveFor(match, r) = {}
    <2> DEFINE index == Cardinality(Ahead(reg, match, r))
               count == Cardinality(Unmatched(waiting))
    <2>1. waiting = SameRole(r)
      BY DEF SameRole
    <2>2. /\ StatusCard(r).queue_position # NoPlace
          /\ you = [column |-> ColumnOf(r), index |-> index]
          /\ index \in Nat /\ index < count
      BY <1>2, <1>5, <2>1, WhoWaits
    <2>3. Snapshot(waiting).unmatched = count /\ count \in Nat
      BY ColumnCounts
    <2>4. index \in 0..(count - 1)
      BY <2>2, <2>3
    <2>5. own = Column(count, MaxIcons, index)
      <3>1. CASE r \in Ambassadors
        <4>1. you.column = "ambassadors" /\ you.index = index
          BY <2>2, <3>1 DEF ColumnOf
        <4>2. own = page.picture.ambassadors
          BY <4>1
        <4>3. QED
          BY <1>2, <2>3, <3>1, <4>1, <4>2 DEF Picture
      <3>2. CASE r \notin Ambassadors
        <4>1. you.column = "referees" /\ you.index = index
          BY <2>2, <3>2 DEF ColumnOf
        <4>2. own = page.picture.referees
          BY <4>1
        <4>3. QED
          BY <1>2, <2>3, <3>2, <4>1, <4>2 DEF Picture
      <3>3. QED
        BY <3>1, <3>2
    <2>6. own.count = count
      BY <2>5 DEF Column
    <2>7. own.you = NoGlyph => own.truncated
      <3> HIDE DEF own, count, index
      <3>1. QED
        BY <1>4, <2>3, <2>4, <2>5, OwnGlyph
    <2> HIDE DEF own, index, count, you
    <2>8. you.index = index
      BY <2>2
    <2>9. QED
      BY <1>2, <2>2, <2>4, <2>6, <2>7, <2>8 DEF own, you
  <1>6. CASE ActiveFor(match, r) # {}
    <2>1. PICK m \in ActiveMatches : ActiveFor(match, r) = {m}
      BY <1>1, <1>6, TheMatch
    <2> DEFINE index == Cardinality({n \in ActiveMatches : n < m})
    <2>2. /\ you = [column |-> "matches", index |-> index]
          /\ index \in Nat /\ index < pairs
          /\ StatusPill(r) = "Queued" => ActiveFor(match, r) \subseteq Due
      BY <1>1, <1>2, <2>1, WhoIsMatched
    <2>3. index \in 0..(pairs - 1)
      BY <1>3, <2>2
    <2>4. you.column = "matches" /\ you.index = index
      BY <2>2
    <2>5. own = page.picture.matches
      BY <2>4
    <2>6. own = Column(pairs, MaxPairs, index)
      BY <1>2, <1>3, <2>4, <2>5 DEF Picture
    <2>7. own.count = pairs
      BY <2>6 DEF Column
    <2>8. own.you = NoGlyph => own.truncated
      <3> HIDE DEF own, index, pairs
      <3>1. QED
        BY <1>3, <1>4, <2>3, <2>6, OwnGlyph
    <2> HIDE DEF own, index, pairs, you
    <2>9. QED
      BY <1>2, <1>6, <2>2, <2>3, <2>4, <2>7, <2>8 DEF own, you
  <1>7. QED
    BY <1>5, <1>6

(* Who shares a glyph. *)
PlaceOf(r) == YouFor(r, StatusCard(r).queue_position)
PairIndex(m) == Cardinality({n \in ActiveMatches : n < m})

LEMMA SharedGlyph ==
  ASSUME SInv, NEW r \in ValidPass, NEW s \in ValidPass, r # s,
         reg[r].status = "VERIFIED", reg[s].status = "VERIFIED",
         PlaceOf(r) = PlaceOf(s)
  PROVE  \E m \in ActiveMatches : {r, s} = Parties(match[m])
  <1>1. /\ r \in Registrations /\ s \in Registrations
        /\ reg \in RegistrationTables
    BY SubsetsOfRegistrations DEF SInv, IInv, TypeInv, TypeOK, RegistrationTables
  <1>2. ASSUME NEW x \in ValidPass, reg[x].status = "VERIFIED", ActiveFor(match, x) = {}
        PROVE  /\ PlaceOf(x).column = ColumnOf(x)
               /\ PlaceOf(x).index = Cardinality(Ahead(reg, match, x))
               /\ x \in Pool(reg, match, x)
    <2>1. PlaceOf(x) = [column |-> ColumnOf(x), index |-> Cardinality(Ahead(reg, match, x))]
          /\ x \in Pool(reg, match, x)
      BY <1>2, WhoWaits DEF PlaceOf
    <2>2. QED
      BY <2>1
  <1>3. ASSUME NEW x \in ValidPass, reg[x].status = "VERIFIED", ActiveFor(match, x) # {}
        PROVE  \E m \in ActiveMatches :
                 /\ x \in Parties(match[m])
                 /\ PlaceOf(x).column = "matches" /\ PlaceOf(x).index = PairIndex(m)
    <2>1. x \in Registrations
      BY SubsetsOfRegistrations
    <2>2. PICK m \in ActiveMatches : ActiveFor(match, x) = {m} /\ x \in Parties(match[m])
      BY <1>3, <2>1, TheMatch
    <2>3. PlaceOf(x) = [column |-> "matches", index |-> PairIndex(m)]
      BY <1>3, <2>1, <2>2, WhoIsMatched DEF PlaceOf, PairIndex
    <2>4. PlaceOf(x).column = "matches" /\ PlaceOf(x).index = PairIndex(m)
      BY <2>3
    <2>5. QED
      BY <2>2, <2>4
  <1>4. CASE ActiveFor(match, r) = {} /\ ActiveFor(match, s) = {}
    <2>1. ColumnOf(r) = ColumnOf(s)
          /\ Cardinality(Ahead(reg, match, r)) = Cardinality(Ahead(reg, match, s))
          /\ r \in Pool(reg, match, r) /\ s \in Pool(reg, match, s)
      BY <1>2, <1>4
    <2>2. s \in Pool(reg, match, r)
      BY <2>1 DEF ColumnOf, Pool, SameRole
    <2>3. QED
      BY <1>1, <2>1, <2>2, WaitingPlacesDiffer
  <1>5. CASE ActiveFor(match, r) # {} /\ ActiveFor(match, s) # {}
    <2>1. PICK m \in ActiveMatches : r \in Parties(match[m]) /\ PlaceOf(r).index = PairIndex(m)
      BY <1>3, <1>5
    <2>2. PICK n \in ActiveMatches : s \in Parties(match[n]) /\ PlaceOf(s).index = PairIndex(n)
      BY <1>3, <1>5
    <2>3. m = n
      <3>1. PairIndex(m) = PairIndex(n)
        BY <2>1, <2>2
      <3>2. m \in Nat /\ n \in Nat
        BY BoundsAssumption DEF ActiveMatches, Created
      <3>3. ~ (m < n) /\ ~ (n < m)
        BY <3>1, PairIndicesDiffer DEF PairIndex
      <3>4. m < n \/ n < m \/ m = n
        BY <3>2
      <3>5. QED
        BY <3>3, <3>4
    <2>4. {r, s} = Parties(match[m])
      BY <2>1, <2>2, <2>3 DEF Parties
    <2>5. QED
      BY <2>4
  <1>6. CASE (ActiveFor(match, r) = {}) # (ActiveFor(match, s) = {})
    <2>1. ASSUME NEW x \in ValidPass, NEW y \in ValidPass,
                 reg[x].status = "VERIFIED", reg[y].status = "VERIFIED",
                 ActiveFor(match, x) = {}, ActiveFor(match, y) # {}
          PROVE  PlaceOf(x).column # PlaceOf(y).column
      <3>1. PlaceOf(x).column \in {"ambassadors", "referees"}
        BY <1>2, <2>1 DEF ColumnOf
      <3>2. PlaceOf(y).column = "matches"
        BY <1>3, <2>1
      <3>3. QED
        BY <3>1, <3>2
    <2>2. QED
      BY <1>6, <2>1
  <1>7. QED
    BY <1>4, <1>5, <1>6

(* PictureIsTrue: the columns count the pairs and those who wait, everybody who
   takes part is at one place of one column, and only the two of a pair share
   theirs. *)
THEOREM PictureTellsTheTruth ==
  ASSUME OneAtATime PROVE Spec => []PictureIsTrue
  <1>1. ASSUME SInv PROVE PictureIsTrue
    <2> USE <1>1
    <2>1. /\ Snapshot(Ambassadors).matched = Cardinality(ActiveMatches)
          /\ Snapshot(Referees).matched = Cardinality(ActiveMatches)
      BY ColumnCounts
    <2>2. ASSUME NEW r \in ValidPass, NEW s \in ValidPass,
                 <<r, YouFor(r, StatusCard(r).queue_position)>> #
                   <<s, YouFor(s, StatusCard(s).queue_position)>>,
                 YouFor(r, StatusCard(r).queue_position) =
                   YouFor(s, StatusCard(s).queue_position),
                 YouFor(r, StatusCard(r).queue_position).column # ""
          PROVE  \E m \in ActiveMatches : {r, s} = Parties(match[m])
      <3>1. reg[r].status = "VERIFIED" /\ reg[s].status = "VERIFIED"
        BY <2>2 DEF YouFor
      <3>2. r # s /\ PlaceOf(r) = PlaceOf(s)
        BY <2>2 DEF PlaceOf
      <3>3. QED
        BY <3>1, <3>2, SharedGlyph
    <2>3. LET seen == {<<r, YouFor(r, StatusCard(r).queue_position)>> : r \in ValidPass}
          IN  \A x, y \in seen : x # y /\ x[2] = y[2] /\ x[2].column # "" =>
                \E m \in ActiveMatches : {x[1], y[1]} = Parties(match[m])
      <3> DEFINE at(r) == YouFor(r, StatusCard(r).queue_position)
                 seen == {<<r, at(r)>> : r \in ValidPass}
      <3>1. ASSUME NEW x \in seen, NEW y \in seen, x # y, x[2] = y[2], x[2].column # ""
            PROVE  \E m \in ActiveMatches : {x[1], y[1]} = Parties(match[m])
        <4>1. PICK r \in ValidPass : x = <<r, at(r)>>
          OBVIOUS
        <4>2. PICK s \in ValidPass : y = <<s, at(s)>>
          OBVIOUS
        <4>3. x[1] = r /\ x[2] = at(r) /\ y[1] = s /\ y[2] = at(s)
          BY <4>1, <4>2
        <4>4. \E m \in ActiveMatches : {r, s} = Parties(match[m])
          BY <2>2, <3>1, <4>1, <4>2, <4>3
        <4>5. QED
          BY <4>3, <4>4
      <3>2. QED
        BY <3>1
    <2>4. QED
      BY <2>1, <2>3, OwnColumn DEF PictureIsTrue
  <1>2. Spec => []SInv
    BY SerialInvariance
  <1>3. QED
    BY <1>1, <1>2, PTL

-----------------------------------------------------------------------------
(* The sweep and its dry run.  What the sweep has fetched is past its deadline. *)

SweptIsDue == \A p \in Procs : InHandler(p, "expire") => req[p].id \in Due

LEMMA CommitFrame ==
  ASSUME NEW p \in Procs, Commit(p)
  PROVE  Finish(p) /\ Due' = Due
  BY DEF Commit, CommitAccept, CommitWithdraw, CommitDecline, CommitExpire,
    CommitReport, Rollback, CommitConfirm, CommitRejoin, CommitDrain, Due

LEMMA FetchedIsDue ==
  ASSUME TypeOK, NEW p \in Procs, Fetch(p)
  PROVE  /\ InHandler(p, "expire")' => req'[p].id \in Due
         /\ \A o \in Procs : o # p => req'[o] = req[o]
  <1>1. ASSUME NEW m \in MatchIds, NEW r \in Registrations, NEW op,
               FetchMatch(p, op, m, r)
        PROVE  /\ req'[p].op = op /\ req'[p].id = m
               /\ \A o \in Procs : o # p => req'[o] = req[o]
    BY <1>1 DEF FetchMatch, TypeOK
  <1>2. ASSUME NEW r \in Registrations, NEW op, FetchRegistration(p, op, r)
        PROVE  req'[p].op = op /\ \A o \in Procs : o # p => req'[o] = req[o]
    BY <1>2 DEF FetchRegistration, TypeOK
  <1>3. ASSUME NEW m \in MatchIds, SweepFetch(p, m)
        PROVE  req'[p].id \in Due /\ \A o \in Procs : o # p => req'[o] = req[o]
    <2>1. FetchMatch(p, "expire", m, match[m].amb) /\ m \in Due
      BY <1>3 DEF SweepFetch
    <2>2. QED
      BY <2>1 DEF FetchMatch, TypeOK
  <1>4. ASSUME NEW m \in MatchIds, NEW r \in Registrations,
               \/ ViewAccept(p, m, r) \/ ViewWithdraw(p, m, r)
               \/ ViewDecline(p, m, r) \/ ViewReport(p, m, r)
        PROVE  req'[p].op # "expire" /\ \A o \in Procs : o # p => req'[o] = req[o]
    <2>1. \E op \in {"accept", "withdraw", "decline", "report"} : FetchMatch(p, op, m, r)
      BY <1>4 DEF ViewAccept, ViewWithdraw, ViewDecline, ViewReport
    <2>2. QED
      BY <1>1, <2>1
  <1>5. ASSUME NEW r \in Registrations,
               ViewConfirm(p, r) \/ ViewRejoin(p, r) \/ DrainFetch(p, r)
        PROVE  req'[p].op # "expire" /\ \A o \in Procs : o # p => req'[o] = req[o]
    <2>1. \E op \in {"confirm", "rejoin", "propose"} : FetchRegistration(p, op, r)
      BY <1>5 DEF ViewConfirm, ViewRejoin, DrainFetch
    <2>2. QED
      BY <1>2, <2>1
  <1>6. QED
    BY <1>3, <1>4, <1>5 DEF Fetch, InHandler

LEMMA DueStep ==
  ASSUME TypeOK, SweptIsDue, [Next]_vars PROVE SweptIsDue'
  <1> SUFFICES ASSUME NEW p \in Procs, InHandler(p, "expire")'
               PROVE  req'[p].id \in Due'
    BY DEF SweptIsDue
  <1>1. ASSUME req'[p] = req[p], Due \subseteq Due' PROVE req'[p].id \in Due'
    BY <1>1 DEF SweptIsDue, InHandler
  <1>2. ASSUME NEW o \in Procs, Fetch(o) PROVE req'[p].id \in Due'
    <2>1. Due' = Due
      BY <1>2, FetchFrame DEF Due
    <2>2. QED
      BY <1>1, <1>2, <2>1, FetchedIsDue
  <1>3. ASSUME NEW o \in Procs, Commit(o) PROVE req'[p].id \in Due'
    <2>1. Finish(o) /\ Due' = Due
      BY <1>3, CommitFrame
    <2>2. req'[o] = Idle /\ (o # p => req'[p] = req[p])
      BY <2>1, FinishType
    <2>3. QED
      BY <1>1, <2>1, <2>2 DEF InHandler
  <1>4. ASSUME NEW o \in Procs, NEW r \in Registrations, FinalizePaid(o, r)
        PROVE  req'[p] = req[p] /\ Due' = Due
    BY <1>4 DEF FinalizePaid, Due
  <1>5. CASE OpenMatching \/ (\E m \in MatchIds : Lapse(m))
         \/ (\E owner \in Registrations : Refund(owner)) \/ UNCHANGED vars
    <2>1. req' = req /\ Due \subseteq Due'
      BY <1>5 DEF OpenMatching, Lapse, Refund, vars, Due, TypeOK
    <2>2. QED
      BY <1>1, <2>1
  <1>6. QED
    BY <1>1, <1>2, <1>3, <1>4, <1>5 DEF Next

(* SweepAsAnnounced: the sweep expires what its dry run lists, and re-queues or
   pauses each side as the dry run says. *)
THEOREM SweepIsAnnounced ==
  ASSUME OneAtATime PROVE Spec => SweepAsAnnounced
  <1>1. ASSUME SInv, SweptIsDue, [Next]_vars
        PROVE  [\A p \in Procs : InHandler(p, "expire") /\ match' # match =>
                  LET m == req[p].id
                  IN  /\ m \in WouldExpire
                      /\ \A r \in Parties(match[m]) : reg'[r].status = Fate(m, r)]_vars
    <2> SUFFICES ASSUME NEW p \in Procs, InHandler(p, "expire"), match' # match
                 PROVE  /\ req[p].id \in WouldExpire
                        /\ \A r \in Parties(match[req[p].id]) :
                             reg'[r].status = Fate(req[p].id, r)
      OBVIOUS
    <2> DEFINE q == req[p]
               other == OtherParty(q.row, q.who)
    <2>1. q # Idle /\ q.op = "expire"
      BY DEF InHandler
    <2>2. Commit(p)
      BY <1>1, <2>1, OnlyItsCommit
    <2>3. CommitExpire(p)
      <3>1. ~ Rollback(p)
        BY DEF Rollback
      <3>2. QED
        BY <2>1, <2>2, <3>1
        DEF Commit, InHandler, CommitAccept, CommitWithdraw, CommitDecline, CommitReport,
          CommitConfirm, CommitRejoin, CommitDrain
    <2>4. q.id \in WouldExpire
      <3>1. /\ q.id \in MatchIds /\ match[q.id] # NoMatch /\ q.row = match[q.id]
        BY <1>1, CommitFresh DEF MatchOps
      <3>2. IsOpen(q.row)
        BY <1>1, <2>1 DEF SInv, IInv, TypeInv, RequestsHold, RequestHolds
      <3>3. q.id \in Due
        BY <1>1 DEF SweptIsDue
      <3>4. QED
        BY <3>1, <3>2, <3>3 DEF WouldExpire, OpenMatches, Created
    <2>5. ASSUME NEW r \in Parties(match[q.id]) PROVE reg'[r].status = Fate(q.id, r)
      <3>1. q.row = match[q.id] /\ Parties(q.row) = {q.who, other}
        BY <1>1, <2>3, EndedRows DEF Ending
      <3>2. \A s \in {q.who, other} :
              reg'[s].status = IF s \in q.row.accepted THEN "VERIFIED" ELSE "PAUSED"
        BY <1>1, <2>3, EndedStandings DEF Ending
      <3> HIDE DEF other, q
      <3>3. QED
        BY <3>1, <3>2 DEF Fate
    <2>6. QED
      BY <2>4, <2>5
  <1>2. Init => SweptIsDue
    BY DEF Init, SweptIsDue, InHandler
  <1>3. SInv /\ SweptIsDue /\ [Next]_vars => SweptIsDue'
    BY DueStep DEF SInv, IInv, TypeInv
  <1>4. Spec => []SInv
    BY SerialInvariance
  <1>5. QED
    BY <1>1, <1>2, <1>3, <1>4, PTL DEF SweepAsAnnounced, Spec

=============================================================================
