------------------------- MODULE MatchingSerialProofs -------------------------
(***************************************************************************)
(* Theorems about Matching when handlers run one after the other: for any  *)
(* registrations and matches, and a single process.                        *)
(***************************************************************************)
EXTENDS MatchingProofs

(* The inductive invariant.  The rows in memory are the rows of the tables,
   so that the guards of the code guard the save. *)
SInv ==
  /\ IInv
  /\ SerialInv
  /\ OneActiveMatch
  /\ ActivePartiesVerified

(* What a handler does to the tables: it may end or change one match, leaving
   ms, and may then propose one more; a party that stops being VERIFIED does so
   together with its active match. *)
Proposes(ms) ==
  \E r \in Registrations, n \in MatchIds : \E c \in Counterparts(r) :
    /\ Eligible(reg', ms, c)
    /\ reg'[r].status = "VERIFIED"
    /\ ActiveFor(ms, r) = {}
    /\ ms[n] = NoMatch
    /\ match' = [ms EXCEPT ![n] = NewMatch(r, c)]

Shrinks(ms) ==
  /\ ms \in MatchTables
  /\ \A m \in MatchIds :
       /\ ms[m] = NoMatch <=> match[m] = NoMatch
       /\ ms[m] # NoMatch => /\ ms[m].amb = match[m].amb
                             /\ ms[m].ref = match[m].ref
                             /\ IsActive(ms[m]) => IsActive(match[m])

Leaves(ms) ==
  \A r \in Registrations : reg[r].status = "VERIFIED" /\ reg'[r].status # "VERIFIED" =>
    \E m \in ActiveFor(match, r) : ~IsActive(ms[m])

TableEffect == \E ms : Shrinks(ms) /\ Leaves(ms) /\ (match' = ms \/ Proposes(ms))

LEMMA ProposeTable ==
  ASSUME NEW r \in Registrations, NEW ms, Propose(r, reg', ms),
         reg'[r].status = "VERIFIED"
  PROVE  match' = ms \/ Proposes(ms)
  BY ProposeEffect DEF Proposes

(* A request that holds and is fresh works on an active match. *)
LEMMA CommitFresh ==
  ASSUME SInv, NEW p \in Procs, NEW op \in MatchOps, InHandler(p, op)
  PROVE  LET q == req[p]
             other == OtherParty(q.row, q.who)
         IN  /\ q.op = op /\ q.id \in MatchIds /\ match[q.id] # NoMatch
             /\ match[q.id] \in MatchRow
             /\ q.row = match[q.id]
             /\ IsActive(match[q.id])
             /\ q.who \in Registrations /\ other \in Registrations
             /\ q.who # other
             /\ Parties(match[q.id]) = {q.who, other}
             /\ q.own = reg[q.who] /\ q.other = reg[other]
             /\ reg[q.who].status = "VERIFIED" /\ reg[other].status = "VERIFIED"
             /\ q.own \in RegistrationRow /\ q.other \in RegistrationRow
  <1> DEFINE q == req[p]
             other == OtherParty(q.row, q.who)
  <1>1. /\ q # Idle /\ q.op = op /\ q.id \in MatchIds /\ match[q.id] # NoMatch
        /\ match[q.id] \in MatchRow /\ q.who \in Registrations
        /\ q.own \in RegistrationRow /\ q.other \in RegistrationRow
        /\ other \in Registrations
    BY CommitFinds DEF SInv, IInv, InHandler
  <1>2. /\ q.row = match[q.id] /\ q.own = reg[q.who] /\ q.other = reg[other]
    BY <1>1 DEF SInv, SerialInv, RowsFresh
  <1>3. IsActive(match[q.id]) /\ q.who \in Parties(match[q.id])
    BY <1>1, <1>2 DEF SInv, IInv, TypeInv, RequestsHold, RequestHolds
  <1>4. q.who # other /\ Parties(match[q.id]) = {q.who, other}
    BY <1>1, <1>2, <1>3, RolesDisjoint DEF Parties, OtherParty, MatchRow
  <1>5. reg[q.who].status = "VERIFIED" /\ reg[other].status = "VERIFIED"
    BY <1>1, <1>3, <1>4 DEF SInv, ActivePartiesVerified, Created
  <1>6. QED
    BY <1>1, <1>2, <1>3, <1>4, <1>5

-----------------------------------------------------------------------------
(* TableEffect of each handler *)

LEMMA AcceptTable ==
  ASSUME SInv, NEW p \in Procs, CommitAccept(p) \/ CommitWithdraw(p)
  PROVE  TableEffect
  <1> DEFINE q == req[p]
  <1>1. PICK op \in {"accept", "withdraw"} : InHandler(p, op)
    BY DEF CommitAccept, CommitWithdraw
  <1>2. op \in MatchOps
    BY DEF MatchOps
  <1>3. q.id \in MatchIds /\ IsActive(match[q.id])
    BY <1>1, <1>2, CommitFresh
  <1>4. TypeOK' /\ reg' = reg
    BY TypeStep DEF SInv, IInv, Commit, Next, CommitAccept, CommitWithdraw
  <1>5. PICK S, st : match' = SaveAcceptance(match, q.id, S, st)
    BY DEF CommitAccept, CommitWithdraw
  <1>6. match \in MatchTables /\ match' \in MatchTables
    BY <1>4 DEF SInv, IInv, TypeInv, TypeOK, MatchTables
  <1>7. \A m \in MatchIds : m # q.id => match'[m] = match[m]
    BY <1>5, <1>6 DEF SaveAcceptance, MatchTables
  <1>8. q.id \in Created
    BY <1>1, <1>2, CommitFresh DEF Created
  <1>9. /\ match'[q.id] # NoMatch /\ match[q.id] # NoMatch
        /\ match'[q.id].amb = match[q.id].amb /\ match'[q.id].ref = match[q.id].ref
    <2>1. Next
      BY DEF Next, Commit
    <2>2. QED
      BY <1>8, <2>1, CreatedStays DEF SInv, Created
  <1>10. Shrinks(match')
    BY <1>3, <1>6, <1>7, <1>9 DEF Shrinks
  <1>11. Leaves(match')
    BY <1>4 DEF Leaves
  <1>12. QED
    BY <1>10, <1>11 DEF TableEffect

(* The handlers that end a match touch the registrations of its parties only. *)
LEMMA EndedTable ==
  ASSUME SInv, NEW p \in Procs, NEW ms, NEW st, Ends(p, ms, st),
         \A r \in Registrations \ Parties(match[req[p].id]) :
           reg'[r].status = reg[r].status
  PROVE  TableEffect
  <1> DEFINE q == req[p]
  <1>1. /\ q.op \in {"decline", "expire", "report"} /\ q.op \in MatchOps
        /\ InHandler(p, q.op)
    BY DEF Ends, MatchOps, InHandler
  <1>2. /\ q.id \in MatchIds /\ match[q.id] # NoMatch
        /\ match[q.id] \in MatchRow /\ IsActive(match[q.id])
        /\ ms[q.id] = Outcome(q, match[q.id])
    BY <1>1, CommitFresh DEF Ends
  <1>3. /\ ms[q.id] # NoMatch /\ ~IsActive(ms[q.id])
        /\ ms[q.id].amb = match[q.id].amb /\ ms[q.id].ref = match[q.id].ref
    <2>1. \/ ms[q.id] = [match[q.id] EXCEPT !.status = "DECLINED"]
          \/ ms[q.id] = [match[q.id] EXCEPT !.status = "EXPIRED"]
          \/ ms[q.id] = [match[q.id] EXCEPT !.status = "CANCELLED", !.reported = TRUE]
      <3>1. CASE q.op = "decline"
        BY <1>2, <3>1 DEF Outcome
      <3>2. CASE q.op = "expire"
        BY <1>2, <3>2 DEF Outcome
      <3>3. CASE q.op = "report"
        BY <1>2, <3>3 DEF Outcome
      <3>4. QED
        BY <1>1, <3>1, <3>2, <3>3
    <2>2. PICK row \in MatchRow : row = match[q.id]
      BY <1>2
    <2>3. /\ ms[q.id] \in MatchRow
          /\ ms[q.id].status \in {"DECLINED", "EXPIRED", "CANCELLED"}
          /\ ms[q.id].amb = row.amb /\ ms[q.id].ref = row.ref
      BY <2>1, <2>2 DEF MatchRow, MatchStatus
    <2>4. QED
      BY <2>2, <2>3, NullsAssumption DEF IsActive, ActiveStatus, OpenStatus
  <1>4. Shrinks(ms)
    BY <1>2, <1>3 DEF Shrinks, Ends
  <1>5. Leaves(ms)
    <2> SUFFICES ASSUME NEW r \in Registrations, reg[r].status = "VERIFIED",
                        reg'[r].status # "VERIFIED"
                 PROVE  \E m \in ActiveFor(match, r) : ~IsActive(ms[m])
      BY DEF Leaves
    <2>1. r \in Parties(match[q.id])
      OBVIOUS
    <2>2. q.id \in ActiveFor(match, r)
      BY <1>2, <2>1 DEF ActiveFor
    <2>3. QED
      BY <1>3, <2>2
  <1>6. match' = ms \/ Proposes(ms)
    BY ProposeTable DEF Ends
  <1>7. QED
    BY <1>4, <1>5, <1>6 DEF TableEffect

(* Ending a match touches the registrations of its two parties only. *)
LEMMA OthersUntouched ==
  ASSUME SInv, NEW p \in Procs,
         CommitDecline(p) \/ CommitExpire(p) \/ CommitReport(p),
         NEW r \in Registrations, r \notin Parties(match[req[p].id])
  PROVE  reg'[r].status = reg[r].status
  <1> DEFINE q == req[p]
             other == OtherParty(q.row, q.who)
  <1>1. PICK op \in MatchOps : InHandler(p, op)
    BY DEF CommitDecline, CommitExpire, CommitReport, MatchOps
  <1>2. /\ q.who \in Registrations /\ other \in Registrations
        /\ r # q.who /\ r # other
    BY <1>1, CommitFresh
  <1>3. reg \in RegistrationTables
    BY DEF SInv, IInv, TypeInv, TypeOK, RegistrationTables
  <1>4. CASE CommitDecline(p)
    BY <1>2, <1>3, <1>4 DEF CommitDecline, Requeue, Pause, RegistrationTables
  <1>5. CASE CommitReport(p)
    BY <1>2, <1>3, <1>5 DEF CommitReport, Requeue, Suspend, RegistrationTables
  <1>6. CASE CommitExpire(p)
    BY <1>2, <1>3, <1>6 DEF CommitExpire, Lapsed, Requeue, Pause, RegistrationTables
  <1>7. QED
    BY <1>4, <1>5, <1>6

LEMMA SameTable ==
  ASSUME SInv, match' = match \/ Proposes(match),
         \A r \in Registrations : reg'[r].status = reg[r].status \/ reg'[r].status = "VERIFIED"
  PROVE  TableEffect
  BY DEF TableEffect, Shrinks, Leaves, SInv, IInv, TypeInv, TypeOK, MatchTables

LEMMA RegistrationTable ==
  ASSUME SInv, NEW p \in Procs, CommitConfirm(p) \/ CommitRejoin(p) \/ CommitDrain(p)
  PROVE  TableEffect
  <1> DEFINE q == req[p]
  <1> USE DEF SInv, IInv, TypeInv
  <1>1. q # Idle /\ q.op \in RegistrationOps /\ q.who \in Registrations
    BY RequestType DEF CommitConfirm, CommitRejoin, CommitDrain, InHandler,
      RegistrationOps
  <1>2. Propose(q.who, reg', match)
    BY DEF CommitConfirm, CommitRejoin, CommitDrain
  <1>3. /\ reg'[q.who].status = "VERIFIED"
        /\ \A r \in Registrations : r # q.who => reg'[r] = reg[r]
    <2>1. CASE CommitConfirm(p)
      BY <1>1, <2>1 DEF CommitConfirm, TypeOK, RegistrationRow
    <2>2. CASE CommitRejoin(p)
      BY <1>1, <2>2 DEF CommitRejoin, TypeOK
    <2>3. CASE CommitDrain(p)
      BY <1>1, <2>3 DEF CommitDrain, InHandler, SerialInv, RowsFresh
    <2>4. QED
      BY <2>1, <2>2, <2>3
  <1>4. match' = match \/ Proposes(match)
    BY <1>1, <1>2, <1>3, ProposeTable
  <1>5. QED
    BY <1>3, <1>4, SameTable

LEMMA FinalizePaidTable ==
  ASSUME SInv, NEW p \in Procs, NEW r \in Registrations, FinalizePaid(p, r)
  PROVE  TableEffect
  <1> USE DEF SInv, IInv, TypeInv
  <1>1. CASE reg[r].status = "UNVERIFIED"
    <2>1. reg' = [reg EXCEPT ![r].status = "VERIFIED"] /\ Propose(r, reg', match)
      BY <1>1 DEF FinalizePaid
    <2>2. /\ reg'[r].status = "VERIFIED"
          /\ \A s \in Registrations : s # r => reg'[s] = reg[s]
      BY <2>1 DEF TypeOK, RegistrationRow
    <2>3. QED
      BY <2>1, <2>2, ProposeTable, SameTable
  <1>2. CASE reg[r].status # "UNVERIFIED"
    BY <1>2, SameTable DEF FinalizePaid
  <1>3. QED
    BY <1>1, <1>2

LEMMA TableStep ==
  ASSUME SInv, [Next]_vars
  PROVE  TableEffect
  <1>1. CASE UNCHANGED <<match, reg>>
    BY <1>1, SameTable
  <1>2. ASSUME NEW p \in Procs, Fetch(p) PROVE TableEffect
    BY <1>1, <1>2, FetchFrame
  <1>3. ASSUME NEW p \in Procs, Commit(p) PROVE TableEffect
    <2>1. CASE CommitDecline(p) \/ CommitExpire(p) \/ CommitReport(p)
      <3>1. PICK ms, st : Ends(p, ms, st)
        BY <2>1, DeclineEnds, ExpireEnds, ReportEnds DEF SInv, IInv
      <3>2. QED
        BY <2>1, <3>1, OthersUntouched, EndedTable
    <2>2. CASE Rollback(p)
      BY <1>1, <2>2 DEF Rollback
    <2>3. QED
      BY <1>3, <2>1, <2>2, AcceptTable, RegistrationTable DEF Commit
  <1>4. ASSUME NEW p \in Procs, NEW r \in Registrations, FinalizePaid(p, r)
        PROVE  TableEffect
    BY <1>4, FinalizePaidTable
  <1>5. CASE OpenMatching \/ (\E m \in MatchIds : Lapse(m))
         \/ (\E owner \in Registrations : Refund(owner)) \/ UNCHANGED vars
    BY <1>1, <1>5 DEF OpenMatching, Lapse, Refund, vars
  <1>6. QED
    BY <1>2, <1>3, <1>4, <1>5 DEF Next

-----------------------------------------------------------------------------
(* Each conjunct is preserved *)

(* An active match of the new table is an active match of the old one, or the
   one just proposed, whose parties had none. *)
LEMMA OneActiveStep ==
  ASSUME SInv, [Next]_vars
  PROVE  OneActiveMatch'
  <1> SUFFICES ASSUME NEW x \in Registrations,
                      NEW m \in ActiveFor(match', x), NEW n \in ActiveFor(match', x)
               PROVE  m = n
    BY DEF OneActiveMatch
  <1>1. PICK ms : Shrinks(ms) /\ (match' = ms \/ Proposes(ms))
    BY TableStep DEF TableEffect
  <1>2. \A k \in ActiveFor(ms, x) : k \in ActiveFor(match, x)
    BY <1>1 DEF Shrinks, ActiveFor, Parties
  <1>3. CASE match' = ms
    BY <1>2, <1>3 DEF SInv, OneActiveMatch
  <1>4. CASE Proposes(ms)
    <2>1. PICK r \in Registrations, k \in MatchIds : \E c \in Counterparts(r) :
            /\ Eligible(reg', ms, c)
            /\ ActiveFor(ms, r) = {}
            /\ match' = [ms EXCEPT ![k] = NewMatch(r, c)]
      BY <1>4 DEF Proposes
    <2>2. PICK c \in Counterparts(r) : /\ ActiveFor(ms, c) = {}
                                       /\ match' = [ms EXCEPT ![k] = NewMatch(r, c)]
      BY <2>1 DEF Eligible
    <2>3. match'[k] = NewMatch(r, c) /\ \A j \in MatchIds : j # k => match'[j] = ms[j]
      BY <1>1, <2>2 DEF Shrinks, MatchTables
    <2>4. \A j \in ActiveFor(match', x) : j # k => j \in ActiveFor(ms, x)
      BY <2>3 DEF ActiveFor
    <2>5. k \in ActiveFor(match', x) => x \in {r, c}
      BY <2>3 DEF ActiveFor, Parties, NewMatch
    <2>6. k \in ActiveFor(match', x) => ActiveFor(ms, x) = {}
      BY <2>1, <2>2, <2>5
    <2>7. QED
      BY <1>2, <2>4, <2>6 DEF SInv, OneActiveMatch
  <1>5. QED
    BY <1>1, <1>3, <1>4

LEMMA PartiesVerifiedStep ==
  ASSUME SInv, [Next]_vars
  PROVE  ActivePartiesVerified'
  <1> SUFFICES ASSUME NEW m \in MatchIds, match'[m] # NoMatch, IsActive(match'[m]),
                      NEW x \in Parties(match'[m])
               PROVE  reg'[x].status = "VERIFIED"
    BY DEF ActivePartiesVerified, Created
  <1>1. PICK ms : Shrinks(ms) /\ Leaves(ms) /\ (match' = ms \/ Proposes(ms))
    BY TableStep DEF TableEffect
  <1>2. ASSUME match'[m] = ms[m] PROVE reg'[x].status = "VERIFIED"
    <2>1. /\ match[m] # NoMatch /\ match[m] \in MatchRow
          /\ IsActive(match[m]) /\ x \in Parties(match[m])
      BY <1>1, <1>2 DEF Shrinks, Parties, SInv, IInv, TypeInv, TypeOK
    <2>2. x \in Registrations /\ reg[x].status = "VERIFIED"
      BY <2>1 DEF SInv, ActivePartiesVerified, Created, Parties, MatchRow, Registrations
    <2>3. m \in ActiveFor(match, x)
      BY <2>1 DEF ActiveFor
    <2>4. \A n \in ActiveFor(match, x) : n = m
      BY <2>2, <2>3 DEF SInv, OneActiveMatch
    <2>5. \A n \in ActiveFor(match, x) : IsActive(ms[n])
      BY <1>2, <2>4
    <2>6. QED
      BY <1>1, <2>2, <2>5 DEF Leaves
  <1>3. CASE Proposes(ms)
    <2>1. PICK r \in Registrations, k \in MatchIds : \E c \in Counterparts(r) :
            /\ Eligible(reg', ms, c)
            /\ reg'[r].status = "VERIFIED"
            /\ match' = [ms EXCEPT ![k] = NewMatch(r, c)]
      BY <1>3 DEF Proposes
    <2>2. PICK c \in Counterparts(r) : /\ reg'[c].status = "VERIFIED"
                                       /\ match' = [ms EXCEPT ![k] = NewMatch(r, c)]
      BY <2>1 DEF Eligible
    <2>3. match'[k] = NewMatch(r, c) /\ \A j \in MatchIds : j # k => match'[j] = ms[j]
      BY <1>1, <2>2 DEF Shrinks, MatchTables
    <2>4. m = k => x \in {r, c}
      BY <2>3 DEF Parties, NewMatch
    <2>5. QED
      BY <1>2, <2>1, <2>2, <2>3, <2>4
  <1>4. QED
    BY <1>1, <1>2, <1>3

(* The recorded answers of one match. *)
ConsentOf(m) ==
  IF match[m] = NoMatch THEN consent[m] = {}
  ELSE /\ IsActive(match[m]) => match[m].accepted = consent[m]
       /\ match[m].status = "CANCELLED" => Parties(match[m]) \subseteq consent[m]

LEMMA ConsentElsewhere ==
  ASSUME SInv, NEW m \in MatchIds, consent'[m] = consent[m],
         Untouched(m) \/ Proposed(m)
  PROVE  ConsentOf(m)'
  <1>1. ConsentOf(m)
    BY DEF SInv, SerialInv, ConsentRecorded, ConsentOf
  <1>2. CASE Untouched(m)
    BY <1>1, <1>2 DEF ConsentOf, Untouched
  <1>3. CASE Proposed(m)
    BY <1>1, <1>3, ProposedFacts DEF ConsentOf, Proposed
  <1>4. QED
    BY <1>2, <1>3

LEMMA AnswerConsent ==
  ASSUME SInv, OneAtATime, NEW p \in Procs, CommitAccept(p) \/ CommitWithdraw(p),
         NEW m \in MatchIds
  PROVE  ConsentOf(m)'
  <1> DEFINE q == req[p]
  <1>1. PICK op \in {"accept", "withdraw"} :
          /\ InHandler(p, op)
          /\ op = "accept" => CommitAccept(p)
          /\ op = "withdraw" => CommitWithdraw(p)
    BY DEF CommitAccept, CommitWithdraw
  <1>2. /\ q.op = op /\ q.id \in MatchIds /\ match[q.id] # NoMatch
        /\ match[q.id] \in MatchRow /\ q.row = match[q.id] /\ IsActive(match[q.id])
        /\ q.who \in Registrations
    BY <1>1, CommitFresh DEF MatchOps
  <1>3. consent \in [MatchIds -> SUBSET Registrations]
    BY DEF SInv, IInv, TypeInv, TypeOK
  <1>4. RowEffect(m) /\ (m = q.id => Written(p, m))
    BY AcceptRow, WithdrawRow DEF SInv, IInv
  <1>5. CASE m # q.id
    <2>1. consent'[m] = consent[m]
      BY <1>2, <1>3, <1>5 DEF CommitAccept, CommitWithdraw
    <2>2. \A o \in Procs : ~Written(o, m)
      BY <1>5 DEF OneAtATime, Written
    <2>3. QED
      BY <1>4, <2>1, <2>2, ConsentElsewhere DEF RowEffect
  <1>6. CASE m = q.id
    <2>1. match'[m] # NoMatch /\ match'[m].status # "CANCELLED"
      <3>1. match'[m] \in MatchRow
        BY <1>4, <1>6, WrittenFacts DEF SInv
      <3>2. match'[m] = Outcome(q, match[m])
        BY <1>4, <1>6 DEF Written
      <3>3. \A S : DerivedStatus(q.row, S) # "CANCELLED"
        BY DerivedStatusType DEF ActiveStatus, OpenStatus
      <3>4. match'[m].status # "CANCELLED"
        BY <1>1, <1>2, <1>6, <3>2, <3>3 DEF Outcome, MatchRow
      <3>5. QED
        BY <3>1, <3>4, NullsAssumption
    <2>2. match[m].accepted = consent[m]
      BY <1>2, <1>6 DEF SInv, SerialInv, ConsentRecorded
    <2>3. match'[m].accepted = consent'[m]
      <3>1. CASE op = "accept"
        <4>1. match'[m].accepted = match[m].accepted \cup {q.who}
          BY <1>2, <1>4, <1>6, <3>1 DEF Written, Outcome, MatchRow
        <4>2. consent'[m] = consent[m] \cup {q.who}
          BY <1>1, <1>2, <1>3, <1>6, <3>1 DEF CommitAccept
        <4>3. QED
          BY <2>2, <4>1, <4>2
      <3>2. CASE op = "withdraw"
        <4>1. match'[m].accepted = match[m].accepted \ {q.who}
          BY <1>2, <1>4, <1>6, <3>2 DEF Written, Outcome, MatchRow
        <4>2. consent'[m] = consent[m] \ {q.who}
          BY <1>1, <1>2, <1>3, <1>6, <3>2 DEF CommitWithdraw
        <4>3. QED
          BY <2>2, <4>1, <4>2
      <3>3. QED
        BY <3>1, <3>2
    <2>4. QED
      BY <2>1, <2>3 DEF ConsentOf
  <1>7. QED
    BY <1>5, <1>6

LEMMA EndedConsent ==
  ASSUME SInv, OneAtATime, NEW p \in Procs, NEW m \in MatchIds,
         CommitDecline(p) \/ CommitExpire(p) \/ CommitReport(p)
  PROVE  ConsentOf(m)'
  <1> DEFINE q == req[p]
  <1>1. PICK op \in {"decline", "expire", "report"} :
          /\ InHandler(p, op)
          /\ op # "decline" => consent' = consent
          /\ op = "decline" => CommitDecline(p)
    BY DEF CommitDecline, CommitExpire, CommitReport
  <1>2. /\ q.op = op /\ q.id \in MatchIds /\ match[q.id] # NoMatch
        /\ match[q.id] \in MatchRow /\ q.row = match[q.id] /\ IsActive(match[q.id])
        /\ q.who \in Registrations /\ q # Idle
    BY <1>1, CommitFresh DEF MatchOps, InHandler
  <1>3. consent \in [MatchIds -> SUBSET Registrations]
    BY DEF SInv, IInv, TypeInv, TypeOK
  <1>4. RowEffect(m) /\ (m = q.id => Written(p, m))
    BY DeclineEnds, ExpireEnds, ReportEnds, EndedRow DEF SInv, IInv
  <1>5. CASE m # q.id
    <2>1. consent'[m] = consent[m]
      BY <1>1, <1>2, <1>3, <1>5 DEF CommitDecline
    <2>2. \A o \in Procs : ~Written(o, m)
      BY <1>5 DEF OneAtATime, Written
    <2>3. QED
      BY <1>4, <2>1, <2>2, ConsentElsewhere DEF RowEffect
  <1>6. CASE m = q.id
    <2>1. /\ match'[m] \in MatchRow /\ match'[m].amb = match[m].amb
          /\ match'[m].ref = match[m].ref /\ match'[m] = Outcome(q, match[m])
      BY <1>4, <1>6, WrittenFacts DEF SInv, Written
    <2>2. /\ ~IsActive(match'[m])
          /\ match'[m].status = "CANCELLED" => op = "report"
      BY <1>1, <1>2, <1>6, <2>1 DEF Outcome, MatchRow, IsActive, ActiveStatus, OpenStatus
    <2>3. op = "report" => Parties(match[m]) \subseteq consent[m]
      <3>1. op = "report" => match[m].status = "ACCEPTED"
        BY <1>2, <1>6 DEF SInv, IInv, TypeInv, RequestsHold, RequestHolds
      <3>2. match[m].status = DerivedStatus(match[m], match[m].accepted)
        BY <1>2, <1>6 DEF SInv, IInv, StatusFollowsAcceptances, Created
      <3>3. match[m].accepted = consent[m]
        BY <1>2, <1>6 DEF SInv, SerialInv, ConsentRecorded
      <3>4. QED
        BY <3>1, <3>2, <3>3 DEF DerivedStatus
    <2>4. op = "report" => consent'[m] = consent[m]
      BY <1>1
    <2>5. Parties(match'[m]) = Parties(match[m])
      BY <2>1 DEF Parties
    <2>6. QED
      BY <2>1, <2>2, <2>3, <2>4, <2>5, NullsAssumption DEF ConsentOf
  <1>7. QED
    BY <1>5, <1>6

LEMMA ConsentStep ==
  ASSUME SInv, OneAtATime, [Next]_vars
  PROVE  ConsentRecorded'
  <1> SUFFICES ASSUME NEW m \in MatchIds PROVE ConsentOf(m)'
    BY DEF ConsentRecorded, ConsentOf
  <1>1. ASSUME consent' = consent, match' = match PROVE ConsentOf(m)'
    BY <1>1 DEF ConsentOf, SInv, SerialInv, ConsentRecorded
  <1>2. ASSUME consent' = consent, logged' = logged,
               \E r \in Registrations :
                 Propose(r, reg', match) /\ reg'[r].status # "UNVERIFIED"
        PROVE  ConsentOf(m)'
    <2>1. Untouched(m) \/ Proposed(m)
      <3>1. match \in MatchTables
        BY DEF SInv, IInv, TypeInv, TypeOK, MatchTables
      <3>2. QED
        BY <1>2, <3>1, ProposeRow DEF Untouched, Proposed
    <2>2. QED
      BY <1>2, <2>1, ConsentElsewhere
  <1>3. ASSUME NEW p \in Procs, CommitConfirm(p) \/ CommitRejoin(p) \/ CommitDrain(p)
        PROVE  ConsentOf(m)'
    <2> DEFINE q == req[p]
    <2>1. q # Idle /\ q.op \in RegistrationOps /\ q.who \in Registrations
      BY <1>3, RequestType DEF CommitConfirm, CommitRejoin, CommitDrain, InHandler,
        RegistrationOps, SInv, IInv, TypeInv
    <2>2. Propose(q.who, reg', match) /\ logged' = logged /\ consent' = consent
      BY <1>3 DEF CommitConfirm, CommitRejoin, CommitDrain
    <2>3. reg'[q.who].status # "UNVERIFIED"
      <3>1. CASE CommitConfirm(p)
        BY <2>1, <3>1 DEF CommitConfirm, SInv, IInv, TypeInv, TypeOK, RegistrationRow
      <3>2. CASE CommitRejoin(p)
        BY <2>1, <3>2 DEF CommitRejoin, SInv, IInv, TypeInv, TypeOK
      <3>3. CASE CommitDrain(p)
        BY <2>1, <3>3 DEF CommitDrain, InHandler, SInv, SerialInv, RowsFresh
      <3>4. QED
        BY <1>3, <3>1, <3>2, <3>3
    <2>4. QED
      BY <1>2, <2>1, <2>2, <2>3
  <1>4. ASSUME NEW p \in Procs, NEW r \in Registrations, FinalizePaid(p, r)
        PROVE  ConsentOf(m)'
    <2>1. CASE reg[r].status = "UNVERIFIED"
      <3>1. /\ reg' = [reg EXCEPT ![r].status = "VERIFIED"]
            /\ logged' = logged /\ consent' = consent
        BY <2>1, <1>4 DEF FinalizePaid
      <3>2. Propose(r, reg', match)
        BY <1>4, <2>1, <3>1 DEF FinalizePaid
      <3>3. reg'[r].status # "UNVERIFIED"
        BY <3>1 DEF SInv, IInv, TypeInv, TypeOK, RegistrationRow
      <3>4. QED
        BY <1>2, <3>1, <3>2, <3>3
    <2>2. CASE reg[r].status # "UNVERIFIED"
      BY <1>1, <1>4, <2>2 DEF FinalizePaid
    <2>3. QED
      BY <2>1, <2>2
  <1>5. ASSUME NEW p \in Procs, Fetch(p) \/ Commit(p) PROVE ConsentOf(m)'
    <2>1. CASE Rollback(p)
      BY <1>1, <2>1 DEF Rollback
    <2>2. CASE Fetch(p)
      BY <1>1, <2>2, FetchFrame
    <2>3. QED
      BY <1>3, <1>5, <2>1, <2>2, AnswerConsent, EndedConsent DEF Commit
  <1>6. CASE OpenMatching \/ (\E n \in MatchIds : Lapse(n))
         \/ (\E owner \in Registrations : Refund(owner)) \/ UNCHANGED vars
    BY <1>1, <1>6 DEF OpenMatching, Lapse, Refund, vars
  <1>7. QED
    BY <1>4, <1>5, <1>6 DEF Next

(* While its only process is between fetch and commit, nothing is saved. *)
LEMMA NobodyElse ==
  ASSUME SInv, OneAtATime, [Next]_vars, NEW p \in Procs,
         req[p] # Idle, req'[p] = req[p]
  PROVE  UNCHANGED <<reg, match>>
  <1>1. ASSUME NEW o \in Procs, Fetch(o) PROVE UNCHANGED <<reg, match>>
    BY <1>1, FetchFrame
  <1>2. ASSUME NEW o \in Procs, Commit(o) PROVE FALSE
    <2>1. Finish(o) /\ o = p
      BY <1>2 DEF OneAtATime, Commit, CommitAccept, CommitWithdraw, CommitDecline,
        CommitExpire, CommitReport, Rollback, CommitConfirm, CommitRejoin, CommitDrain
    <2>2. req'[p] = Idle
      BY <2>1, FinishType DEF SInv, IInv, TypeInv
    <2>3. QED
      BY <2>2
  <1>3. ASSUME NEW o \in Procs, NEW r \in Registrations, FinalizePaid(o, r)
        PROVE  FALSE
    BY <1>3 DEF OneAtATime, FinalizePaid
  <1>4. CASE OpenMatching \/ (\E m \in MatchIds : Lapse(m))
         \/ (\E owner \in Registrations : Refund(owner)) \/ UNCHANGED vars
    BY <1>4 DEF OpenMatching, Lapse, Refund, vars
  <1>5. QED
    BY <1>1, <1>2, <1>3, <1>4 DEF Next

FreshFor(q) ==
  /\ q.op \in MatchOps => /\ q.row = match[q.id]
                          /\ q.own = reg[q.who]
                          /\ q.other = reg[OtherParty(q.row, q.who)]
  /\ q.op = "confirm" => reg[q.who].status = "UNVERIFIED"
  /\ q.op = "rejoin" => q.own = reg[q.who] /\ q.own.status = "PAUSED"
  /\ q.op = "propose" => reg[q.who].status = "VERIFIED"

LEMMA FetchedFresh ==
  ASSUME TypeOK, NEW p \in Procs, Fetch(p)
  PROVE  FreshFor(req[p])'
  <1>1. UNCHANGED <<reg, match>>
    BY FetchFrame
  <1>2. ASSUME NEW op \in MatchOps, NEW m \in MatchIds, NEW r, FetchMatch(p, op, m, r)
        PROVE  FreshFor(req[p])'
    <2>1. PICK q : /\ q = req'[p] /\ q.op = op /\ q.id = m /\ q.who = r
                   /\ q.row = match[m] /\ q.own = reg[r]
                   /\ q.other = reg[OtherParty(match[m], r)]
      BY <1>2 DEF FetchMatch, TypeOK
    <2>2. FreshFor(q)
      BY <2>1 DEF FreshFor, MatchOps
    <2>3. QED
      BY <1>1, <2>1, <2>2 DEF FreshFor
  <1>3. ASSUME NEW op \in RegistrationOps, NEW r, FetchRegistration(p, op, r),
               op = "confirm" => reg[r].status = "UNVERIFIED",
               op = "rejoin" => reg[r].status = "PAUSED",
               op = "propose" => reg[r].status = "VERIFIED"
        PROVE  FreshFor(req[p])'
    <2>1. PICK q : q = req'[p] /\ q.op = op /\ q.who = r /\ q.own = reg[r]
      BY <1>3 DEF FetchRegistration, TypeOK
    <2>2. FreshFor(q)
      BY <1>3, <2>1 DEF FreshFor, MatchOps, RegistrationOps
    <2>3. QED
      BY <1>1, <2>1, <2>2 DEF FreshFor
  <1>4. ASSUME NEW m \in MatchIds,
               \/ \E r \in Registrations :
                    \/ ViewAccept(p, m, r) \/ ViewWithdraw(p, m, r)
                    \/ ViewDecline(p, m, r) \/ ViewReport(p, m, r)
               \/ SweepFetch(p, m)
        PROVE  FreshFor(req[p])'
    BY <1>2, <1>4 DEF ViewAccept, ViewWithdraw, ViewDecline, ViewReport, SweepFetch,
      MatchOps
  <1>5. ASSUME NEW r \in Registrations,
               ViewConfirm(p, r) \/ ViewRejoin(p, r) \/ DrainFetch(p, r)
        PROVE  FreshFor(req[p])'
    BY <1>3, <1>5 DEF ViewConfirm, ViewRejoin, DrainFetch, RegistrationOps
  <1>6. QED
    BY <1>4, <1>5 DEF Fetch

LEMMA FreshStep ==
  ASSUME SInv, OneAtATime, [Next]_vars
  PROVE  RowsFresh'
  <1> SUFFICES ASSUME NEW p \in Procs, req'[p] # Idle PROVE FreshFor(req[p])'
    BY DEF RowsFresh, FreshFor
  <1>1. CASE Fetch(p)
    BY <1>1, FetchedFresh DEF SInv, IInv, TypeInv
  <1>2. CASE req'[p] = req[p]
    <2>1. PICK q : q = req[p] /\ q = req'[p] /\ FreshFor(q)
      BY <1>2 DEF SInv, SerialInv, RowsFresh, FreshFor
    <2>2. UNCHANGED <<reg, match>>
      BY <1>2, NobodyElse
    <2>3. QED
      BY <2>1, <2>2 DEF FreshFor
  <1>3. QED
    BY <1>1, <1>2, RequestStep DEF SInv, IInv, TypeInv

LEMMA SerialInit ==
  ASSUME Init PROVE SInv
  <1>1. IInv
    BY InvInit
  <1>2. RowsFresh /\ ConsentRecorded
    BY DEF Init, RowsFresh, ConsentRecorded
  <1>3. OneActiveMatch /\ ActivePartiesVerified
    BY DEF Init, OneActiveMatch, ActiveFor, ActivePartiesVerified, Created
  <1>4. QED
    BY <1>1, <1>2, <1>3 DEF SInv, SerialInv

LEMMA SerialStep ==
  ASSUME SInv, OneAtATime, [Next]_vars PROVE SInv'
  BY InvStep, FreshStep, ConsentStep, OneActiveStep, PartiesVerifiedStep
  DEF SInv, SerialInv

(* Handlers one after the other, every reachable state satisfies SInv. *)
THEOREM SerialInvariance ==
  ASSUME OneAtATime PROVE Spec => []SInv
  <1>1. Init => SInv
    BY SerialInit
  <1>2. SInv /\ [Next]_vars => SInv'
    BY SerialStep
  <1>3. QED
    BY <1>1, <1>2, PTL DEF Spec

-----------------------------------------------------------------------------
(* The promises of the code, when handlers run one after the other *)

(* A registration never holds two active matches. *)
THEOREM AtMostOneMatch ==
  ASSUME OneAtATime PROVE Spec => []OneActiveMatch
  <1>1. SInv => OneActiveMatch
    BY DEF SInv
  <1>2. QED
    BY <1>1, SerialInvariance, PTL

(* The parties of an active match are VERIFIED, so that pause and suspend
   never refuse and no handler is rolled back. *)
THEOREM PartiesAreVerified ==
  ASSUME OneAtATime PROVE Spec => []ActivePartiesVerified
  <1>1. SInv => ActivePartiesVerified
    BY DEF SInv
  <1>2. QED
    BY <1>1, SerialInvariance, PTL

(* Contacts are revealed only while both parties' last answer is to accept. *)
THEOREM RevealNeedsConsent ==
  ASSUME OneAtATime PROVE Spec => []MutualConsent
  <1>1. ASSUME SInv PROVE MutualConsent
    <2> SUFFICES ASSUME NEW m \in Created, match[m].status \in {"ACCEPTED", "CANCELLED"}
                 PROVE  Parties(match[m]) \subseteq consent[m]
      BY DEF MutualConsent
    <2>1. m \in MatchIds /\ match[m] # NoMatch
      BY DEF Created
    <2>2. CASE match[m].status = "ACCEPTED"
      <3>1. IsActive(match[m])
        BY <2>2 DEF IsActive, ActiveStatus
      <3>2. /\ match[m].status = DerivedStatus(match[m], match[m].accepted)
            /\ match[m].accepted = consent[m]
        BY <1>1, <2>1, <3>1
        DEF SInv, IInv, StatusFollowsAcceptances, SerialInv, ConsentRecorded
      <3>3. QED
        BY <2>2, <3>2 DEF DerivedStatus
    <2>3. CASE match[m].status = "CANCELLED"
      BY <1>1, <2>1, <2>3 DEF SInv, SerialInv, ConsentRecorded
    <2>4. QED
      BY <2>2, <2>3
  <1>2. QED
    BY <1>1, SerialInvariance, PTL

(* A terminal match never changes again. *)
THEOREM TerminalStays ==
  ASSUME OneAtATime PROVE Spec => TerminalIsFinal
  <1>1. ASSUME SInv, [Next]_vars
        PROVE  [\A m \in Created : ~IsActive(match[m]) => match'[m] = match[m]]_vars
    <2> SUFFICES ASSUME NEW m \in Created, ~IsActive(match[m])
                 PROVE  match'[m] = match[m]
      OBVIOUS
    <2>1. m \in MatchIds /\ match[m] # NoMatch
      BY DEF Created
    <2>2. ASSUME NEW p \in Procs, Written(p, m) PROVE FALSE
      <3>1. InHandler(p, req[p].op) /\ req[p].op \in MatchOps /\ req[p].id = m
        BY <2>2 DEF Written, InHandler
      <3>2. IsActive(match[m])
        BY <1>1, <3>1, CommitFresh
      <3>3. QED
        BY <3>2
    <2>3. QED
      BY <1>1, <2>1, <2>2, RowStep DEF RowEffect, Untouched, Proposed, SInv, IInv
  <1>2. QED
    BY <1>1, SerialInvariance, PTL DEF Spec, TerminalIsFinal

(* A reported no-show stays out of the pool. *)
THEOREM SuspensionIsFinal ==
  ASSUME OneAtATime PROVE Spec => SuspendedStays
  <1>1. ASSUME SInv, [Next]_vars
        PROVE  [\A r \in Registrations :
                  reg[r].status = "SUSPENDED" => reg'[r].status = "SUSPENDED"]_vars
    <2> SUFFICES ASSUME NEW r \in Registrations, reg[r].status = "SUSPENDED"
                 PROVE  reg'[r].status = "SUSPENDED"
      OBVIOUS
    <2> USE <1>1
    <2>1. ASSUME NEW p \in Procs,
                 CommitDecline(p) \/ CommitExpire(p) \/ CommitReport(p)
          PROVE  reg'[r].status = "SUSPENDED"
      <3>1. PICK op \in MatchOps : InHandler(p, op)
        BY <2>1 DEF CommitDecline, CommitExpire, CommitReport, MatchOps
      <3>2. r \notin Parties(match[req[p].id])
        BY <3>1, CommitFresh
      <3>3. QED
        BY <2>1, <3>2, OthersUntouched
    <2>2. ASSUME NEW p \in Procs, CommitConfirm(p) \/ CommitRejoin(p)
          PROVE  reg'[r].status = "SUSPENDED"
      <3>1. req[p].who # r
        BY <2>2 DEF CommitConfirm, CommitRejoin, InHandler, SInv, SerialInv, RowsFresh
      <3>2. QED
        BY <2>2, <3>1 DEF CommitConfirm, CommitRejoin, SInv, IInv, TypeInv, TypeOK
    <2>3. ASSUME NEW p \in Procs, NEW s \in Registrations, FinalizePaid(p, s)
          PROVE  reg'[r].status = "SUSPENDED"
      BY <2>3 DEF FinalizePaid, SInv, IInv, TypeInv, TypeOK
    <2>4. ASSUME NEW p \in Procs, Fetch(p) PROVE reg' = reg
      BY <2>4, FetchFrame
    <2>5. ASSUME NEW p \in Procs, Commit(p) PROVE reg'[r].status = "SUSPENDED"
      BY <2>1, <2>2, <2>5 DEF Commit, CommitAccept, CommitWithdraw, Rollback, CommitDrain
    <2>6. CASE OpenMatching \/ (\E m \in MatchIds : Lapse(m))
         \/ (\E owner \in Registrations : Refund(owner)) \/ UNCHANGED vars
      BY <2>6 DEF OpenMatching, Lapse, Refund, vars
    <2>7. QED
      BY <2>3, <2>4, <2>5, <2>6 DEF Next
  <1>2. QED
    BY <1>1, SerialInvariance, PTL DEF Spec, SuspendedStays

(* A deposit is captured by the acceptance that makes the match ACCEPTED, and
   then the last answer of both its parties is to accept. *)
THEOREM CaptureIsConsented ==
  ASSUME OneAtATime PROVE Spec => CaptureNeedsConsent
  <1> DEFINE Consented(r) == \E m \in Created : /\ r \in Parties(match[m])
                                                /\ Parties(match[m]) \subseteq consent'[m]
  <1>1. ASSUME SInv, [Next]_vars
        PROVE  [\A r \in Registrations :
                  deposit[r] # "CAPTURED" /\ deposit'[r] = "CAPTURED" => Consented(r)]_vars
    <2> SUFFICES ASSUME NEW r \in Registrations,
                        deposit[r] # "CAPTURED", deposit'[r] = "CAPTURED"
                 PROVE  Consented(r)
      OBVIOUS
    <2> USE <1>1
    <2>1. ASSUME NEW p \in Procs, CommitAccept(p) PROVE Consented(r)
      <3> DEFINE q == req[p]
                 m == q.id
                 accepted == q.row.accepted \cup {q.who}
      <3>1. InHandler(p, "accept") /\ "accept" \in MatchOps
        BY <2>1 DEF CommitAccept, MatchOps
      <3>2. /\ m \in MatchIds /\ match[m] # NoMatch /\ match[m] \in MatchRow
            /\ q.row = match[m] /\ IsActive(match[m])
        BY <3>1, CommitFresh
      <3>3. match[m].accepted = consent[m] /\ consent \in [MatchIds -> SUBSET Registrations]
        BY <3>2 DEF SInv, SerialInv, ConsentRecorded, IInv, TypeInv, TypeOK
      <3>4. consent'[m] = accepted
        BY <2>1, <3>2, <3>3 DEF CommitAccept
      <3>5. /\ DerivedStatus(q.row, accepted) = "ACCEPTED"
            /\ deposit' = Capture(deposit, Parties(q.row))
        BY <2>1 DEF CommitAccept
      <3>6. r \in Parties(match[m]) /\ Parties(match[m]) \subseteq accepted
        BY <3>2, <3>5 DEF Capture, DerivedStatus
      <3>7. QED
        BY <3>2, <3>4, <3>6 DEF Created
    <2>2. ASSUME NEW p \in Procs, CommitReport(p) PROVE FALSE
      BY <2>2 DEF CommitReport, Forfeit, SInv, IInv, TypeInv, TypeOK
    <2>3. ASSUME NEW p \in Procs, NEW s \in Registrations, FinalizePaid(p, s) PROVE FALSE
      BY <2>3 DEF FinalizePaid, SInv, IInv, TypeInv, TypeOK
    <2>4. ASSUME NEW p \in Procs, Fetch(p) PROVE FALSE
      BY <2>4, FetchFrame
    <2>5. ASSUME NEW p \in Procs, Commit(p) PROVE Consented(r)
      BY <2>1, <2>2, <2>5 DEF Commit, CommitWithdraw, CommitDecline, CommitExpire,
        Rollback, CommitConfirm, CommitRejoin, CommitDrain
    <2>6. CASE OpenMatching \/ (\E m \in MatchIds : Lapse(m)) \/ UNCHANGED vars
      BY <2>6 DEF OpenMatching, Lapse, vars
    <2>7. ASSUME NEW s \in Registrations, Refund(s) PROVE FALSE
      BY <2>7 DEF Refund, SInv, IInv, TypeInv, TypeOK
    <2>8. QED
      BY <2>3, <2>4, <2>5, <2>6, <2>7 DEF Next
  <1>2. QED
    BY <1>1, SerialInvariance, PTL DEF Spec, CaptureNeedsConsent

=============================================================================
