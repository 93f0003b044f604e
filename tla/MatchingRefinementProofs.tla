----------------------- MODULE MatchingRefinementProofs -----------------------
(***************************************************************************)
(* Matching, with handlers that run one after the other, implements        *)
(* Pairing: for any registrations and matches, and a single process, every *)
(* step is one of the visible events of Pairing or a stutter.              *)
(***************************************************************************)
EXTENDS MatchingSerialProofs, MatchingRefinement

(* Only the parties of a match are recorded as having accepted it. *)
AnswersOfParties == \A m \in Created : match[m].accepted \subseteq Parties(match[m])

(* Who is about to decline has not accepted: only then is a match actionable. *)
DeclinerIsUndecided ==
  \A p \in Procs : InHandler(p, "decline") => req[p].who \notin req[p].row.accepted

RInv == SInv /\ AnswersOfParties /\ DeclinerIsUndecided

(* The mapping, of any match table. *)
ActiveIn(ms) == {m \in MatchIds : ms[m] # NoMatch /\ IsActive(ms[m])}
Couple(row) == <<row.amb, row.ref>>
CoupledIn(ms) == {Couple(ms[m]) : m \in ActiveIn(ms)}
YesIn(ms) == UNION {ms[m].accepted : m \in ActiveIn(ms)}

LEMMA MappedTables == Coupled = CoupledIn(match) /\ SaidYes = YesIn(match)
  <1>1. {n \in Created : IsActive(match[n])} = ActiveIn(match)
    BY DEF Created, ActiveIn
  <1>2. QED
    BY <1>1 DEF Coupled, SaidYes, CoupledIn, YesIn, Couple

LEMMA MappedTablesNext == Coupled' = CoupledIn(match') /\ SaidYes' = YesIn(match')
  <1>1. {n \in Created : IsActive(match[n])}' = ActiveIn(match')
    BY DEF Created, ActiveIn
  <1>2. QED
    BY <1>1 DEF Coupled, SaidYes, CoupledIn, YesIn, Couple

-----------------------------------------------------------------------------
(* The invariant *)

LEMMA AnswersStep ==
  ASSUME RInv, [Next]_vars PROVE AnswersOfParties'
  <1> SUFFICES ASSUME NEW m \in MatchIds, match'[m] # NoMatch
               PROVE  match'[m].accepted \subseteq Parties(match'[m])
    BY DEF AnswersOfParties, Created
  <1>1. CASE match'[m] = match[m]
    BY <1>1 DEF RInv, AnswersOfParties, Created
  <1>2. CASE Proposed(m)
    BY <1>2, ProposedFacts
  <1>3. ASSUME NEW p \in Procs, Written(p, m)
        PROVE  match'[m].accepted \subseteq Parties(match'[m])
    <2> DEFINE q == req[p]
    <2>1. /\ match'[m].amb = match[m].amb /\ match'[m].ref = match[m].ref
          /\ match[m] # NoMatch /\ match[m] \in MatchRow /\ InHandler(p, q.op)
          /\ q.op \in MatchOps /\ match'[m] = Outcome(q, match[m]) /\ q.id = m
      BY <1>3, WrittenFacts DEF Written, RInv, SInv, IInv, TypeInv, TypeOK, InHandler
    <2>2. q.row = match[m] /\ q.who \in Parties(match[m])
      BY <2>1, CommitFresh DEF RInv
    <2>3. match[m].accepted \subseteq Parties(match[m])
      BY <2>1 DEF RInv, AnswersOfParties, Created
    <2>4. match'[m].accepted \in {match[m].accepted \cup {q.who},
                                  match[m].accepted \ {q.who}, match[m].accepted}
      BY <2>1, <2>2 DEF Outcome, MatchRow, MatchOps
    <2>5. Parties(match'[m]) = Parties(match[m])
      BY <2>1 DEF Parties
    <2>6. QED
      BY <2>2, <2>3, <2>4, <2>5
  <1>4. QED
    BY <1>1, <1>2, <1>3, RowStep DEF RowEffect, Untouched, RInv, SInv, IInv

LEMMA DeclinerStep ==
  ASSUME RInv, [Next]_vars PROVE DeclinerIsUndecided'
  <1> SUFFICES ASSUME NEW p \in Procs, req'[p] # Idle, req'[p].op = "decline"
               PROVE  req'[p].who \notin req'[p].row.accepted
    BY DEF DeclinerIsUndecided, InHandler
  <1>1. CASE Fetch(p)
    <2>1. ASSUME NEW op, NEW m, NEW r, FetchMatch(p, op, m, r),
                 op = "decline" => r \notin match[m].accepted
          PROVE  req'[p].who \notin req'[p].row.accepted
      <3>1. PICK q : q = req'[p] /\ q.op = op /\ q.who = r /\ q.row = match[m]
        BY <2>1 DEF FetchMatch, RInv, SInv, IInv, TypeInv, TypeOK
      <3>2. QED
        BY <2>1, <3>1
    <2>2. ASSUME NEW op, NEW r, op # "decline", FetchRegistration(p, op, r) PROVE FALSE
      BY <2>2 DEF FetchRegistration, RInv, SInv, IInv, TypeInv, TypeOK
    <2>3. QED
      BY <1>1, <2>1, <2>2 DEF Fetch, ViewAccept, ViewWithdraw, ViewDecline, ViewReport,
        SweepFetch, ViewConfirm, ViewRejoin, DrainFetch, Actionable
  <1>2. CASE req'[p] = req[p]
    BY <1>2 DEF RInv, DeclinerIsUndecided, InHandler
  <1>3. QED
    BY <1>1, <1>2, RequestStep DEF RInv, SInv, IInv, TypeInv

LEMMA RefinementInvariance ==
  ASSUME OneAtATime PROVE Spec => []RInv
  <1>1. Init => RInv
    BY SerialInit
    DEF RInv, AnswersOfParties, DeclinerIsUndecided, InHandler, Init, Created
  <1>2. RInv /\ [Next]_vars => RInv'
    BY SerialStep, AnswersStep, DeclinerStep DEF RInv
  <1>3. QED
    BY <1>1, <1>2, PTL DEF Spec

-----------------------------------------------------------------------------
(* The mapping of what a transaction does to the match table *)

(* The parties of two active matches are four people. *)
LEMMA CouplesDisjoint ==
  ASSUME RInv, NEW m \in ActiveIn(match), NEW n \in ActiveIn(match), m # n
  PROVE  Parties(match[m]) \cap Parties(match[n]) = {}
  <1> SUFFICES ASSUME NEW r \in Parties(match[m]), r \in Parties(match[n]) PROVE FALSE
    OBVIOUS
  <1>1. r \in Registrations
    BY DEF ActiveIn, Parties, RInv, SInv, IInv, TypeInv, TypeOK, MatchRow, Registrations
  <1>2. m \in ActiveFor(match, r) /\ n \in ActiveFor(match, r)
    BY DEF ActiveIn, ActiveFor
  <1>3. QED
    BY <1>1, <1>2 DEF RInv, SInv, OneActiveMatch

LEMMA ActiveRow ==
  ASSUME RInv, NEW m \in ActiveIn(match)
  PROVE  /\ m \in MatchIds /\ match[m] # NoMatch /\ match[m] \in MatchRow
         /\ match[m].amb \in Ambassadors /\ match[m].ref \in Referees
         /\ match[m].accepted \subseteq Parties(match[m])
         /\ Parties(match[m]) \subseteq Registrations
         /\ Couple(match[m]) \in Coupled
         /\ match[m].accepted = SaidYes \cap Parties(match[m])
  <1>1. /\ m \in MatchIds /\ match[m] # NoMatch /\ match[m] \in MatchRow
        /\ match[m].amb \in Ambassadors /\ match[m].ref \in Referees
    BY DEF ActiveIn, RInv, SInv, IInv, TypeInv, TypeOK, MatchRow
  <1>2. \A n \in ActiveIn(match) : match[n].accepted \subseteq Parties(match[n])
    BY DEF RInv, AnswersOfParties, ActiveIn, Created
  <1>3. Parties(match[m]) \subseteq Registrations
    BY <1>1 DEF Parties, Registrations
  <1>4. Couple(match[m]) \in Coupled
    BY MappedTables DEF CoupledIn
  <1>5. SaidYes \cap Parties(match[m]) \subseteq match[m].accepted
    <2> SUFFICES ASSUME NEW r \in SaidYes, r \in Parties(match[m])
                 PROVE  r \in match[m].accepted
      OBVIOUS
    <2>1. PICK n \in ActiveIn(match) : r \in match[n].accepted
      BY MappedTables DEF YesIn
    <2>2. n = m
      BY <1>2, <2>1, CouplesDisjoint
    <2>3. QED
      BY <2>1, <2>2
  <1>6. match[m].accepted \subseteq SaidYes
    BY MappedTables DEF YesIn
  <1>7. QED
    BY <1>1, <1>2, <1>3, <1>4, <1>5, <1>6

(* Ending a match takes its couple apart, and its answers away. *)
LEMMA EndedCouple ==
  ASSUME RInv, NEW m \in ActiveIn(match), NEW ms,
         \A n \in MatchIds : n # m => ms[n] = match[n],
         ~IsActive(ms[m])
  PROVE  /\ CoupledIn(ms) = Coupled \ {Couple(match[m])}
         /\ YesIn(ms) = SaidYes \ Parties(match[m])
  <1>1. ActiveIn(ms) = ActiveIn(match) \ {m}
    BY DEF ActiveIn
  <1>2. \A n \in ActiveIn(ms) : ms[n] = match[n]
    BY <1>1 DEF ActiveIn
  <1>3. \A n \in ActiveIn(ms) : Couple(match[n]) # Couple(match[m])
    BY <1>1, CouplesDisjoint DEF Couple, Parties
  <1>4. CoupledIn(ms) = Coupled \ {Couple(match[m])}
    BY <1>1, <1>2, <1>3, MappedTables DEF CoupledIn
  <1>5. \A n \in ActiveIn(ms) : match[n].accepted \cap Parties(match[m]) = {}
    BY <1>1, CouplesDisjoint, ActiveRow
  <1>6. match[m].accepted \subseteq Parties(match[m])
    BY ActiveRow
  <1>7. YesIn(ms) = SaidYes \ Parties(match[m])
    BY <1>1, <1>2, <1>5, <1>6, MappedTables DEF YesIn
  <1>8. QED
    BY <1>4, <1>7

(* A new answer leaves the couples as they are. *)
LEMMA AnsweredCouple ==
  ASSUME RInv, NEW m \in ActiveIn(match),
         \A n \in MatchIds : n # m => match'[n] = match[n],
         match'[m] # NoMatch, IsActive(match'[m]),
         match'[m].amb = match[m].amb, match'[m].ref = match[m].ref
  PROVE  /\ Coupled' = Coupled
         /\ SaidYes' = (SaidYes \ match[m].accepted) \cup match'[m].accepted
  <1>1. ActiveIn(match') = ActiveIn(match)
    BY DEF ActiveIn
  <1>2. \A n \in ActiveIn(match) : Couple(match'[n]) = Couple(match[n])
    BY DEF Couple, ActiveIn
  <1>3. Coupled' = Coupled
    BY <1>1, <1>2, MappedTables, MappedTablesNext DEF CoupledIn
  <1>4. \A n \in ActiveIn(match) \ {m} :
          /\ match'[n] = match[n]
          /\ match[n].accepted \cap match[m].accepted = {}
    BY CouplesDisjoint, ActiveRow DEF ActiveIn
  <1>5. SaidYes' = (SaidYes \ match[m].accepted) \cup match'[m].accepted
    BY <1>1, <1>4, MappedTables, MappedTablesNext DEF YesIn
  <1>6. QED
    BY <1>3, <1>5

LEMMA AloneIn ==
  ASSUME NEW ms, NEW r, ActiveFor(ms, r) = {}
  PROVE  ~Promise!InPair(CoupledIn(ms), r)
  <1> SUFFICES ASSUME NEW m \in ActiveIn(ms), r \in {Couple(ms[m])[1], Couple(ms[m])[2]}
               PROVE  FALSE
    BY DEF Promise!InPair, CoupledIn
  <1>1. r \in Parties(ms[m])
    BY DEF Couple, Parties
  <1>2. QED
    BY <1>1 DEF ActiveFor, ActiveIn

(* A new match adds a couple that has answered nothing. *)
LEMMA NewCouple ==
  ASSUME NEW ms \in MatchTables, NEW n \in MatchIds, ms[n] = NoMatch,
         NEW r \in Registrations, NEW c \in Counterparts(r),
         match' = [ms EXCEPT ![n] = NewMatch(r, c)]
  PROVE  /\ Coupled' = CoupledIn(ms) \cup {Promise!Couple(r, c)}
         /\ SaidYes' = YesIn(ms)
  <1>1. /\ match'[n] = NewMatch(r, c)
        /\ \A m \in MatchIds : m # n => match'[m] = ms[m]
    BY DEF MatchTables
  <1>2. NewMatch(r, c) # NoMatch /\ IsActive(NewMatch(r, c))
    BY CounterpartsType, NullsAssumption DEF NewMatch, IsActive, ActiveStatus, OpenStatus
  <1>3. ActiveIn(match') = ActiveIn(ms) \cup {n} /\ n \notin ActiveIn(ms)
    BY <1>1, <1>2 DEF ActiveIn
  <1>4. \A m \in ActiveIn(ms) : match'[m] = ms[m]
    BY <1>1, <1>3 DEF ActiveIn
  <1>5. Couple(match'[n]) = Promise!Couple(r, c) /\ match'[n].accepted = {}
    BY <1>1 DEF NewMatch, Couple, Promise!Couple
  <1>6. Coupled' = CoupledIn(ms) \cup {Promise!Couple(r, c)}
    BY <1>3, <1>4, <1>5, MappedTablesNext DEF CoupledIn
  <1>7. SaidYes' = YesIn(ms)
    BY <1>3, <1>4, <1>5, MappedTablesNext DEF YesIn
  <1>8. QED
    BY <1>6, <1>7


(* propose_match pairs r at most with somebody who waits. *)
LEMMA ProposalPairs ==
  ASSUME NEW ms \in MatchTables, NEW r \in Registrations, Propose(r, reg', ms)
  PROVE  Promise!MayPair(r, StandsAt', CoupledIn(ms)) /\ SaidYes' = YesIn(ms)
  <1>1. CASE match' = ms
    <2>1. Coupled' = CoupledIn(ms) /\ SaidYes' = YesIn(ms)
      BY <1>1, MappedTablesNext
    <2>2. QED
      BY <2>1 DEF Promise!MayPair
  <1>2. CASE match' # ms
    <2>1. PICK c \in BestCandidates(reg', ms, r), n \in NextId(ms) :
            match' = [ms EXCEPT ![n] = NewMatch(r, c)]
      BY <1>2 DEF Propose
    <2>2. /\ c \in Counterparts(r) /\ c \in Registrations /\ c \in ValidPass
          /\ reg'[c].status = "VERIFIED" /\ ActiveFor(ms, c) = {}
      BY <2>1, CounterpartsType DEF BestCandidates, Candidates, Eligible
    <2>3. open /\ r \in ValidPass /\ ActiveFor(ms, r) = {}
      BY <1>2 DEF Propose, MayPropose
    <2>4. n \in MatchIds /\ ms[n] = NoMatch
      BY <2>1 DEF NextId, FreeIds
    <2>5. Coupled' = CoupledIn(ms) \cup {Promise!Couple(r, c)} /\ SaidYes' = YesIn(ms)
      BY <2>1, <2>2, <2>4, NewCouple
    <2>6. (r \in Ambassadors) # (c \in Ambassadors)
      BY <2>2, RolesDisjoint DEF Counterparts, Registrations
    <2>7. ~Promise!InPair(CoupledIn(ms), c) /\ ~Promise!InPair(CoupledIn(ms), r)
      BY <2>2, <2>3, AloneIn
    <2>8. StandsAt'[c] = "VERIFIED"
      BY <2>2 DEF StandsAt
    <2>9. QED
      BY <2>2, <2>3, <2>5, <2>6, <2>7, <2>8 DEF Promise!MayPair
  <1>3. QED
    BY <1>1, <1>2

-----------------------------------------------------------------------------
(* Each commit is one event of Pairing *)

LEMMA Agreement ==
  ASSUME RInv, NEW m \in ActiveIn(match)
  PROVE  Promise!Agreed(Couple(match[m])) <=> match[m].status = "ACCEPTED"
  <1>1. match[m].status = DerivedStatus(match[m], match[m].accepted)
    BY ActiveRow DEF ActiveIn, RInv, SInv, IInv, StatusFollowsAcceptances, Created
  <1>2. match[m].status = "ACCEPTED" <=> Parties(match[m]) \subseteq match[m].accepted
    BY <1>1 DEF DerivedStatus, Parties
  <1>3. Promise!Agreed(Couple(match[m])) <=> Parties(match[m]) \subseteq SaidYes
    BY DEF Promise!Agreed, Couple, Parties
  <1>4. QED
    BY <1>2, <1>3, ActiveRow

(* What a match request works on. *)
LEMMA RequestedMatch ==
  ASSUME RInv, NEW p \in Procs, NEW op \in MatchOps, InHandler(p, op)
  PROVE  LET q == req[p]
         IN  /\ q.op = op /\ q.id \in ActiveIn(match) /\ q.row = match[q.id]
             /\ q.who \in Parties(match[q.id])
             /\ q.who \in Promise!People
             /\ op \in {"accept", "decline", "expire", "withdraw"} => IsOpen(match[q.id])
             /\ op = "accept" => q.who \notin match[q.id].accepted
             /\ op = "withdraw" => q.who \in match[q.id].accepted
             /\ op = "report" => match[q.id].status = "ACCEPTED"
  <1> DEFINE q == req[p]
  <1>1. /\ q.op = op /\ q.id \in MatchIds /\ match[q.id] # NoMatch
        /\ IsActive(match[q.id]) /\ q.row = match[q.id]
        /\ q.who \in Parties(match[q.id]) /\ q.who \in Registrations
    BY CommitFresh DEF RInv
  <1>2. RequestHolds(q)
    BY DEF RInv, SInv, IInv, TypeInv, RequestsHold, InHandler
  <1>3. QED
    BY <1>1, <1>2 DEF ActiveIn, RequestHolds, Promise!People, Registrations

LEMMA AnswerRecorded ==
  ASSUME RInv, NEW p \in Procs, NEW S \in SUBSET Registrations,
         NEW st \in ActiveStatus,
         req[p].id \in ActiveIn(match),
         match' = SaveAcceptance(match, req[p].id, S, st)
  PROVE  /\ Coupled' = Coupled
         /\ SaidYes' = (SaidYes \ match[req[p].id].accepted) \cup S
  <1> DEFINE m == req[p].id
  <1>1. PICK row \in MatchRow : row = match[m]
    BY ActiveRow
  <1>2. /\ \A n \in MatchIds : n # m => match'[n] = match[n]
        /\ match'[m] = [row EXCEPT !.accepted = S, !.status = st]
    <2>1. match \in MatchTables /\ m \in MatchIds
      BY ActiveRow DEF RInv, SInv, IInv, TypeInv, TypeOK, MatchTables
    <2>2. QED
      BY <1>1, <2>1 DEF SaveAcceptance, MatchTables
  <1>3. /\ match'[m].accepted = S /\ IsActive(match'[m])
        /\ match'[m].amb = row.amb /\ match'[m].ref = row.ref
    BY <1>1, <1>2 DEF MatchRow, IsActive
  <1>4. match'[m] # NoMatch
    <2>1. match'[m] \in MatchRow
      BY <1>2 DEF MatchRow, MatchStatus, ActiveStatus, OpenStatus
    <2>2. QED
      BY <2>1, NullsAssumption
  <1>5. QED
    BY <1>1, <1>2, <1>3, <1>4, AnsweredCouple

(* Standing, deposits received and the opening, where a step leaves them alone. *)
SameStanding == StandsAt' = StandsAt
SamePaid == HasPaid' = HasPaid

LEMMA CapturedPaid ==
  ASSUME TypeOK, NEW rs, deposit' = Capture(deposit, rs)
  PROVE  SamePaid
  BY DEF SamePaid, HasPaid, Capture, TypeOK

LEMMA AcceptIsYes ==
  ASSUME RInv, NEW p \in Procs, CommitAccept(p)
  PROVE  Promise!SayYes(req[p].who)
  <1> DEFINE q == req[p]
             m == q.id
             accepted == q.row.accepted \cup {q.who}
             status == DerivedStatus(q.row, accepted)
  <1>1. /\ m \in ActiveIn(match) /\ q.row = match[m] /\ q.who \in Parties(match[m])
        /\ q.who \notin match[m].accepted
    BY RequestedMatch DEF CommitAccept, MatchOps
  <1>2. /\ accepted \in SUBSET Registrations
        /\ match[m].accepted = SaidYes \cap Parties(match[m])
        /\ Couple(match[m]) \in Coupled
    BY <1>1, ActiveRow
  <1>3. /\ Coupled' = Coupled
        /\ SaidYes' = (SaidYes \ match[m].accepted) \cup accepted
    BY <1>1, <1>2, DerivedStatusType, AnswerRecorded DEF CommitAccept
  <1>4. SaidYes' = SaidYes \cup {q.who} /\ q.who \notin SaidYes
    BY <1>1, <1>2, <1>3
  <1>5. Promise!InPair(Coupled, q.who)
    BY <1>1, <1>2 DEF Promise!InPair, Couple, Parties
  <1>6. SameStanding /\ open' = open
    BY DEF SameStanding, StandsAt, CommitAccept
  <1>7. SamePaid
    <2>1. deposit' = deposit \/ deposit' = Capture(deposit, Parties(q.row))
      BY DEF CommitAccept
    <2>2. QED
      BY <2>1, CapturedPaid DEF SamePaid, HasPaid, RInv, SInv, IInv, TypeInv
  <1>8. QED
    BY <1>3, <1>4, <1>5, <1>6, <1>7
    DEF Promise!SayYes, SameStanding, SamePaid

LEMMA WithdrawIsBack ==
  ASSUME RInv, NEW p \in Procs, CommitWithdraw(p)
  PROVE  Promise!TakeBack(Couple(match[req[p].id]), req[p].who)
  <1> DEFINE q == req[p]
             m == q.id
             accepted == q.row.accepted \ {q.who}
             status == DerivedStatus(q.row, accepted)
  <1>1. /\ m \in ActiveIn(match) /\ q.row = match[m] /\ q.who \in Parties(match[m])
        /\ q.who \in match[m].accepted /\ IsOpen(match[m])
    BY RequestedMatch DEF CommitWithdraw, MatchOps
  <1>2. /\ accepted \in SUBSET Registrations
        /\ match[m].accepted = SaidYes \cap Parties(match[m])
        /\ Couple(match[m]) \in Coupled
    BY <1>1, ActiveRow
  <1>3. /\ Coupled' = Coupled
        /\ SaidYes' = (SaidYes \ match[m].accepted) \cup accepted
    BY <1>1, <1>2, DerivedStatusType, AnswerRecorded DEF CommitWithdraw
  <1>4. SaidYes' = SaidYes \ {q.who} /\ q.who \in SaidYes
    BY <1>1, <1>2, <1>3
  <1>5. ~Promise!Agreed(Couple(match[m]))
    BY <1>1, Agreement DEF IsOpen, OpenStatus
  <1>6. q.who \in {Couple(match[m])[1], Couple(match[m])[2]}
    BY <1>1 DEF Couple, Parties
  <1>7. SameStanding /\ SamePaid /\ open' = open
    BY DEF SameStanding, SamePaid, StandsAt, HasPaid, CommitWithdraw
  <1>8. QED
    BY <1>2, <1>3, <1>4, <1>5, <1>6, <1>7
    DEF Promise!TakeBack, SameStanding, SamePaid

(* A match ends, leaving ms: its couple breaks up. *)
LEMMA MatchBreaksUp ==
  ASSUME RInv, NEW m \in ActiveIn(match), NEW ms \in MatchTables,
         \A n \in MatchIds : n # m => ms[n] = match[n],
         ~IsActive(ms[m]),
         NEW out \in SUBSET Parties(match[m]), NEW status,
         \A r \in Registrations :
           reg'[r].status = IF r \in out THEN status ELSE reg[r].status,
         match' = ms \/ \E r \in Parties(match[m]) \ out : Propose(r, reg', ms),
         SamePaid, open' = open
  PROVE  Promise!BreakUp(Couple(match[m]), out, status)
  <1> DEFINE pair == Couple(match[m])
             st == [r \in Promise!People |-> IF r \in out THEN status ELSE StandsAt[r]]
  <1>1. CoupledIn(ms) = Coupled \ {pair} /\ YesIn(ms) = SaidYes \ Parties(match[m])
    BY EndedCouple
  <1>2. pair \in Coupled /\ Parties(match[m]) \subseteq Registrations
    BY ActiveRow
  <1>3. {pair[1], pair[2]} = Parties(match[m])
    BY DEF Couple, Parties
  <1>4. StandsAt' = st
    BY DEF StandsAt, Promise!People, Registrations
  <1>5. CASE match' = ms
    <2>1. Coupled' = CoupledIn(ms) /\ SaidYes' = YesIn(ms)
      BY <1>5, MappedTablesNext
    <2>2. QED
      BY <1>1, <1>2, <1>3, <1>4, <2>1
      DEF Promise!BreakUp, SamePaid
  <1>6. CASE \E r \in Parties(match[m]) \ out : Propose(r, reg', ms)
    <2>1. PICK r \in Parties(match[m]) \ out : Propose(r, reg', ms)
      BY <1>6
    <2>2. Promise!MayPair(r, StandsAt', CoupledIn(ms)) /\ SaidYes' = YesIn(ms)
      BY <1>2, <2>1, ProposalPairs
    <2>3. Promise!MayPair(r, st, Coupled \ {pair})
      BY <1>1, <1>4, <2>2
    <2>4. QED
      BY <1>1, <1>2, <1>3, <1>4, <2>1, <2>2, <2>3
      DEF Promise!BreakUp, SamePaid
  <1>7. QED
    BY <1>5, <1>6

(* What DeclineEnds, ExpireEnds and ReportEnds say of the match that ends. *)
LEMMA EndedMatch ==
  ASSUME RInv, NEW p \in Procs, NEW ms, NEW st \in {"DECLINED", "EXPIRED", "CANCELLED"},
         Ends(p, ms, st)
  PROVE  LET m == req[p].id
         IN  /\ ms \in MatchTables
             /\ \A n \in MatchIds : n # m => ms[n] = match[n]
             /\ ~IsActive(ms[m])
  <1> DEFINE m == req[p].id
  <1>1. InHandler(p, req[p].op) /\ req[p].op \in MatchOps
    BY DEF Ends, InHandler, MatchOps
  <1>2. m \in MatchIds
    BY <1>1, CommitFresh DEF RInv
  <1>3. ms[m].status = st
    BY <1>2 DEF Ends
  <1>4. QED
    BY <1>3 DEF Ends, IsActive, ActiveStatus, OpenStatus

LEMMA DeclineIsRefusal ==
  ASSUME RInv, NEW p \in Procs, CommitDecline(p)
  PROVE  Promise!Refuse(Couple(match[req[p].id]), req[p].who)
  <1> DEFINE q == req[p]
             m == q.id
             other == OtherParty(q.row, q.who)
             ms == SaveStatus(match, m, "DECLINED")
  <1>1. InHandler(p, "decline") /\ "decline" \in MatchOps
    BY DEF CommitDecline, MatchOps
  <1>2. /\ m \in ActiveIn(match) /\ q.who \in Parties(match[m]) /\ IsOpen(match[m])
    BY <1>1, RequestedMatch
  <1>3. /\ q.who \in Registrations /\ other \in Registrations /\ q.who # other
        /\ Parties(match[m]) = {q.who, other}
        /\ reg[other].status = "VERIFIED"
    BY <1>1, CommitFresh DEF RInv
  <1>4. Ends(p, ms, "DECLINED")
    BY DeclineEnds DEF RInv, SInv, IInv
  <1>5. /\ ms \in MatchTables /\ ~IsActive(ms[m])
        /\ \A n \in MatchIds : n # m => ms[n] = match[n]
    BY <1>4, EndedMatch
  <1>6. \A r \in Registrations :
          reg'[r].status = IF r \in {q.who} THEN "PAUSED" ELSE reg[r].status
    <2>1. reg \in RegistrationTables
      BY DEF RInv, SInv, IInv, TypeInv, TypeOK, RegistrationTables
    <2>2. Pause(reg, q.who) \in RegistrationTables
      BY <1>3, <2>1
      DEF Pause, RegistrationTables, RegistrationRow, RegistrationStatus
    <2>3. reg' = Requeue(Pause(reg, q.who), other, q.other)
      BY DEF CommitDecline
    <2>4. QED
      BY <1>3, <2>1, <2>2, <2>3, RequeuedStatus, RemovedStatus
  <1>7. Propose(other, reg', ms) /\ SamePaid /\ open' = open
    BY DEF CommitDecline, SamePaid, HasPaid
  <1>8. Promise!BreakUp(Couple(match[m]), {q.who}, "PAUSED")
    BY <1>2, <1>3, <1>5, <1>6, <1>7, MatchBreaksUp
  <1>9. ~Promise!Agreed(Couple(match[m]))
    BY <1>2, Agreement DEF IsOpen, OpenStatus
  <1>10. q.who \notin SaidYes
    <2>1. q.who \notin q.row.accepted /\ q.row = match[m]
      BY <1>1, RequestedMatch DEF RInv, DeclinerIsUndecided
    <2>2. match[m].accepted = SaidYes \cap Parties(match[m])
      BY <1>2, ActiveRow
    <2>3. QED
      BY <1>2, <2>1, <2>2
  <1>11. QED
    BY <1>2, <1>8, <1>9, <1>10 DEF Promise!Refuse, Couple, Parties

LEMMA ReportIsAccusation ==
  ASSUME RInv, NEW p \in Procs, CommitReport(p)
  PROVE  Promise!Accuse(Couple(match[req[p].id]), OtherParty(req[p].row, req[p].who))
  <1> DEFINE q == req[p]
             m == q.id
             accused == OtherParty(q.row, q.who)
             ms == SaveCancelled(match, m)
  <1>1. InHandler(p, "report") /\ "report" \in MatchOps
    BY DEF CommitReport, MatchOps
  <1>2. m \in ActiveIn(match) /\ match[m].status = "ACCEPTED"
    BY <1>1, RequestedMatch
  <1>3. /\ q.who \in Registrations /\ accused \in Registrations /\ q.who # accused
        /\ Parties(match[m]) = {q.who, accused}
        /\ reg[q.who].status = "VERIFIED"
    BY <1>1, CommitFresh DEF RInv
  <1>4. Ends(p, ms, "CANCELLED")
    BY ReportEnds DEF RInv, SInv, IInv
  <1>5. /\ ms \in MatchTables /\ ~IsActive(ms[m])
        /\ \A n \in MatchIds : n # m => ms[n] = match[n]
    BY <1>4, EndedMatch
  <1>6. \A r \in Registrations :
          reg'[r].status = IF r \in {accused} THEN "SUSPENDED" ELSE reg[r].status
    <2>1. reg \in RegistrationTables
      BY DEF RInv, SInv, IInv, TypeInv, TypeOK, RegistrationTables
    <2>2. Suspend(reg, accused) \in RegistrationTables
      BY <1>3, <2>1
      DEF Suspend, RegistrationTables, RegistrationRow, RegistrationStatus
    <2>3. reg' = Requeue(Suspend(reg, accused), q.who, q.own)
      BY DEF CommitReport
    <2>4. QED
      BY <1>3, <2>1, <2>2, <2>3, RequeuedStatus, RemovedStatus
  <1>7. Propose(q.who, reg', ms) /\ open' = open
    BY DEF CommitReport
  <1>8. SamePaid
    BY <1>3 DEF CommitReport, Forfeit, SamePaid, HasPaid, RInv, SInv, IInv, TypeInv, TypeOK
  <1>9. Promise!BreakUp(Couple(match[m]), {accused}, "SUSPENDED")
    BY <1>2, <1>3, <1>5, <1>6, <1>7, <1>8, MatchBreaksUp
  <1>10. Promise!Agreed(Couple(match[m]))
    BY <1>2, Agreement
  <1>11. QED
    BY <1>3, <1>9, <1>10 DEF Promise!Accuse, Couple, Parties

LEMMA ExpireIsLapse ==
  ASSUME RInv, NEW p \in Procs, CommitExpire(p)
  PROVE  Promise!Lapse(Couple(match[req[p].id]))
  <1> DEFINE q == req[p]
             m == q.id
             other == OtherParty(q.row, q.who)
             ms == SaveStatus(match, m, "EXPIRED")
             once == Lapsed(reg, q, q.who, q.own)
             silent == Parties(match[m]) \ SaidYes
  <1>1. InHandler(p, "expire") /\ "expire" \in MatchOps
    BY DEF CommitExpire, MatchOps
  <1>2. /\ m \in ActiveIn(match) /\ IsOpen(match[m]) /\ q.row = match[m]
        /\ q.row.accepted = SaidYes \cap Parties(match[m])
    BY <1>1, RequestedMatch, ActiveRow
  <1>3. /\ q.who \in Registrations /\ other \in Registrations /\ q.who # other
        /\ Parties(match[m]) = {q.who, other} /\ q.own \in RegistrationRow
        /\ reg[q.who].status = "VERIFIED" /\ reg[other].status = "VERIFIED"
    BY <1>1, CommitFresh DEF RInv
  <1>4. Ends(p, ms, "EXPIRED")
    BY ExpireEnds DEF RInv, SInv, IInv
  <1>5. /\ ms \in MatchTables /\ ~IsActive(ms[m])
        /\ \A n \in MatchIds : n # m => ms[n] = match[n]
    BY <1>4, EndedMatch
  <1>6. reg' = Lapsed(once, q, other, q.other)
    BY DEF CommitExpire
  <1>7. \A r \in Registrations :
          reg'[r].status = IF r \in silent THEN "PAUSED" ELSE reg[r].status
    <2>1. reg \in RegistrationTables
      BY DEF RInv, SInv, IInv, TypeInv, TypeOK, RegistrationTables
    <2>2. once \in RegistrationTables
      BY <1>3, <2>1, LapsedType
    <2>3. /\ once[q.who].status = IF q.who \in q.row.accepted THEN "VERIFIED" ELSE "PAUSED"
          /\ \A r \in Registrations : r # q.who => once[r].status = reg[r].status
      <3>1. q.who \in Registrations
        BY <1>3
      <3>2. \A r \in Registrations : r # q.who => once[r].status = reg[r].status
        BY <2>1, <3>1 DEF Lapsed, Requeue, Pause, RegistrationTables
      <3>3. /\ q.who \in q.row.accepted => once[q.who].status = "VERIFIED"
            /\ q.who \notin q.row.accepted => once[q.who].status = "PAUSED"
        BY <2>1, <3>1, LapsedStatus
      <3>4. QED
        BY <3>2, <3>3
    <2>4. /\ reg'[other].status = IF other \in q.row.accepted THEN "VERIFIED" ELSE "PAUSED"
          /\ \A r \in Registrations : r # other => reg'[r].status = once[r].status
      <3> SUFFICES ASSUME NEW r \in Registrations
                   PROVE  /\ r # other => reg'[r].status = once[r].status
                          /\ r = other => reg'[r].status =
                               IF other \in q.row.accepted THEN "VERIFIED" ELSE "PAUSED"
        BY <1>3
      <3>1. other \in Registrations
        BY <1>3
      <3> HIDE DEF q, other, once
      <3>2. QED
        BY <1>6, <2>2, <3>1, LapsedStatus
    <2>5. /\ q.who \in silent <=> q.who \notin q.row.accepted
          /\ other \in silent <=> other \notin q.row.accepted
          /\ \A r : r \notin {q.who, other} => r \notin silent
      BY <1>2, <1>3
    <2> HIDE DEF silent, once
    <2>6. \A r \in Registrations : r \notin {q.who, other} =>
            reg'[r].status = IF r \in silent THEN "PAUSED" ELSE reg[r].status
      BY <1>3, <2>3, <2>4, <2>5
    <2>7. reg'[q.who].status = IF q.who \in silent THEN "PAUSED" ELSE reg[q.who].status
      BY <1>3, <2>3, <2>4, <2>5
    <2>8. reg'[other].status = IF other \in silent THEN "PAUSED" ELSE reg[other].status
      BY <1>3, <2>3, <2>4, <2>5
    <2>9. QED
      BY <2>6, <2>7, <2>8
  <1>8. match' = ms \/ \E r \in Parties(match[m]) \ silent : Propose(r, reg', ms)
    <2>1. \/ match' = ms
          \/ q.who \in q.row.accepted /\ Propose(q.who, reg', ms)
          \/ other \in q.row.accepted /\ Propose(other, reg', ms)
      BY DEF CommitExpire
    <2>2. QED
      BY <1>2, <1>3, <2>1
  <1>9. SamePaid /\ open' = open
    BY DEF CommitExpire, SamePaid, HasPaid
  <1>10. Promise!BreakUp(Couple(match[m]), silent, "PAUSED")
    BY <1>2, <1>5, <1>7, <1>8, <1>9, MatchBreaksUp
  <1>11. ~Promise!Agreed(Couple(match[m]))
    BY <1>2, Agreement DEF IsOpen, OpenStatus
  <1>12. QED
    BY <1>10, <1>11 DEF Promise!Lapse, Couple, Parties

(* Coming in, coming back, and being drained, may pair at once. *)
LEMMA EntranceMayPair ==
  ASSUME RInv, NEW r \in Registrations, Propose(r, reg', match), open' = open,
         NEW st, StandsAt' = st
  PROVE  Promise!Enter(r, st)
  <1>1. match \in MatchTables
    BY DEF RInv, SInv, IInv, TypeInv, TypeOK, MatchTables
  <1>2. /\ Promise!MayPair(r, StandsAt', CoupledIn(match))
        /\ SaidYes' = YesIn(match)
    BY <1>1, ProposalPairs
  <1>3. Promise!MayPair(r, st, Coupled) /\ SaidYes' = SaidYes
    BY <1>2, MappedTables
  <1>4. [x \in Registrations |-> reg'[x].status] = st
    BY DEF StandsAt
  <1>5. QED
    BY <1>3, <1>4 DEF Promise!Enter

Admitted(r) == [StandsAt EXCEPT ![r] = "VERIFIED"]

LEMMA Confirmed ==
  ASSUME RInv, NEW r \in Registrations, reg' = [reg EXCEPT ![r].status = "VERIFIED"]
  PROVE  StandsAt' = Admitted(r)
  BY DEF Admitted, StandsAt, RInv, SInv, IInv, TypeInv, TypeOK, RegistrationRow

(* A registration request, on the registration its process has fetched. *)
LEMMA RegistrationRequested ==
  ASSUME RInv, NEW p \in Procs, NEW op \in RegistrationOps, InHandler(p, op)
  PROVE  LET q == req[p]
         IN  /\ q.who \in Registrations
             /\ op = "confirm" => reg[q.who].status = "UNVERIFIED" /\ q.who \notin PaidTier
             /\ op = "rejoin" => reg[q.who].status = "PAUSED"
             /\ op = "propose" => reg[q.who].status = "VERIFIED"
  <1>1. req[p] # Idle /\ req[p].op = op
    BY DEF InHandler
  <1>2. req[p].who \in Registrations
    BY <1>1, RequestType DEF RInv, SInv, IInv, TypeInv
  <1>3. QED
    BY <1>1, <1>2
    DEF RInv, SInv, SerialInv, RowsFresh, IInv, TypeInv, RequestsHold, RequestHolds

LEMMA ConfirmIsJoin ==
  ASSUME RInv, NEW p \in Procs, CommitConfirm(p)
  PROVE  Promise!Join(req[p].who)
  <1> DEFINE r == req[p].who
  <1>1. r \in Registrations /\ reg[r].status = "UNVERIFIED" /\ r \notin PaidTier
    BY RegistrationRequested DEF CommitConfirm, RegistrationOps
  <1>2. reg' = [reg EXCEPT ![r].status = "VERIFIED"]
    BY DEF CommitConfirm
  <1>3. Propose(r, reg', match) /\ open' = open /\ deposit' = deposit
    BY DEF CommitConfirm
  <1>4. Promise!Enter(r, Admitted(r))
    <2>1. StandsAt' = Admitted(r)
      BY <1>1, <1>2, Confirmed
    <2>2. QED
      BY <1>1, <1>3, <2>1, EntranceMayPair
  <1>5. QED
    BY <1>1, <1>3, <1>4 DEF Promise!Join, Admitted, StandsAt, HasPaid

LEMMA RejoinIsRejoin ==
  ASSUME RInv, NEW p \in Procs, CommitRejoin(p)
  PROVE  Promise!Rejoin(req[p].who)
  <1> DEFINE r == req[p].who
  <1>1. r \in Registrations /\ reg[r].status = "PAUSED"
    BY RegistrationRequested DEF CommitRejoin, RegistrationOps
  <1>2. reg' = [reg EXCEPT ![r] = [status |-> "VERIFIED",
                                   priority |-> req[p].own.priority - 1]]
    BY DEF CommitRejoin
  <1>3. Propose(r, reg', match) /\ open' = open /\ deposit' = deposit
    BY DEF CommitRejoin
  <1>4. StandsAt' = Admitted(r)
    BY <1>1, <1>2 DEF Admitted, StandsAt, RInv, SInv, IInv, TypeInv, TypeOK, RegistrationRow
  <1>5. Promise!Enter(r, Admitted(r))
    BY <1>1, <1>4, <1>3, EntranceMayPair
  <1>6. ActiveFor(match, r) = {}
    BY <1>1 DEF RInv, SInv, ActivePartiesVerified, ActiveFor, Created
  <1>7. ~Promise!InPair(Coupled, r)
    BY <1>6, AloneIn, MappedTables
  <1>8. QED
    BY <1>1, <1>5, <1>7, <1>3 DEF Promise!Rejoin, Admitted, StandsAt, HasPaid

LEMMA DrainIsDrain ==
  ASSUME RInv, NEW p \in Procs, CommitDrain(p)
  PROVE  Promise!Drain(req[p].who)
  <1> DEFINE r == req[p].who
  <1>1. r \in Registrations /\ reg[r].status = "VERIFIED"
    BY RegistrationRequested DEF CommitDrain, RegistrationOps
  <1>2. reg' = reg /\ Propose(r, reg', match) /\ open' = open /\ deposit' = deposit
    BY DEF CommitDrain
  <1>3. Promise!Enter(r, StandsAt)
    <2>1. StandsAt' = StandsAt
      BY <1>2 DEF StandsAt
    <2>2. QED
      BY <1>1, <1>2, <2>1, EntranceMayPair
  <1>4. QED
    BY <1>1, <1>2, <1>3 DEF Promise!Drain, StandsAt, HasPaid

LEMMA FinalizeIsPay ==
  ASSUME RInv, NEW p \in Procs, NEW r \in Registrations, FinalizePaid(p, r)
  PROVE  Promise!Pay(r)
  <1>1. /\ r \in PaidTier /\ deposit[r] = "NONE" /\ open' = open
        /\ deposit' = [deposit EXCEPT ![r] = "HELD"]
    BY DEF FinalizePaid
  <1>2. reg[r].status = "UNVERIFIED"
    BY <1>1 DEF RInv, SInv, IInv, DepositsInHand
  <1>3. reg' = [reg EXCEPT ![r].status = "VERIFIED"]
    BY <1>2 DEF FinalizePaid
  <1>4. Promise!Enter(r, Admitted(r))
    <2>1. Propose(r, reg', match)
      BY <1>2 DEF FinalizePaid
    <2>2. StandsAt' = Admitted(r)
      BY <1>3, Confirmed
    <2>3. QED
      BY <1>1, <2>1, <2>2, EntranceMayPair
  <1>5. r \notin HasPaid /\ HasPaid' = HasPaid \cup {r}
    BY <1>1 DEF HasPaid, RInv, SInv, IInv, TypeInv, TypeOK
  <1>6. QED
    BY <1>1, <1>2, <1>4, <1>5 DEF Promise!Pay, Admitted, StandsAt, HasPaid

-----------------------------------------------------------------------------
(* The refinement *)

LEMMA InitialPromise ==
  ASSUME Init PROVE Promise!PInit
  <1>1. ActiveIn(match) = {}
    BY DEF Init, ActiveIn
  <1>2. Coupled = {} /\ SaidYes = {}
    BY <1>1, MappedTables DEF CoupledIn, YesIn
  <1>3. QED
    BY <1>2 DEF Init, Promise!PInit, Promise!People, Registrations, StandsAt, HasPaid

LEMMA CommitPromise ==
  ASSUME RInv, NEW p \in Procs, Commit(p)
  PROVE  Promise!PNext \/ UNCHANGED <<reg, match, deposit, open>>
  <1> DEFINE m == req[p].id
             r == req[p].who
             other == OtherParty(req[p].row, r)
  <1>1. CASE Rollback(p)
    BY <1>1 DEF Rollback
  <1>2. ASSUME NEW op \in MatchOps, InHandler(p, op)
        PROVE  /\ Couple(match[m]) \in Coupled
               /\ r \in Promise!People /\ other \in Promise!People
    <2>1. m \in ActiveIn(match)
      BY <1>2, RequestedMatch
    <2>2. r \in Registrations /\ other \in Registrations
      BY <1>2, CommitFresh DEF RInv
    <2>3. QED
      BY <2>1, <2>2, ActiveRow DEF Promise!People, Registrations
  <1>3. CASE CommitAccept(p) \/ CommitWithdraw(p)
    <2>1. InHandler(p, "accept") \/ InHandler(p, "withdraw")
      BY <1>3 DEF CommitAccept, CommitWithdraw
    <2>2. Couple(match[m]) \in Coupled /\ r \in Promise!People
      BY <1>2, <2>1 DEF MatchOps
    <2>3. Promise!SayYes(r) \/ Promise!TakeBack(Couple(match[m]), r)
      BY <1>3, AcceptIsYes, WithdrawIsBack
    <2>4. QED
      BY <2>2, <2>3 DEF Promise!PNext
  <1>4. CASE CommitDecline(p) \/ CommitExpire(p) \/ CommitReport(p)
    <2>1. InHandler(p, "decline") \/ InHandler(p, "expire") \/ InHandler(p, "report")
      BY <1>4 DEF CommitDecline, CommitExpire, CommitReport
    <2>2. /\ Couple(match[m]) \in Coupled
          /\ r \in Promise!People /\ other \in Promise!People
      BY <1>2, <2>1 DEF MatchOps
    <2>3. /\ CommitDecline(p) => Promise!Refuse(Couple(match[m]), r)
          /\ CommitExpire(p) => Promise!Lapse(Couple(match[m]))
          /\ CommitReport(p) => Promise!Accuse(Couple(match[m]), other)
      BY DeclineIsRefusal, ExpireIsLapse, ReportIsAccusation
    <2>4. CASE CommitDecline(p)
      BY <2>2, <2>3, <2>4 DEF Promise!PNext
    <2>5. CASE CommitExpire(p)
      BY <2>2, <2>3, <2>5 DEF Promise!PNext
    <2>6. CASE CommitReport(p)
      BY <2>2, <2>3, <2>6 DEF Promise!PNext
    <2>7. QED
      BY <1>4, <2>4, <2>5, <2>6
  <1>5. CASE CommitConfirm(p) \/ CommitRejoin(p) \/ CommitDrain(p)
    <2>1. InHandler(p, "confirm") \/ InHandler(p, "rejoin") \/ InHandler(p, "propose")
      BY <1>5 DEF CommitConfirm, CommitRejoin, CommitDrain
    <2>2. r \in Promise!People
      BY <2>1, RegistrationRequested DEF RegistrationOps, Promise!People, Registrations
    <2>3. Promise!Join(r) \/ Promise!Rejoin(r) \/ Promise!Drain(r)
      BY <1>5, ConfirmIsJoin, RejoinIsRejoin, DrainIsDrain
    <2>4. ASSUME Promise!Join(r) PROVE Promise!PNext
      BY <2>2, <2>4 DEF Promise!PNext
    <2>5. ASSUME Promise!Rejoin(r) PROVE Promise!PNext
      BY <2>2, <2>5 DEF Promise!PNext
    <2>6. ASSUME Promise!Drain(r) PROVE Promise!PNext
      BY <2>2, <2>6 DEF Promise!PNext
    <2>7. QED
      BY <2>3, <2>4, <2>5, <2>6
  <1>6. QED
    BY <1>1, <1>3, <1>4, <1>5 DEF Commit

LEMMA StepPromise ==
  ASSUME RInv, [Next]_vars PROVE [Promise!PNext]_(Promise!pvars)
  <1>1. ASSUME UNCHANGED <<reg, match, deposit, open>>
        PROVE  UNCHANGED Promise!pvars
    <2>1. Coupled' = Coupled /\ SaidYes' = SaidYes
      BY <1>1, MappedTables, MappedTablesNext
    <2>2. QED
      BY <1>1, <2>1 DEF Promise!pvars, StandsAt, HasPaid
  <1>2. ASSUME NEW p \in Procs, Fetch(p) PROVE UNCHANGED Promise!pvars
    BY <1>1, <1>2, FetchFrame
  <1>3. ASSUME NEW p \in Procs, Commit(p) PROVE [Promise!PNext]_(Promise!pvars)
    BY <1>1, <1>3, CommitPromise
  <1>4. ASSUME NEW p \in Procs, NEW r \in Registrations, FinalizePaid(p, r)
        PROVE  Promise!PNext
    BY <1>4, FinalizeIsPay DEF Promise!PNext, Promise!People, Registrations
  <1>5. CASE OpenMatching
    <2>1. Promise!Open
      <3>1. Coupled' = Coupled /\ SaidYes' = SaidYes
        BY <1>5, MappedTables, MappedTablesNext DEF OpenMatching
      <3>2. QED
        BY <1>5, <3>1 DEF OpenMatching, Promise!Open, StandsAt, HasPaid
    <2>2. QED
      BY <2>1 DEF Promise!PNext
  <1>6. CASE (\E m \in MatchIds : Lapse(m)) \/ UNCHANGED vars
    BY <1>1, <1>6 DEF Lapse, vars
  <1>7. ASSUME NEW r \in Registrations, Refund(r) PROVE UNCHANGED Promise!pvars
    <2>1. UNCHANGED <<reg, match, open>>
      BY <1>7 DEF Refund
    <2>2. Coupled' = Coupled /\ SaidYes' = SaidYes
      BY <2>1, MappedTables, MappedTablesNext
    <2>3. deposit \in [Registrations -> PaymentStatus]
      BY DEF RInv, SInv, IInv, TypeInv, TypeOK
    <2>4. HasPaid' = HasPaid
      BY <1>7, <2>3 DEF Refund, HasPaid
    <2>5. QED
      BY <2>1, <2>2, <2>4 DEF Promise!pvars, StandsAt
  <1>8. QED
    BY <1>2, <1>3, <1>4, <1>5, <1>6, <1>7 DEF Next

(* Handlers one after the other, whatever the registrations, their roles,
   passes, places and deposits: what the participants see happen is a
   behaviour of Pairing. *)
THEOREM PairingIsImplemented ==
  ASSUME OneAtATime PROVE Spec => ImplementsPairing
  <1>1. Init => Promise!PInit
    BY InitialPromise
  <1>2. RInv /\ [Next]_vars => [Promise!PNext]_(Promise!pvars)
    BY StepPromise
  <1>3. QED
    BY <1>1, <1>2, RefinementInvariance, PTL DEF Spec, ImplementsPairing, Promise!PSpec

=============================================================================
