----------------------------- MODULE ProposeLocks -----------------------------
(***************************************************************************)
(* propose_match statement by statement, as Postgres runs it at READ       *)
(* COMMITTED.  Each SELECT reads the tables as they are committed when it  *)
(* starts, plus the transaction's own writes.  A SELECT ... FOR UPDATE     *)
(* LIMIT 1 then locks the first row of that snapshot, waiting for whoever  *)
(* holds it.  Once it has the lock it checks the row itself again (its     *)
(* status), but not the NOT EXISTS subquery, which still speaks of the     *)
(* snapshot: so it may return a row that was matched while it waited.      *)
(*                                                                         *)
(* Matching treats propose_match as one step; this module is about what    *)
(* its locks make of that when several transactions propose at once.  It   *)
(* keeps the three kinds of caller that differ in the rows they lock:      *)
(* confirm_registration, run_matching and decline_match.                   *)
(***************************************************************************)
EXTENDS Integers, Sequences, FiniteSets

CONSTANTS
  Ambassadors, Referees,
  ScanOrder,   \* the order in which an unordered SELECT meets the rows
  RankOrder,   \* the order of _rank_candidates
  MatchIds,    \* bound: the primary keys of the matches that may be created
  Procs,       \* gunicorn workers and crons
  NoMatch,     \* no match row
  Free,        \* a row nobody holds
  Idle         \* a process in no transaction

Registrations == Ambassadors \cup Referees
Rows == Registrations \cup MatchIds
Status == {"UNVERIFIED", "VERIFIED", "PAUSED"}
Ops == {"confirm", "drain", "decline"}
Steps == {"check", "exists", "exists_lock", "rank", "rank_lock", "create"}
MatchRow == [amb : Ambassadors, ref : Referees, by : Registrations,
             active : BOOLEAN]

\* todo: the rows still to be updated or locked before the proposal starts;
\* pool: the candidates of the running SELECT that it has not given up.
Transaction == [op : Ops, who : Registrations, todo : Seq(Rows), step : Steps,
                match : MatchIds \cup {NoMatch}, decliner : Registrations,
                pool : SUBSET Registrations]

ASSUME RolesDisjoint == Ambassadors \cap Referees = {}
ASSUME OrdersAssumption ==
  /\ ScanOrder \in [Registrations -> Nat]
  /\ RankOrder \in [Registrations -> Nat]
ASSUME RowsAssumption == MatchIds \subseteq Nat /\ Registrations \cap MatchIds = {}
ASSUME NullsAssumption ==
  /\ NoMatch \notin MatchRow \cup MatchIds
  /\ Free \notin Procs
  /\ Idle \notin Transaction

VARIABLES
  status,  \* [Registrations -> Status], as committed
  match,   \* [MatchIds -> MatchRow or NoMatch], as committed
  lock,    \* [Rows -> the process that holds the row, or Free]
  tx       \* [Procs -> Transaction or Idle]

vars == <<status, match, lock, tx>>

-----------------------------------------------------------------------------
Party(row, r) == r \in {row.amb, row.ref}
ActiveFor(ms, r) ==
  {m \in MatchIds : ms[m] # NoMatch /\ ms[m].active /\ Party(ms[m], r)}
Counterparts(r) == IF r \in Ambassadors THEN Referees ELSE Ambassadors
FreeIds(ms) == {m \in MatchIds : ms[m] = NoMatch}

(* What the statements of p's transaction read: the committed tables and its
   own writes. *)
StatusSeen(p) ==
  LET t == tx[p]
  IN  CASE t.op = "confirm" -> [status EXCEPT ![t.who] = "VERIFIED"]
        [] t.op = "decline" -> [status EXCEPT ![t.decliner] = "PAUSED",
                                              ![t.who] = "VERIFIED"]
        [] OTHER -> status

MatchesSeen(p) ==
  IF tx[p].op = "decline" THEN [match EXCEPT ![tx[p].match].active = FALSE]
                          ELSE match

\* mutant: the candidates are not filtered by status
Whatever(p, c) == TRUE
Verified(p, c) == StatusSeen(p)[c] = "VERIFIED"

Pool(p) ==
  {c \in Counterparts(tx[p].who) : Verified(p, c) /\ ActiveFor(MatchesSeen(p), c) = {}}

First(order, rows) == CHOOSE c \in rows : \A d \in rows : order[c] <= order[d]

Order(p) == IF tx[p].step = "exists_lock" THEN ScanOrder ELSE RankOrder

(* The row p has to lock before it can go on. *)
Needs(p) ==
  IF tx[p].todo # <<>> THEN Head(tx[p].todo) ELSE First(Order(p), tx[p].pool)
Waits(p) ==
  /\ tx[p] # Idle
  /\ tx[p].todo # <<>> \/ tx[p].step \in {"exists_lock", "rank_lock"}

-----------------------------------------------------------------------------
(* The callers.  What they decide from the row in memory is decided here. *)

Start(p, op, who, todo, m, decliner) ==
  /\ tx[p] = Idle
  /\ Cardinality({q \in Procs : tx[q] # Idle}) < Cardinality(FreeIds(match))
  /\ tx' = [tx EXCEPT ![p] = [op |-> op, who |-> who, todo |-> todo,
                              step |-> "check", match |-> m,
                              decliner |-> decliner, pool |-> {}]]
  /\ UNCHANGED <<status, match, lock>>

Confirm(p, r) ==
  status[r] = "UNVERIFIED" /\ Start(p, "confirm", r, <<r>>, NoMatch, r)

Drain(p, r) ==
  /\ r \in Ambassadors
  /\ status[r] = "VERIFIED"
  /\ Start(p, "drain", r, <<r>>, NoMatch, r)

(* The match row is saved first, then the decliner, then the other party. *)
Decline(p, m, r) ==
  LET other == IF r = match[m].amb THEN match[m].ref ELSE match[m].amb
  IN  /\ match[m] # NoMatch
      /\ match[m].active
      /\ Party(match[m], r)
      /\ status[r] = "VERIFIED"
      /\ Start(p, "decline", other, <<m, r, other>>, m, r)

-----------------------------------------------------------------------------
(* The statements. *)

(* An UPDATE, or the proposer's own SELECT ... FOR UPDATE. *)
LockNext(p) ==
  /\ tx[p] # Idle
  /\ tx[p].todo # <<>>
  /\ lock[Head(tx[p].todo)] \in {Free, p}
  /\ lock' = [lock EXCEPT ![Head(tx[p].todo)] = p]
  /\ tx' = [tx EXCEPT ![p].todo = Tail(@)]
  /\ UNCHANGED <<status, match>>

At(p, step) == tx[p] # Idle /\ tx[p].todo = <<>> /\ tx[p].step = step

GoTo(p, step, pool) ==
  /\ tx' = [tx EXCEPT ![p].step = step, ![p].pool = pool]
  /\ UNCHANGED <<status, match, lock>>

(* Commit, with the matches ms. *)
End(p, ms) ==
  /\ status' = StatusSeen(p)
  /\ match' = ms
  /\ lock' = [row \in Rows |-> IF lock[row] = p THEN Free ELSE lock[row]]
  /\ tx' = [tx EXCEPT ![p] = Idle]

\* mutant: the proposer's active match is not looked for
CheckNothing(p) == At(p, "check") /\ GoTo(p, "exists", {})
CheckActive(p) ==
  /\ At(p, "check")
  /\ IF ActiveFor(MatchesSeen(p), tx[p].who) # {}
       THEN End(p, MatchesSeen(p))
       ELSE GoTo(p, "exists", {})

Select(p, step) ==
  /\ At(p, step)
  /\ IF Pool(p) = {}
       THEN End(p, MatchesSeen(p))
       ELSE GoTo(p, IF step = "exists" THEN "exists_lock" ELSE "rank_lock", Pool(p))

(* The row is returned if it still is VERIFIED; otherwise the next one. *)
LockCandidate(p, step, next) ==
  LET c == First(Order(p), tx[p].pool)
  IN  /\ At(p, step)
      /\ lock[c] \in {Free, p}
      /\ IF Verified(p, c)
           THEN /\ lock' = [lock EXCEPT ![c] = p]
                /\ tx' = [tx EXCEPT ![p].step = next, ![p].pool = {c}]
                /\ UNCHANGED <<status, match>>
           ELSE IF tx[p].pool = {c} THEN End(p, MatchesSeen(p))
                                    ELSE GoTo(p, step, tx[p].pool \ {c})

SelectExists(p) == Select(p, "exists")
LockExisting(p) == LockCandidate(p, "exists_lock", "rank")
SelectRanked(p) == Select(p, "rank")
LockRanked(p) == LockCandidate(p, "rank_lock", "create")

\* mutant: the proposer takes the ambassador's side, whatever its role
NewMatchByProposer(r, c) == [amb |-> r, ref |-> c, by |-> r, active |-> TRUE]
NewMatch(r, c) ==
  [amb |-> IF r \in Ambassadors THEN r ELSE c,
   ref |-> IF r \in Ambassadors THEN c ELSE r, by |-> r, active |-> TRUE]

(* The counterpart is what the last SELECT left in the pool.  A transaction
   starts only while there is a MatchId left for it (bound). *)
Create(p) ==
  /\ At(p, "create")
  /\ \E c \in tx[p].pool, m \in FreeIds(match) :
       /\ \A n \in FreeIds(match) : m <= n
       /\ End(p, [MatchesSeen(p) EXCEPT ![m] = NewMatch(tx[p].who, c)])

\* mutant: nothing breaks a circle of waiting transactions
AbortNever(p) == FALSE
(* Postgres rolls back one of the transactions that wait for one another in a
   circle.  Nothing it did remains: run_matching counts it as failed and goes
   on, a request ends in an error. *)
Abort(p) ==
  /\ \E S \in SUBSET Procs :
       p \in S /\ \A q \in S : Waits(q) /\ lock[Needs(q)] \in S \ {q}
  /\ lock' = [row \in Rows |-> IF lock[row] = p THEN Free ELSE lock[row]]
  /\ tx' = [tx EXCEPT ![p] = Idle]
  /\ UNCHANGED <<status, match>>

-----------------------------------------------------------------------------
Init ==
  /\ status \in [Registrations -> {"UNVERIFIED", "VERIFIED"}]
  /\ match = [m \in MatchIds |-> NoMatch]
  /\ lock = [row \in Rows |-> Free]
  /\ tx = [p \in Procs |-> Idle]

Call(p) ==
  \/ \E r \in Registrations : Confirm(p, r) \/ Drain(p, r)
  \/ \E m \in MatchIds, r \in Registrations : Decline(p, m, r)

Statement(p) ==
  \/ LockNext(p)
  \/ CheckActive(p)
  \/ SelectExists(p)
  \/ LockExisting(p)
  \/ SelectRanked(p)
  \/ LockRanked(p)
  \/ Create(p)
  \/ Abort(p)

Next == \E p \in Procs : Call(p) \/ Statement(p)

Spec == Init /\ [][Next]_vars

(* A transaction goes on with its statements, and is not overtaken for ever in
   the queue for a row lock. *)
FairSpec == Spec /\ \A p \in Procs : SF_vars(Statement(p))

-----------------------------------------------------------------------------
(* Properties *)

TypeOK ==
  /\ status \in [Registrations -> Status]
  /\ match \in [MatchIds -> MatchRow \cup {NoMatch}]
  /\ lock \in [Rows -> Procs \cup {Free}]
  /\ tx \in [Procs -> Transaction \cup {Idle}]

(* Several callers that propose for the same registration at once create one
   match for it, not two. *)
ProposerOnce ==
  \A m, n \in MatchIds :
    /\ match[m] # NoMatch /\ match[m].active
    /\ match[n] # NoMatch /\ match[n].active
    /\ match[m].by = match[n].by
    => m = n

(* No two transactions create two active matches for one registration. *)
OneActiveMatch ==
  \A r \in Registrations : \A m, n \in ActiveFor(match, r) : m = n

(* The counterpart of a new match is VERIFIED when the match is committed,
   though its row was read earlier. *)
CounterpartVerified ==
  [][\A m \in FreeIds(match) : match'[m] # NoMatch =>
       LET c == IF match'[m].by = match'[m].amb THEN match'[m].ref
                                                ELSE match'[m].amb
       IN  status'[c] = "VERIFIED"]_vars

(* Every transaction that proposes comes to an end, whatever rows the others
   hold. *)
EveryCallEnds == \A p \in Procs : tx[p] # Idle ~> tx[p] = Idle

=============================================================================
