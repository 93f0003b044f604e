-------------------------- MODULE ProposeLocksProofs --------------------------
(***************************************************************************)
(* Theorems about ProposeLocks, for any registrations, matches and         *)
(* processes.                                                              *)
(***************************************************************************)
EXTENDS ProposeLocks, TLAPS, WellFoundedInduction

(* A transaction holds what it has updated.  Once it has begun to propose it
   holds its own row, and nobody else can make a match for it; the candidate it
   has locked stays VERIFIED until it commits. *)
TxHolds(p, t) ==
  /\ t.op = "decline" =>
       /\ t.match \in MatchIds /\ match[t.match] # NoMatch
       /\ t.todo \in {<<t.match, t.decliner, t.who>>, <<t.decliner, t.who>>,
                      <<t.who>>, <<>>}
       /\ t.todo \in {<<t.who>>, <<>>} => lock[t.decliner] = p
  /\ t.op # "decline" => t.todo \in {<<t.who>>, <<>>}
  /\ t.todo = <<>> => lock[t.who] = p
  /\ t.step # "check" =>
       /\ t.todo = <<>>
       /\ \A n \in MatchIds :
            match[n] # NoMatch /\ match[n].active /\ match[n].by = t.who =>
              t.op = "decline" /\ n = t.match
  /\ t.step \in {"exists_lock", "rank_lock"} =>
       t.pool # {} /\ t.pool \subseteq Counterparts(t.who)
  /\ t.step = "create" =>
       \E c \in Counterparts(t.who) :
         t.pool = {c} /\ lock[c] = p /\ StatusSeen(p)[c] = "VERIFIED"

TxsHold == \A p \in Procs : tx[p] # Idle => TxHolds(p, tx[p])
ByAParty == \A m \in MatchIds : match[m] # NoMatch => Party(match[m], match[m].by)

LInv == TypeOK /\ TxsHold /\ ByAParty /\ ProposerOnce

(* What a step of p leaves alone. *)
Respects(p) ==
  /\ \A q \in Procs \ {p} :
       tx'[q] = tx[q] /\ \A x \in Rows : lock[x] = q => lock'[x] = q
  /\ \A n \in MatchIds : match[n] # NoMatch =>
       /\ match'[n] # NoMatch
       /\ match'[n].by = match[n].by
       /\ match'[n].active => match[n].active
  /\ \A n \in MatchIds :
       match[n] = NoMatch /\ match'[n] # NoMatch => lock[match'[n].by] = p
  /\ \A x \in Registrations : status'[x] # status[x] => lock[x] = p

-----------------------------------------------------------------------------
(* The lemmas. *)

(* The first row of a non-empty set is one of its rows. *)
LEMMA FirstIn ==
  ASSUME NEW order \in [Registrations -> Nat],
         NEW rows \in SUBSET Registrations, rows # {}
  PROVE  First(order, rows) \in rows
<1> DEFINE T == {order[c] : c \in rows}
<1>1. T \subseteq Nat /\ T # {}
  OBVIOUS
<1>2. \E x \in T : \A y \in T : ~ (<<y, x>> \in OpToRel(<, Nat))
  BY <1>1, NatLessThanWellFounded, WFMin, Zenon
<1>3. PICK c \in rows : \A d \in rows : ~ (<<order[d], order[c]>> \in OpToRel(<, Nat))
  BY <1>2
<1>4. \A x, y \in Nat : x < y => <<x, y>> \in OpToRel(<, Nat)
  BY DEF OpToRel
<1>5. \A d \in rows : order[c] \in Nat /\ order[d] \in Nat /\ ~ (order[d] < order[c])
  BY <1>3, <1>4
<1>6. \A d \in rows : order[c] <= order[d]
  BY <1>5
<1> QED
  BY <1>6 DEF First

(* A transaction in memory is typed and keeps its promises. *)
LEMMA Running ==
  ASSUME LInv, NEW p \in Procs, tx[p] # Idle
  PROVE  /\ tx[p] \in Transaction
         /\ TxHolds(p, tx[p])
         /\ tx[p].op \in Ops /\ tx[p].who \in Registrations
         /\ tx[p].todo \in Seq(Rows) /\ tx[p].step \in Steps
         /\ tx[p].match \in MatchIds \cup {NoMatch}
         /\ tx[p].decliner \in Registrations
         /\ tx[p].pool \in SUBSET Registrations
<1>1. PICK t \in Transaction : tx[p] = t
  BY DEF LInv, TypeOK
<1>2. TxHolds(p, tx[p])
  BY DEF LInv, TxsHold
<1> QED
  BY <1>1, <1>2 DEF Transaction

(* What a transaction sees of the registrations differs from the committed
   table only in rows it holds. *)
LEMMA StatusSeenHeld ==
  ASSUME LInv, NEW p \in Procs, tx[p] # Idle, tx[p].todo = <<>>
  PROVE  /\ StatusSeen(p) \in [Registrations -> Status]
         /\ \A x \in Registrations : StatusSeen(p)[x] # status[x] => lock[x] = p
<1>1. status \in [Registrations -> Status]
  BY DEF LInv, TypeOK
<1>2. tx[p].who \in Registrations /\ tx[p].decliner \in Registrations /\ tx[p].op \in Ops
  BY Running
<1>3. lock[tx[p].who] = p /\ (tx[p].op = "decline" => lock[tx[p].decliner] = p)
  BY Running DEF TxHolds
<1>4. CASE tx[p].op = "confirm"
  BY <1>1, <1>2, <1>3, <1>4 DEF StatusSeen, Status
<1>5. CASE tx[p].op = "decline"
  BY <1>1, <1>2, <1>3, <1>5 DEF StatusSeen, Status
<1>6. CASE tx[p].op = "drain"
  BY <1>1, <1>2, <1>3, <1>6 DEF StatusSeen, Status
<1> QED
  BY <1>2, <1>4, <1>5, <1>6 DEF Ops

(* What it sees of the matches differs only in the match it declines, which is
   no longer active. *)
LEMMA MatchesSeenIs ==
  ASSUME LInv, NEW p \in Procs, tx[p] # Idle
  PROVE  /\ MatchesSeen(p) \in [MatchIds -> MatchRow \cup {NoMatch}]
         /\ \A n \in MatchIds :
              /\ MatchesSeen(p)[n] = NoMatch <=> match[n] = NoMatch
              /\ match[n] # NoMatch =>
                   /\ MatchesSeen(p)[n].by = match[n].by
                   /\ MatchesSeen(p)[n].amb = match[n].amb
                   /\ MatchesSeen(p)[n].ref = match[n].ref
                   /\ MatchesSeen(p)[n].active => match[n].active
         /\ tx[p].op = "decline" => ~ MatchesSeen(p)[tx[p].match].active
         /\ \A n \in MatchIds :
              ~ (tx[p].op = "decline" /\ n = tx[p].match) => MatchesSeen(p)[n] = match[n]
<1>1. match \in [MatchIds -> MatchRow \cup {NoMatch}]
  BY DEF LInv, TypeOK
<1>2. CASE tx[p].op = "decline"
  <2> DEFINE d == tx[p].match
  <2>1. d \in MatchIds /\ match[d] # NoMatch
    BY <1>2, Running DEF TxHolds
  <2>2. PICK row \in MatchRow : match[d] = row
    BY <1>1, <2>1
  <2>3. MatchesSeen(p) = [match EXCEPT ![d] = [row EXCEPT !.active = FALSE]]
    BY <1>2, <2>2 DEF MatchesSeen
  <2>4. /\ [row EXCEPT !.active = FALSE] \in MatchRow
        /\ [row EXCEPT !.active = FALSE].by = row.by
        /\ [row EXCEPT !.active = FALSE].amb = row.amb
        /\ [row EXCEPT !.active = FALSE].ref = row.ref
        /\ [row EXCEPT !.active = FALSE].active = FALSE
    BY DEF MatchRow
  <2> HIDE DEF d
  <2>5. [row EXCEPT !.active = FALSE] # NoMatch
    BY <2>4, NullsAssumption
  <2>6. \A n \in MatchIds : MatchesSeen(p)[n] =
          IF n = d THEN [row EXCEPT !.active = FALSE] ELSE match[n]
    BY <1>1, <2>1, <2>3
  <2>7. MatchesSeen(p) \in [MatchIds -> MatchRow \cup {NoMatch}]
    BY <1>1, <2>1, <2>3, <2>4
  <2>8. \A n \in MatchIds : n # d => MatchesSeen(p)[n] = match[n]
    BY <2>6
  <2>9. /\ MatchesSeen(p)[d] = [row EXCEPT !.active = FALSE]
        /\ MatchesSeen(p)[d] # NoMatch
        /\ ~ MatchesSeen(p)[d].active
    BY <2>1, <2>4, <2>5, <2>6
  <2>10. ASSUME NEW n \in MatchIds
         PROVE  /\ MatchesSeen(p)[n] = NoMatch <=> match[n] = NoMatch
                /\ match[n] # NoMatch =>
                     /\ MatchesSeen(p)[n].by = match[n].by
                     /\ MatchesSeen(p)[n].amb = match[n].amb
                     /\ MatchesSeen(p)[n].ref = match[n].ref
                     /\ MatchesSeen(p)[n].active => match[n].active
    <3>1. CASE n = d
      BY <2>1, <2>2, <2>4, <2>9, <3>1
    <3>2. CASE n # d
      BY <2>8, <3>2
    <3> QED
      BY <3>1, <3>2
  <2>11. tx[p].match = d
    BY DEF d
  <2> QED
    BY <1>2, <2>7, <2>8, <2>9, <2>10, <2>11
<1>3. CASE tx[p].op # "decline"
  BY <1>1, <1>3 DEF MatchesSeen
<1> QED
  BY <1>2, <1>3

(* Respects(p) is what the other transactions need. *)
LEMMA OthersHold ==
  ASSUME LInv, TypeOK', NEW p \in Procs, Respects(p),
         NEW q \in Procs \ {p}, tx'[q] # Idle
  PROVE  TxHolds(q, tx[q])'
<1> DEFINE t == tx[q]
<1>1. tx'[q] = t /\ t # Idle
  BY DEF Respects
<1>2. /\ TxHolds(q, t) /\ t.who \in Registrations /\ t.decliner \in Registrations
      /\ t.op \in Ops /\ t.todo \in Seq(Rows) /\ t.pool \in SUBSET Registrations
  BY <1>1, Running
<1>3. \A x \in Registrations : lock[x] = q => lock'[x] = q /\ status'[x] = status[x]
  BY DEF Respects, Rows
<1> HIDE DEF t
<1>4. t.op = "decline" => match[t.match] # NoMatch /\ t.match \in MatchIds /\ match'[t.match] # NoMatch
  BY <1>2 DEF TxHolds, Respects
<1>5. t.todo = <<>> => lock'[t.who] = q
  BY <1>2, <1>3 DEF TxHolds
<1>6. t.op = "decline" /\ t.todo \in {<<t.who>>, <<>>} => lock'[t.decliner] = q
  BY <1>2, <1>3 DEF TxHolds
<1>7. ASSUME t.step # "check", NEW n \in MatchIds,
             match'[n] # NoMatch, match'[n].active, match'[n].by = t.who
      PROVE  t.op = "decline" /\ n = t.match
  <2>1. lock[t.who] = q
    BY <1>2, <1>7 DEF TxHolds
  <2>2. match[n] # NoMatch
    BY <1>7, <2>1 DEF Respects
  <2>3. match[n].active /\ match[n].by = t.who
    BY <1>7, <2>2 DEF Respects
  <2> QED
    BY <1>2, <1>7, <2>2, <2>3 DEF TxHolds
<1>8. ASSUME t.step = "create"
      PROVE  \E c \in Counterparts(t.who) :
               t.pool = {c} /\ lock'[c] = q /\ StatusSeen(q)'[c] = "VERIFIED"
  <2>1. PICK c \in Counterparts(t.who) :
          t.pool = {c} /\ lock[c] = q /\ StatusSeen(q)[c] = "VERIFIED"
    BY <1>2, <1>8 DEF TxHolds
  <2>2. c \in Registrations
    BY <1>2, <2>1
  <2>3. lock'[c] = q /\ status'[c] = status[c]
    BY <1>3, <2>1, <2>2
  <2>4. status \in [Registrations -> Status] /\ status' \in [Registrations -> Status]
    BY DEF LInv, TypeOK
  <2>5. StatusSeen(q)'[c] = StatusSeen(q)[c]
    <3>1. CASE t.op = "confirm"
      BY <1>1, <2>2, <2>3, <2>4, <3>1 DEF StatusSeen, t
    <3>2. CASE t.op = "decline"
      BY <1>1, <2>2, <2>3, <2>4, <3>2 DEF StatusSeen, t
    <3>3. CASE t.op = "drain"
      BY <1>1, <2>2, <2>3, <2>4, <3>3 DEF StatusSeen, t
    <3> QED
      BY <1>2, <3>1, <3>2, <3>3 DEF Ops
  <2> QED
    BY <2>1, <2>3, <2>5
<1>9. /\ t.op = "decline" => t.todo \in {<<t.match, t.decliner, t.who>>,
                                         <<t.decliner, t.who>>, <<t.who>>, <<>>}
      /\ t.op # "decline" => t.todo \in {<<t.who>>, <<>>}
      /\ t.step # "check" => t.todo = <<>>
      /\ t.step \in {"exists_lock", "rank_lock"} =>
           t.pool # {} /\ t.pool \subseteq Counterparts(t.who)
  BY <1>2 DEF TxHolds
<1>10. tx'[q] = t
  BY <1>1
<1> QED
  BY <1>4, <1>5, <1>6, <1>7, <1>8, <1>9, <1>10 DEF TxHolds

(* A step that respects the others has to look after its own transaction. *)
LEMMA StepKeeps ==
  ASSUME LInv, TypeOK', ByAParty', ProposerOnce', NEW p \in Procs, Respects(p),
         tx'[p] # Idle => TxHolds(p, tx[p])'
  PROVE  LInv'
<1>1. ASSUME NEW q \in Procs, tx'[q] # Idle PROVE TxHolds(q, tx[q])'
  BY <1>1, OthersHold
<1> QED
  BY <1>1 DEF LInv, TxsHold

(* So does a step that changes neither table. *)
LEMMA QuietStep ==
  ASSUME LInv, NEW p \in Procs, UNCHANGED <<status, match>>,
         NEW t \in Transaction \cup {Idle}, tx' = [tx EXCEPT ![p] = t],
         lock' \in [Rows -> Procs \cup {Free}],
         \A x \in Rows : lock'[x] # lock[x] => lock[x] \in {Free, p},
         t # Idle => TxHolds(p, t)'
  PROVE  LInv'
<1>1. TypeOK'
  BY DEF LInv, TypeOK
<1>2. ByAParty' /\ ProposerOnce'
  BY DEF LInv, ByAParty, ProposerOnce, Party
<1>3. tx'[p] = t /\ \A q \in Procs \ {p} : tx'[q] = tx[q]
  BY DEF LInv, TypeOK
<1>4. Respects(p)
  BY <1>3, NullsAssumption DEF Respects
<1>5. tx'[p] # Idle => TxHolds(p, tx[p])'
  BY <1>3
<1> QED
  BY <1>1, <1>2, <1>4, <1>5, StepKeeps

(* So does a commit whose new match, if any, is made by a row it holds. *)
LEMMA EndKeeps ==
  ASSUME LInv, NEW p \in Procs, tx[p] # Idle, tx[p].todo = <<>>,
         NEW ms \in [MatchIds -> MatchRow \cup {NoMatch}], End(p, ms),
         \A n \in MatchIds : match[n] # NoMatch =>
           ms[n] # NoMatch /\ ms[n].by = match[n].by /\ (ms[n].active => match[n].active),
         \A n \in MatchIds :
           match[n] = NoMatch /\ ms[n] # NoMatch => lock[ms[n].by] = p,
         ByAParty', ProposerOnce'
  PROVE  LInv'
<1>1. /\ status' = StatusSeen(p) /\ match' = ms /\ tx' = [tx EXCEPT ![p] = Idle]
      /\ lock' = [row \in Rows |-> IF lock[row] = p THEN Free ELSE lock[row]]
  BY DEF End
<1>2. /\ StatusSeen(p) \in [Registrations -> Status]
      /\ \A x \in Registrations : StatusSeen(p)[x] # status[x] => lock[x] = p
  BY StatusSeenHeld
<1>3. lock \in [Rows -> Procs \cup {Free}] /\ tx \in [Procs -> Transaction \cup {Idle}]
  BY DEF LInv, TypeOK
<1>4. TypeOK'
  BY <1>1, <1>2, <1>3 DEF TypeOK
<1>5. tx'[p] = Idle /\ \A q \in Procs \ {p} : tx'[q] = tx[q]
  BY <1>1, <1>3
<1>6. \A q \in Procs \ {p}, x \in Rows : lock[x] = q => lock'[x] = q
  BY <1>1
<1>7. Respects(p)
  BY <1>1, <1>2, <1>5, <1>6 DEF Respects
<1> QED
  BY <1>4, <1>5, <1>7, StepKeeps

(* A transaction that ends without a new match. *)
LEMMA EndWithoutMatch ==
  ASSUME LInv, NEW p \in Procs, tx[p] # Idle, tx[p].todo = <<>>,
         End(p, MatchesSeen(p))
  PROVE  LInv'
<1> DEFINE ms == MatchesSeen(p)
<1>1. /\ ms \in [MatchIds -> MatchRow \cup {NoMatch}]
      /\ \A n \in MatchIds :
           /\ ms[n] = NoMatch <=> match[n] = NoMatch
           /\ match[n] # NoMatch =>
                ms[n].by = match[n].by /\ ms[n].amb = match[n].amb
                /\ ms[n].ref = match[n].ref /\ (ms[n].active => match[n].active)
  BY MatchesSeenIs
<1>2. match' = ms
  BY DEF End
<1> HIDE DEF ms
<1>3. ByAParty'
  BY <1>1, <1>2 DEF LInv, ByAParty, Party
<1>4. ProposerOnce'
  BY <1>1, <1>2 DEF LInv, ProposerOnce
<1>5. End(p, ms)
  BY DEF ms
<1> QED
  BY <1>1, <1>3, <1>4, <1>5, EndKeeps

-----------------------------------------------------------------------------
(* One lemma per action. *)

LEMMA CallKeeps ==
  ASSUME LInv, NEW p \in Procs, Call(p)
  PROVE  LInv'
<1>0. lock \in [Rows -> Procs \cup {Free}] /\ match \in [MatchIds -> MatchRow \cup {NoMatch}]
  BY DEF LInv, TypeOK
<1>1. ASSUME NEW r \in Registrations, NEW op \in {"confirm", "drain"},
             Start(p, op, r, <<r>>, NoMatch, r)
      PROVE  LInv'
  <2> DEFINE new == [op |-> op, who |-> r, todo |-> <<r>>, step |-> "check",
                     match |-> NoMatch, decliner |-> r, pool |-> {}]
  <2>0. new \in Transaction
    BY DEF Transaction, Ops, Steps, Rows
  <2>1. PICK t \in Transaction : t = new
    BY <2>0
  <2>2. tx' = [tx EXCEPT ![p] = t] /\ UNCHANGED <<status, match, lock>>
    BY <1>1, <2>1 DEF Start
  <2>3. t.op # "decline" /\ t.todo = <<t.who>> /\ t.todo # <<>> /\ t.step = "check"
    BY <2>1
  <2>4. TxHolds(p, t)'
    BY <2>3 DEF TxHolds
  <2> QED
    BY <1>0, <2>2, <2>4, QuietStep
<1>2. ASSUME NEW m \in MatchIds, NEW r \in Registrations, Decline(p, m, r)
      PROVE  LInv'
  <2>1. match[m] # NoMatch
    BY <1>2 DEF Decline
  <2>2. PICK row \in MatchRow : match[m] = row
    BY <1>0, <2>1
  <2>3. PICK other \in Registrations :
          other = IF r = match[m].amb THEN match[m].ref ELSE match[m].amb
    BY <2>2 DEF MatchRow, Registrations
  <2> DEFINE new == [op |-> "decline", who |-> other, todo |-> <<m, r, other>>,
                     step |-> "check", match |-> m, decliner |-> r, pool |-> {}]
  <2>0. new \in Transaction
    BY DEF Transaction, Ops, Steps, Rows
  <2>4. PICK t \in Transaction : t = new
    BY <2>0
  <2>5. tx' = [tx EXCEPT ![p] = t] /\ UNCHANGED <<status, match, lock>>
    BY <1>2, <2>3, <2>4 DEF Decline, Start
  <2>6. /\ t.op = "decline" /\ t.match = m /\ t.step = "check"
        /\ t.todo = <<t.match, t.decliner, t.who>>
        /\ t.todo # <<>> /\ t.todo # <<t.who>>
    BY <2>4
  <2>7. TxHolds(p, t)'
    BY <2>1, <2>5, <2>6 DEF TxHolds
  <2> QED
    BY <1>0, <2>5, <2>7, QuietStep
<1> QED
  BY <1>1, <1>2 DEF Call, Confirm, Drain

LEMMA LockNextKeeps ==
  ASSUME LInv, NEW p \in Procs, LockNext(p)
  PROVE  LInv'
<1>0. lock \in [Rows -> Procs \cup {Free}]
  BY DEF LInv, TypeOK
<1>1. PICK old \in Transaction : tx[p] = old
  BY Running DEF LockNext
<1>2. PICK row \in Rows : old.todo # <<>> /\ row = Head(old.todo)
  BY <1>1 DEF LockNext, Transaction
<1>a. old.todo \in Seq(Rows)
  BY DEF Transaction
<1>b. Tail(old.todo) \in Seq(Rows)
  BY <1>2, <1>a
<1>c. [old EXCEPT !.todo = Tail(@)] \in Transaction
  BY <1>b DEF Transaction
<1>3. PICK t \in Transaction : t = [old EXCEPT !.todo = Tail(@)]
  BY <1>c
<1>4. /\ lock[row] \in {Free, p}
      /\ lock' = [lock EXCEPT ![row] = p]
      /\ tx' = [tx EXCEPT ![p] = t]
      /\ UNCHANGED <<status, match>>
  BY <1>1, <1>2, <1>3 DEF LockNext
<1>5. /\ t.op = old.op /\ t.who = old.who /\ t.match = old.match /\ t.step = old.step
      /\ t.decliner = old.decliner /\ t.pool = old.pool /\ t.todo = Tail(old.todo)
  BY <1>3 DEF Transaction
<1>6. TxHolds(p, old)
  BY <1>1, Running DEF LockNext
<1>7. t.step = "check"
  BY <1>2, <1>5, <1>6 DEF TxHolds
<1>8. lock'[row] = p /\ \A x \in Rows : lock'[x] # lock[x] => lock[x] \in {Free, p}
  BY <1>0, <1>4
<1>9. \A x \in Rows : lock[x] = p => lock'[x] = p
  BY <1>0, <1>4
<1>10. TxHolds(p, t)'
  <2>1. CASE old.op # "decline"
    <3>1. old.todo = <<old.who>>
      BY <1>2, <1>6, <2>1 DEF TxHolds
    <3>2. t.todo = <<>> /\ row = t.who
      BY <1>2, <1>5, <3>1
    <3> QED
      BY <1>5, <1>7, <1>8, <2>1, <3>2 DEF TxHolds
  <2>2. CASE old.op = "decline"
    <3>1. t.match \in MatchIds /\ match'[t.match] # NoMatch /\ t.op = "decline"
      BY <1>4, <1>5, <1>6, <2>2 DEF TxHolds
    <3>2. CASE old.todo = <<old.match, old.decliner, old.who>>
      <4>1. t.todo = <<t.decliner, t.who>>
        BY <1>5, <3>2
      <4>2. t.todo # <<>> /\ t.todo # <<t.who>>
        BY <4>1
      <4> QED
        BY <1>7, <3>1, <4>1, <4>2 DEF TxHolds
    <3>3. CASE old.todo = <<old.decliner, old.who>>
      <4>1. t.todo = <<t.who>> /\ row = t.decliner
        BY <1>2, <1>5, <3>3
      <4>2. t.todo # <<>>
        BY <4>1
      <4> QED
        BY <1>7, <1>8, <3>1, <4>1, <4>2 DEF TxHolds
    <3>4. CASE old.todo = <<old.who>>
      <4>1. t.todo = <<>> /\ row = t.who
        BY <1>2, <1>5, <3>4
      <4>2. t.decliner \in Rows
        BY DEF Transaction, Rows
      <4>3. lock[t.decliner] = p
        BY <1>5, <1>6, <2>2, <3>4 DEF TxHolds
      <4>4. lock'[t.decliner] = p /\ lock'[t.who] = p
        BY <1>8, <1>9, <4>1, <4>2, <4>3
      <4> QED
        BY <1>7, <3>1, <4>1, <4>4 DEF TxHolds
    <3> QED
      BY <1>2, <1>6, <2>2, <3>2, <3>3, <3>4 DEF TxHolds
  <2> QED
    BY <2>1, <2>2
<1>11. lock' \in [Rows -> Procs \cup {Free}]
  BY <1>0, <1>4
<1> QED
  BY <1>4, <1>8, <1>10, <1>11, QuietStep

(* Going on to another statement with another pool, and perhaps one more row. *)
LEMMA AdvanceKeeps ==
  ASSUME LInv, NEW p \in Procs, tx[p] # Idle, tx[p].todo = <<>>,
         NEW step \in Steps \ {"check"}, NEW pool \in SUBSET Registrations,
         tx' = [tx EXCEPT ![p].step = step, ![p].pool = pool],
         UNCHANGED <<status, match>>,
         lock' \in [Rows -> Procs \cup {Free}],
         \A x \in Rows : lock'[x] # lock[x] => lock[x] = Free,
         \A n \in MatchIds :
           match[n] # NoMatch /\ match[n].active /\ match[n].by = tx[p].who =>
             tx[p].op = "decline" /\ n = tx[p].match,
         step \in {"exists_lock", "rank_lock"} =>
           pool # {} /\ pool \subseteq Counterparts(tx[p].who),
         step = "create" =>
           \E c \in Counterparts(tx[p].who) :
             pool = {c} /\ lock'[c] = p /\ StatusSeen(p)[c] = "VERIFIED"
  PROVE  LInv'
<1>1. PICK old \in Transaction : tx[p] = old
  BY Running
<1>a. [old EXCEPT !.step = step, !.pool = pool] \in Transaction
  BY DEF Transaction
<1>2. PICK t \in Transaction : t = [old EXCEPT !.step = step, !.pool = pool]
  BY <1>a
<1>3. /\ t.op = old.op /\ t.who = old.who /\ t.match = old.match
      /\ t.decliner = old.decliner /\ t.todo = old.todo
      /\ t.step = step /\ t.pool = pool
  BY <1>2 DEF Transaction
<1>4. tx' = [tx EXCEPT ![p] = t]
  BY <1>1, <1>2
<1>5. TxHolds(p, old) /\ old.who \in Rows /\ old.decliner \in Rows
  BY <1>1, Running DEF Rows
<1>6. \A x \in Rows : lock[x] = p => lock'[x] = p
  BY NullsAssumption
<1>7. tx \in [Procs -> Transaction \cup {Idle}]
  BY DEF LInv, TypeOK
<1>8. tx'[p] = t
  BY <1>4, <1>7
<1>9. StatusSeen(p)' = StatusSeen(p)
  BY <1>1, <1>3, <1>8 DEF StatusSeen
<1>10. old.todo = <<>>
  BY <1>1
<1>11. lock'[t.who] = p
  BY <1>3, <1>5, <1>6, <1>10 DEF TxHolds
<1>12. t.op = "decline" =>
         /\ t.match \in MatchIds /\ match'[t.match] # NoMatch
         /\ lock'[t.decliner] = p
  BY <1>3, <1>5, <1>6, <1>10 DEF TxHolds
<1>13. TxHolds(p, t)'
  BY <1>1, <1>3, <1>9, <1>10, <1>11, <1>12 DEF TxHolds
<1>14. \A x \in Rows : lock'[x] # lock[x] => lock[x] \in {Free, p}
  OBVIOUS
<1>15. t # Idle => TxHolds(p, t)'
  BY <1>13
<1> QED
  BY <1>4, <1>14, <1>15, QuietStep

(* A proposer past its check still has no other active match of its own. *)
LEMMA StillFirst ==
  ASSUME LInv, NEW p \in Procs, tx[p] # Idle, tx[p].step # "check"
  PROVE  \A n \in MatchIds :
           match[n] # NoMatch /\ match[n].active /\ match[n].by = tx[p].who =>
             tx[p].op = "decline" /\ n = tx[p].match
BY Running DEF TxHolds

LEMMA CheckKeeps ==
  ASSUME LInv, NEW p \in Procs, CheckActive(p)
  PROVE  LInv'
<1>1. tx[p] # Idle /\ tx[p].todo = <<>>
  BY DEF CheckActive, At
<1>2. CASE ActiveFor(MatchesSeen(p), tx[p].who) # {}
  BY <1>1, <1>2, EndWithoutMatch DEF CheckActive
<1>3. CASE ActiveFor(MatchesSeen(p), tx[p].who) = {}
  <2>1. GoTo(p, "exists", {})
    BY <1>3 DEF CheckActive
  <2>2. ASSUME NEW n \in MatchIds,
               match[n] # NoMatch, match[n].active, match[n].by = tx[p].who,
               ~ (tx[p].op = "decline" /\ n = tx[p].match)
        PROVE  FALSE
    <3>1. MatchesSeen(p)[n] = match[n]
      BY <1>1, <2>2, MatchesSeenIs
    <3>2. Party(match[n], tx[p].who)
      BY <2>2 DEF LInv, ByAParty
    <3> QED
      BY <1>3, <2>2, <3>1, <3>2 DEF ActiveFor
  <2>3. lock' = lock /\ lock \in [Rows -> Procs \cup {Free}]
    BY <2>1 DEF GoTo, LInv, TypeOK
  <2>4. "exists" \in Steps \ {"check"}
    BY DEF Steps
  <2>5. \A n \in MatchIds :
          match[n] # NoMatch /\ match[n].active /\ match[n].by = tx[p].who =>
            tx[p].op = "decline" /\ n = tx[p].match
    BY <2>2
  <2>6. PICK step \in Steps \ {"check"}, pool \in SUBSET Registrations :
          step = "exists" /\ pool = {}
    BY <2>4
  <2>7. /\ tx' = [tx EXCEPT ![p].step = step, ![p].pool = pool]
        /\ UNCHANGED <<status, match>>
    BY <2>1, <2>6 DEF GoTo
  <2> QED
    BY <1>1, <2>3, <2>5, <2>6, <2>7, AdvanceKeeps
<1> QED
  BY <1>2, <1>3

LEMMA SelectKeeps ==
  ASSUME LInv, NEW p \in Procs, NEW step \in {"exists", "rank"}, Select(p, step)
  PROVE  LInv'
<1>1. tx[p] # Idle /\ tx[p].todo = <<>> /\ tx[p].step # "check"
  BY DEF Select, At
<1>2. CASE Pool(p) = {}
  BY <1>1, <1>2, EndWithoutMatch DEF Select
<1>3. CASE Pool(p) # {}
  <2>1. PICK next \in {"exists_lock", "rank_lock"} : GoTo(p, next, Pool(p))
    BY <1>3 DEF Select
  <2>2. Pool(p) \subseteq Counterparts(tx[p].who)
    BY DEF Pool
  <2>3. Pool(p) \in SUBSET Registrations
    BY <2>2 DEF Counterparts, Registrations
  <2>4. lock' = lock /\ lock \in [Rows -> Procs \cup {Free}]
    BY <2>1 DEF GoTo, LInv, TypeOK
  <2>5. next \in Steps \ {"check"} /\ next # "create"
    BY DEF Steps
  <2> QED
    BY <1>1, <1>3, <2>1, <2>2, <2>3, <2>4, <2>5, StillFirst, AdvanceKeeps DEF GoTo
<1> QED
  BY <1>2, <1>3

LEMMA LockCandidateKeeps ==
  ASSUME LInv, NEW p \in Procs,
         NEW step \in {"exists_lock", "rank_lock"}, NEW next \in {"rank", "create"},
         LockCandidate(p, step, next)
  PROVE  LInv'
<1>1. tx[p] # Idle /\ tx[p].todo = <<>> /\ tx[p].step = step
  BY DEF LockCandidate, At
<1>2. /\ tx[p].pool \in SUBSET Registrations /\ tx[p].pool # {}
      /\ tx[p].pool \subseteq Counterparts(tx[p].who)
  BY <1>1, Running DEF TxHolds
<1>3. Order(p) \in [Registrations -> Nat]
  BY OrdersAssumption DEF Order
<1>4. First(Order(p), tx[p].pool) \in tx[p].pool
  BY <1>2, <1>3, FirstIn
<1>5. PICK c \in tx[p].pool : c = First(Order(p), tx[p].pool)
  BY <1>4
<1>6. lock \in [Rows -> Procs \cup {Free}] /\ c \in Rows
  BY <1>2 DEF LInv, TypeOK, Rows
<1>7. lock[c] \in {Free, p}
  BY <1>5 DEF LockCandidate
<1>8. step \in Steps \ {"check"} /\ next \in Steps \ {"check"}
      /\ step # "create" /\ next \notin {"exists_lock", "rank_lock"}
  BY DEF Steps
<1>9. CASE Verified(p, c)
  <2>1. /\ lock' = [lock EXCEPT ![c] = p]
        /\ tx' = [tx EXCEPT ![p].step = next, ![p].pool = {c}]
        /\ UNCHANGED <<status, match>>
    BY <1>5, <1>9 DEF LockCandidate
  <2>2. /\ lock' \in [Rows -> Procs \cup {Free}] /\ lock'[c] = p
        /\ \A x \in Rows : lock'[x] # lock[x] => lock[x] = Free
    BY <1>6, <1>7, <2>1
  <2>3. {c} \in SUBSET Registrations /\ StatusSeen(p)[c] = "VERIFIED"
    BY <1>2, <1>9 DEF Verified
  <2>a. PICK pool \in SUBSET Registrations : pool = {c}
    BY <2>3
  <2>b. tx' = [tx EXCEPT ![p].step = next, ![p].pool = pool]
    BY <2>1, <2>a
  <2>4. \E d \in Counterparts(tx[p].who) :
          pool = {d} /\ lock'[d] = p /\ StatusSeen(p)[d] = "VERIFIED"
    BY <1>2, <2>2, <2>3, <2>a
  <2>5. \A n \in MatchIds :
          match[n] # NoMatch /\ match[n].active /\ match[n].by = tx[p].who =>
            tx[p].op = "decline" /\ n = tx[p].match
    BY <1>1, <1>8, StillFirst
  <2>6. UNCHANGED <<status, match>>
    BY <2>1
  <2>7. /\ \A x \in Rows : lock'[x] # lock[x] => lock[x] = Free
        /\ lock' \in [Rows -> Procs \cup {Free}]
    BY <2>2
  <2>8. next \in Steps \ {"check"} /\ ~ (next \in {"exists_lock", "rank_lock"})
    BY <1>8
  <2> QED
    BY <1>1, <2>b, <2>4, <2>5, <2>6, <2>7, <2>8, AdvanceKeeps
<1>10. CASE ~ Verified(p, c) /\ tx[p].pool = {c}
  BY <1>1, <1>5, <1>10, EndWithoutMatch DEF LockCandidate
<1>11. CASE ~ Verified(p, c) /\ tx[p].pool # {c}
  <2>1. GoTo(p, step, tx[p].pool \ {c})
    BY <1>5, <1>11 DEF LockCandidate
  <2>2. /\ tx[p].pool \ {c} # {}
        /\ tx[p].pool \ {c} \subseteq Counterparts(tx[p].who)
        /\ tx[p].pool \ {c} \in SUBSET Registrations
    BY <1>2, <1>11
  <2> QED
    BY <1>1, <1>6, <1>8, <2>1, <2>2, StillFirst, AdvanceKeeps DEF GoTo
<1> QED
  BY <1>9, <1>10, <1>11

LEMMA AbortKeeps ==
  ASSUME LInv, NEW p \in Procs, Abort(p)
  PROVE  LInv'
<1>1. lock \in [Rows -> Procs \cup {Free}]
  BY DEF LInv, TypeOK
<1>2. /\ lock' = [row \in Rows |-> IF lock[row] = p THEN Free ELSE lock[row]]
      /\ tx' = [tx EXCEPT ![p] = Idle] /\ UNCHANGED <<status, match>>
  BY DEF Abort
<1>3. /\ lock' \in [Rows -> Procs \cup {Free}]
      /\ \A x \in Rows : lock'[x] # lock[x] => lock[x] \in {Free, p}
  BY <1>1, <1>2
<1> QED
  BY <1>2, <1>3, QuietStep

(* The proposer makes its match with the row the last SELECT returned. *)
LEMMA CreateEffect ==
  ASSUME LInv, NEW p \in Procs, Create(p)
  PROVE  /\ tx[p] # Idle /\ tx[p].todo = <<>>
         /\ \E c \in Counterparts(tx[p].who), m \in FreeIds(match) :
              /\ StatusSeen(p)[c] = "VERIFIED"
              /\ NewMatch(tx[p].who, c) \in MatchRow
              /\ End(p, [MatchesSeen(p) EXCEPT ![m] = NewMatch(tx[p].who, c)])
<1>1. tx[p] # Idle /\ tx[p].todo = <<>> /\ tx[p].step = "create"
  BY DEF Create, At
<1>2. PICK d \in Counterparts(tx[p].who) :
        tx[p].pool = {d} /\ StatusSeen(p)[d] = "VERIFIED"
  BY <1>1, Running DEF TxHolds
<1>3. PICK m \in FreeIds(match) :
        End(p, [MatchesSeen(p) EXCEPT ![m] = NewMatch(tx[p].who, d)])
  BY <1>2 DEF Create
<1>4. tx[p].who \in Registrations
  BY <1>1, Running
<1>5. NewMatch(tx[p].who, d) \in MatchRow
  BY <1>2, <1>4 DEF NewMatch, MatchRow, Counterparts, Registrations
<1> QED
  BY <1>1, <1>2, <1>3, <1>5

LEMMA CreateKeeps ==
  ASSUME LInv, NEW p \in Procs, Create(p)
  PROVE  LInv'
<1>1. tx[p] # Idle /\ tx[p].todo = <<>> /\ tx[p].step # "check"
  BY DEF Create, At
<1>2. PICK c \in Counterparts(tx[p].who), m \in FreeIds(match) :
        /\ NewMatch(tx[p].who, c) \in MatchRow
        /\ End(p, [MatchesSeen(p) EXCEPT ![m] = NewMatch(tx[p].who, c)])
  BY CreateEffect
<1>3. PICK new \in MatchRow : new = NewMatch(tx[p].who, c)
  BY <1>2
<1>4. /\ new # NoMatch /\ new.by = tx[p].who /\ Party(new, new.by)
  BY <1>1, <1>3, Running, NullsAssumption DEF NewMatch, Party
<1>5. m \in MatchIds /\ match[m] = NoMatch
  BY DEF FreeIds
<1> DEFINE seen == MatchesSeen(p)
<1>6. PICK ms : ms = [seen EXCEPT ![m] = new]
  OBVIOUS
<1>7. /\ seen \in [MatchIds -> MatchRow \cup {NoMatch}]
      /\ \A n \in MatchIds :
           /\ seen[n] = NoMatch <=> match[n] = NoMatch
           /\ match[n] # NoMatch =>
                seen[n].by = match[n].by /\ seen[n].amb = match[n].amb
                /\ seen[n].ref = match[n].ref /\ (seen[n].active => match[n].active)
      /\ tx[p].op = "decline" => ~ seen[tx[p].match].active
  BY <1>1, MatchesSeenIs
<1>8. match' = ms /\ End(p, ms)
  BY <1>2, <1>3, <1>6 DEF End
<1>9. lock[new.by] = p
  BY <1>1, <1>4, Running DEF TxHolds
<1>10. \A n \in MatchIds :
         match[n] # NoMatch /\ match[n].active /\ match[n].by = new.by =>
           tx[p].op = "decline" /\ n = tx[p].match
  BY <1>1, <1>4, StillFirst
<1> HIDE DEF seen
<1>11. /\ ms \in [MatchIds -> MatchRow \cup {NoMatch}]
       /\ ms[m] = new /\ \A n \in MatchIds \ {m} : ms[n] = seen[n]
  BY <1>5, <1>6, <1>7
<1>12. ByAParty'
  <2>1. ASSUME NEW n \in MatchIds, ms[n] # NoMatch PROVE Party(ms[n], ms[n].by)
    <3>1. CASE n = m
      BY <1>4, <1>11, <3>1
    <3>2. CASE n # m
      <4>1. ms[n] = seen[n] /\ match[n] # NoMatch
        BY <1>7, <1>11, <2>1, <3>2
      <4>2. Party(match[n], match[n].by)
        BY <4>1 DEF LInv, ByAParty
      <4> QED
        BY <1>7, <4>1, <4>2 DEF Party
    <3> QED
      BY <3>1, <3>2
  <2> QED
    BY <1>8, <2>1 DEF ByAParty
<1>13. ASSUME NEW n \in MatchIds \ {m}, ms[n] # NoMatch, ms[n].active
       PROVE  ms[n].by # new.by /\ match[n] # NoMatch /\ match[n].active
              /\ ms[n].by = match[n].by
  BY <1>7, <1>10, <1>11, <1>13
<1>14. ProposerOnce'
  <2>1. ASSUME NEW n \in MatchIds, NEW k \in MatchIds,
               ms[n] # NoMatch, ms[n].active, ms[k] # NoMatch, ms[k].active,
               ms[n].by = ms[k].by
        PROVE  n = k
    <3>1. CASE n = m \/ k = m
      BY <1>11, <1>13, <2>1, <3>1
    <3>2. CASE n # m /\ k # m
      <4>1. /\ match[n] # NoMatch /\ match[n].active /\ ms[n].by = match[n].by
            /\ match[k] # NoMatch /\ match[k].active /\ ms[k].by = match[k].by
        BY <1>13, <2>1, <3>2
      <4> QED
        BY <2>1, <4>1 DEF LInv, ProposerOnce
    <3> QED
      BY <3>1, <3>2
  <2> QED
    BY <1>8, <2>1 DEF ProposerOnce
<1>15. \A n \in MatchIds : match[n] # NoMatch =>
         ms[n] # NoMatch /\ ms[n].by = match[n].by /\ (ms[n].active => match[n].active)
  BY <1>5, <1>7, <1>11
<1>16. \A n \in MatchIds :
         match[n] = NoMatch /\ ms[n] # NoMatch => lock[ms[n].by] = p
  BY <1>7, <1>9, <1>11
<1> QED
  BY <1>1, <1>8, <1>11, <1>12, <1>14, <1>15, <1>16, EndKeeps

-----------------------------------------------------------------------------
(* The theorems. *)

LEMMA InitHolds == Init => LInv
<1> SUFFICES ASSUME Init PROVE LInv
  OBVIOUS
<1>1. TypeOK
  BY DEF Init, TypeOK, Status
<1>2. TxsHold
  BY DEF Init, TxsHold
<1>3. ByAParty /\ ProposerOnce
  BY DEF Init, ByAParty, ProposerOnce
<1> QED
  BY <1>1, <1>2, <1>3 DEF LInv

LEMMA NextKeeps == LInv /\ [Next]_vars => LInv'
<1> SUFFICES ASSUME LInv, [Next]_vars PROVE LInv'
  OBVIOUS
<1>1. ASSUME NEW p \in Procs, Call(p) PROVE LInv'
  BY <1>1, CallKeeps
<1>2. ASSUME NEW p \in Procs, Statement(p) PROVE LInv'
  <2>1. CASE LockNext(p)
    BY <2>1, LockNextKeeps
  <2>2. CASE CheckActive(p)
    BY <2>2, CheckKeeps
  <2>3. CASE SelectExists(p) \/ SelectRanked(p)
    BY <2>3, SelectKeeps DEF SelectExists, SelectRanked
  <2>4. CASE LockExisting(p) \/ LockRanked(p)
    BY <2>4, LockCandidateKeeps DEF LockExisting, LockRanked
  <2>5. CASE Create(p)
    BY <2>5, CreateKeeps
  <2>6. CASE Abort(p)
    BY <2>6, AbortKeeps
  <2> QED
    BY <1>2, <2>1, <2>2, <2>3, <2>4, <2>5, <2>6 DEF Statement
<1>3. CASE UNCHANGED vars
  BY <1>3 DEF vars, LInv, TypeOK, TxsHold, TxHolds, StatusSeen, ByAParty, ProposerOnce
<1> QED
  BY <1>1, <1>2, <1>3 DEF Next

(* In every reachable state each transaction holds the rows it has updated,
   its own row since it began to propose, and a candidate that is VERIFIED. *)
THEOREM LocksInvariance == Spec => []LInv
BY InitHolds, NextKeeps, PTL DEF Spec

(* Every variable keeps its type. *)
THEOREM LocksTypes == Spec => []TypeOK
<1>1. LInv => TypeOK
  BY DEF LInv
<1> QED
  BY <1>1, LocksInvariance, PTL

(* However many callers propose for one registration at once, propose_match
   creates one active match for it: the lock on its own row is what does it. *)
THEOREM OneMatchPerProposer == Spec => []ProposerOnce
<1>1. LInv => ProposerOnce
  BY DEF LInv
<1> QED
  BY <1>1, LocksInvariance, PTL

(* The counterpart of a new match is VERIFIED when the match is committed: the
   row lock of the ranked SELECT keeps it so. *)
THEOREM CounterpartStaysVerified == Spec => CounterpartVerified
<1> DEFINE Good ==
      \A m \in FreeIds(match) : match'[m] # NoMatch =>
        LET c == IF match'[m].by = match'[m].amb THEN match'[m].ref
                                                 ELSE match'[m].amb
        IN  status'[c] = "VERIFIED"
<1>1. ASSUME LInv, NEW p \in Procs, Create(p) PROVE Good
  <2>1. tx[p] # Idle
    BY <1>1, CreateEffect
  <2>2. PICK c \in Counterparts(tx[p].who), m \in FreeIds(match) :
          /\ StatusSeen(p)[c] = "VERIFIED"
          /\ NewMatch(tx[p].who, c) \in MatchRow
          /\ End(p, [MatchesSeen(p) EXCEPT ![m] = NewMatch(tx[p].who, c)])
    BY <1>1, CreateEffect
  <2>3. PICK new \in MatchRow : new = NewMatch(tx[p].who, c)
    BY <2>2
  <2>4. tx[p].who \in Registrations
    BY <1>1, <2>1, Running
  <2>5. c = IF new.by = new.amb THEN new.ref ELSE new.amb
    BY <2>3, <2>4, RolesDisjoint DEF NewMatch, Counterparts, Registrations
  <2>6. status' = StatusSeen(p) /\ match' = [MatchesSeen(p) EXCEPT ![m] = new]
    BY <2>2, <2>3 DEF End
  <2>7. /\ MatchesSeen(p) \in [MatchIds -> MatchRow \cup {NoMatch}]
        /\ \A n \in MatchIds : MatchesSeen(p)[n] = NoMatch <=> match[n] = NoMatch
    BY <1>1, <2>1, MatchesSeenIs
  <2>8. match'[m] = new /\ \A n \in FreeIds(match) \ {m} : match'[n] = NoMatch
    BY <2>6, <2>7 DEF FreeIds
  <2> QED
    BY <2>2, <2>5, <2>6, <2>8
<1>2. ASSUME LInv, NEW p \in Procs, tx[p] # Idle, End(p, MatchesSeen(p)) PROVE Good
  BY <1>2, MatchesSeenIs DEF End, FreeIds
<1>3. ASSUME LInv, UNCHANGED match PROVE Good
  BY <1>3 DEF FreeIds
<1>4. ASSUME LInv, [Next]_vars PROVE [Good]_vars
  <2>1. ASSUME NEW p \in Procs, Call(p) PROVE Good
    BY <1>3, <1>4, <2>1 DEF Call, Confirm, Drain, Decline, Start
  <2>2. ASSUME NEW p \in Procs, Statement(p) PROVE Good
    <3>1. CASE LockNext(p) \/ Abort(p)
      BY <1>3, <1>4, <3>1 DEF LockNext, Abort
    <3>2. CASE CheckActive(p)
      BY <1>2, <1>3, <1>4, <3>2 DEF CheckActive, At, GoTo
    <3>3. CASE SelectExists(p) \/ SelectRanked(p)
      BY <1>2, <1>3, <1>4, <3>3 DEF SelectExists, SelectRanked, Select, At, GoTo
    <3>4. CASE LockExisting(p) \/ LockRanked(p)
      BY <1>2, <1>3, <1>4, <3>4 DEF LockExisting, LockRanked, LockCandidate, At, GoTo
    <3>5. CASE Create(p)
      BY <1>1, <1>4, <3>5
    <3> QED
      BY <2>2, <3>1, <3>2, <3>3, <3>4, <3>5 DEF Statement
  <2> QED
    BY <1>4, <2>1, <2>2 DEF Next
<1> QED
  BY <1>4, LocksInvariance, PTL DEF CounterpartVerified, Spec

=============================================================================
