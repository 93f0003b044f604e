---------------------------- MODULE EnrolmentProofs ----------------------------
(***************************************************************************)
(* Theorems about Enrolment, for any addresses, primary keys, processes,   *)
(* days, fees and crashes.                                                 *)
(***************************************************************************)
EXTENDS Enrolment, FiniteSetTheorems, WellFoundedInduction, TLAPS

(* The sequences are ahead of the tables; a registration has its user. *)
KeysAreUsed ==
  /\ \A u \in UserPks : user[u] # None => u <= lastPk.user
  /\ \A g \in RegPks : reg[g] # None => g <= lastPk.reg /\ user[reg[g].user] # None

(* The unique constraints. *)
OneEach ==
  /\ \A u, v \in UserPks :
       user[u] # None /\ user[v] # None /\ user[u].email = user[v].email => u = v
  /\ \A g, h \in RegPks :
       reg[g] # None /\ reg[h] # None /\ reg[g].user = reg[h].user => g = h

(* A primary key that was handed out for an address leads there or nowhere. *)
UserIs(u, e) == u \in UserPks /\ u <= lastPk.user /\ (user[u] # None => user[u].email = e)
RegIs(g, e) ==
  g \in RegPks /\ g <= lastPk.reg /\ (reg[g] # None => user[reg[g].user].email = e)

LeadsTo(link, e) == IF link.use = "login" THEN UserIs(link.pk, e) ELSE RegIs(link.pk, e)
LinksLead == \A e \in Addresses : \A link \in inbox[e] : LeadsTo(link, e)

(* What a submission has read or written is still there, unless the account
   was deleted meanwhile. *)
Knows(p) ==
  LET f == frame[p]
  IN  /\ f.step = "insert" /\ f.row # None =>
           UserIs(f.row, f.email) /\ (user[f.row] # None \/ p \in undone)
      /\ f.step = "mail" => RegIs(f.row, f.email) /\ (reg[f.row] # None \/ p \in undone)
      /\ f.step = "rescue" => RegistrationAt(f.email) # {} \/ p \in undone

Submits(p) == frame[p] # Idle /\ frame[p].op = "submit"
SubmissionsKnow == \A p \in Procs : Submits(p) => Knows(p)

EInv ==
  /\ TypeOK
  /\ KeysAreUsed
  /\ OneEach
  /\ LinksLead
  /\ SubmissionsKnow
  /\ SessionIsOwn

-----------------------------------------------------------------------------
(* The fee of the day *)

(* fee_chf_for answers with the fee of a tier, or 0 before the first begins. *)
LEMMA FeeOfTheDay ==
  ASSUME NEW day \in Days PROVE FeeFor(day) \in Fee
  <1> DEFINE begun == {t \in FeeTiers : t.from <= day}
             waits == {day - t.from : t \in begun}
  <1>1. CASE begun = {}
    BY <1>1 DEF FeeFor, Fee
  <1>2. CASE begun # {}
    <2>1. day \in Nat /\ \A t \in begun : t.from \in Nat /\ day - t.from \in Nat
      BY DaysAssumption
    <2>2. waits \subseteq Nat /\ waits # {}
      BY <1>2, <2>1
    <2>3. \E x \in waits : \A y \in waits : ~ (<<y, x>> \in OpToRel(<, Nat))
      BY <2>2, NatLessThanWellFounded, WFMin, Zenon
    <2>4. PICK t \in begun : \A s \in begun :
            ~ (<<day - s.from, day - t.from>> \in OpToRel(<, Nat))
      BY <2>3
    <2>5. \A x, y \in Nat : x < y => <<x, y>> \in OpToRel(<, Nat)
      BY DEF OpToRel
    <2>6. \A s \in begun : ~ (day - s.from < day - t.from)
      BY <2>1, <2>4, <2>5
    <2>7. \A s \in begun : s.from <= t.from
      BY <2>1, <2>6
    <2> DEFINE last == CHOOSE l \in begun : \A s \in begun : s.from <= l.from
    <2>8. last \in begun
      BY <2>7
    <2>9. FeeFor(day) = last.chf
      BY <1>2 DEF FeeFor
    <2>10. QED
      BY <2>8, <2>9 DEF Fee
  <1>3. QED
    BY <1>1, <1>2

-----------------------------------------------------------------------------
(* What a process is doing *)

Frames == [Procs -> Submission \cup Confirmation \cup {Idle}]
Steps == {"lookup", "pending", "user", "insert", "mail", "rescue"}
Rows == UserPks \cup RegPks \cup {None}

LEMMA SubmittingFrame ==
  ASSUME TypeOK, NEW p \in Procs, Submits(p)
  PROVE  frame[p] \in Submission /\ frame[p].email \in Addresses
  BY DEF TypeOK, Submits, Confirmation, Submission

(* The process at work is the only one whose frame changes. *)
Alone(p) == frame' \in Frames /\ \A q \in Procs : q # p => frame'[q] = frame[q]

LEMMA MovedFrame ==
  ASSUME TypeOK, NEW p \in Procs, Submits(p), NEW step \in Steps, NEW row \in Rows,
         Move(p, step, row)
  PROVE  /\ Alone(p)
         /\ Submits(p)' /\ frame'[p].email = frame[p].email
         /\ frame'[p].step = step /\ frame'[p].row = row
  <1>1. PICK f \in Submission : f = frame[p]
    BY SubmittingFrame
  <1> DEFINE g == [f EXCEPT !.step = step, !.row = row]
  <1>2. /\ g \in Submission /\ g.op = "submit" /\ g.email = f.email
        /\ g.step = step /\ g.row = row
    BY DEF Submission, Steps, Rows
  <1>3. frame' = [frame EXCEPT ![p] = g]
    BY <1>1 DEF Move, TypeOK
  <1> HIDE DEF g
  <1>4. /\ frame' \in Frames /\ frame'[p] = g
        /\ \A q \in Procs : q # p => frame'[q] = frame[q]
    BY <1>2, <1>3 DEF TypeOK, Frames
  <1>5. g # Idle
    BY <1>2, NullsAssumption
  <1>6. QED
    BY <1>1, <1>2, <1>4, <1>5 DEF Alone, Submits

LEMMA FinishedFrame ==
  ASSUME TypeOK, NEW p \in Procs, Finish(p)
  PROVE  /\ Alone(p) /\ frame'[p] = Idle
         /\ undone' = undone \ {p} /\ undone' \in SUBSET Procs
  BY DEF TypeOK, Frames, Finish, Alone

-----------------------------------------------------------------------------
(* What a step may do to the tables *)

UserMoves(u) ==
  \/ user'[u] = user[u]
  \/ /\ user'[u] = None
     /\ \A g \in RegistrationOf(u) : reg'[g] = None
     /\ \A e \in Addresses : session'[e] # u
  \/ /\ user[u] = None /\ user'[u] \in UserRow /\ UserOf(user'[u].email) = {}
     /\ u = lastPk.user + 1 /\ lastPk'.user = u

RegMoves(g) ==
  \/ reg'[g] = None
  \/ reg[g] # None /\ reg'[g].user = reg[g].user
  \/ /\ reg[g] = None /\ RegistrationOf(reg'[g].user) = {}
     /\ reg'[g].user \in UserPks /\ user'[reg'[g].user] # None
     /\ g = lastPk.reg + 1 /\ lastPk'.reg = g

TableTypes ==
  /\ user' \in [UserPks -> UserRow \cup {None}]
  /\ reg' \in [RegPks -> RegistrationRow \cup {None}]
  /\ lastPk' \in [user : {0} \cup UserPks, reg : {0} \cup RegPks]

TableEffect ==
  /\ TableTypes
  /\ lastPk.user <= lastPk'.user /\ lastPk.reg <= lastPk'.reg
  /\ \A u \in UserPks : UserMoves(u)
  /\ \A g \in RegPks : RegMoves(g)

LEMMA Keys ==
  ASSUME TypeOK PROVE lastPk.user \in Nat /\ lastPk.reg \in Nat
  <1>1. lastPk \in [user : {0} \cup UserPks, reg : {0} \cup RegPks]
    BY DEF TypeOK
  <1>2. lastPk.user \in {0} \cup UserPks /\ lastPk.reg \in {0} \cup RegPks
    BY <1>1
  <1>3. {0} \cup UserPks \subseteq Nat /\ {0} \cup RegPks \subseteq Nat
    BY PksAssumption
  <1>4. QED
    BY <1>2, <1>3, Zenon

LEMMA RowOfReg ==
  ASSUME TypeOK, NEW g \in RegPks, reg[g] # None
  PROVE  reg[g] \in RegistrationRow /\ reg[g].user \in UserPks
  BY DEF TypeOK, RegistrationRow

LEMMA RowOfUser ==
  ASSUME TypeOK, NEW u \in UserPks, user[u] # None
  PROVE  user[u] \in UserRow /\ user[u].email \in Addresses /\ user[u] = [email |-> user[u].email]
  BY DEF TypeOK, UserRow

LEMMA TablesAtRest ==
  ASSUME TypeOK, UNCHANGED tables PROVE TableEffect
  <1>1. UNCHANGED <<user, reg, lastPk>>
    BY DEF tables
  <1>2. lastPk.user <= lastPk'.user /\ lastPk.reg <= lastPk'.reg
    BY <1>1, Keys
  <1>3. QED
    BY <1>1, <1>2 DEF TypeOK, TableEffect, TableTypes, UserMoves, RegMoves

(* A registration changes or goes, and the users stay. *)
LEMMA RegsChange ==
  ASSUME TypeOK, UNCHANGED <<user, lastPk>>,
         reg' \in [RegPks -> RegistrationRow \cup {None}],
         \A g \in RegPks : \/ reg'[g] \in {reg[g], None}
                           \/ reg[g] # None /\ reg'[g].user = reg[g].user
  PROVE  TableEffect
  <1>1. lastPk.user <= lastPk'.user /\ lastPk.reg <= lastPk'.reg
    BY Keys
  <1>2. \A g \in RegPks : RegMoves(g)
    BY DEF RegMoves
  <1>3. QED
    BY <1>1, <1>2 DEF TypeOK, TableEffect, TableTypes, UserMoves

(* Another request's insert, or a deletion, stops a submission; otherwise it
   inserts its user, unless it has one, and the user's only registration. *)
Inserts(p, u, g) ==
  LET e == frame[p].email
  IN  /\ \/ user[u] = None /\ UserOf(e) = {} /\ u = lastPk.user + 1 /\ lastPk'.user = u
         \/ user[u] # None /\ user[u].email = e /\ lastPk'.user = lastPk.user
      /\ RegistrationOf(u) = {}
      /\ reg[g] = None /\ g = lastPk.reg + 1 /\ lastPk'.reg = g
      /\ user' = [user EXCEPT ![u] = [email |-> e]]
      /\ reg' = [reg EXCEPT ![g] = [user |-> u, fee_chf |-> FeeFor(today),
                                    status |-> "UNVERIFIED"]]
      /\ lastPk' \in [user : {0} \cup UserPks, reg : {0} \cup RegPks]
      /\ Move(p, "mail", g)

InsertRefused(p) ==
  /\ UNCHANGED tables
  /\ Move(p, "rescue", None)
  /\ RegistrationAt(frame[p].email) # {} \/ p \in undone

LEMMA InsertCases ==
  ASSUME TypeOK, KeysAreUsed, SubmissionsKnow, NEW p \in Procs, Insert(p)
  PROVE  InsertRefused(p) \/ \E u \in UserPks, g \in RegPks : Inserts(p, u, g)
  <1> DEFINE e == frame[p].email
             seen == frame[p].row
             new == seen = None /\ UserOf(e) = {}
             u == IF new THEN NextPk(lastPk.user, user)
                  ELSE IF seen # None THEN seen ELSE CHOOSE v \in UserOf(e) : TRUE
             g == NextPk(lastPk.reg, reg)
             row == [user |-> u, fee_chf |-> FeeFor(today), status |-> "UNVERIFIED"]
             keys == [user |-> IF new THEN u ELSE lastPk.user, reg |-> g]
  <1>1. /\ At(p, "insert") /\ u \in UserPks /\ g \in RegPks
        /\ IF ~new /\ (user[u] = None \/ Taken(u))
             THEN Move(p, "rescue", None) /\ UNCHANGED tables
             ELSE /\ user' = [user EXCEPT ![u] = [email |-> e]]
                  /\ reg' = [reg EXCEPT ![g] = row]
                  /\ lastPk' = keys
                  /\ Move(p, "mail", g)
    BY DEF Insert
  <1>2. seen # None => UserIs(seen, e) /\ (user[seen] # None \/ p \in undone)
    BY <1>1 DEF SubmissionsKnow, Submits, Knows, At
  <1>3. seen = None /\ ~new => u \in UserOf(e)
    OBVIOUS
  <1>4. ~new => \/ user[u] # None /\ user[u].email = e
                \/ user[u] = None /\ p \in undone
    BY <1>2, <1>3 DEF UserIs, UserOf
  <1>5. CASE ~new /\ (user[u] = None \/ Taken(u))
    <2>1. RegistrationAt(e) # {} \/ p \in undone
      <3>1. CASE user[u] = None
        BY <1>4, <1>5, <3>1
      <3>2. CASE user[u] # None
        <4>1. u \in UserOf(e) /\ RegistrationOf(u) # {}
          BY <1>1, <1>4, <1>5, <3>2 DEF UserOf, Taken
        <4>2. QED
          BY <4>1 DEF RegistrationAt
      <3>3. QED
        BY <3>1, <3>2
    <2>2. QED
      BY <1>1, <1>5, <2>1 DEF InsertRefused
  <1>6. CASE ~(~new /\ (user[u] = None \/ Taken(u)))
    <2>1. /\ user' = [user EXCEPT ![u] = [email |-> e]] /\ reg' = [reg EXCEPT ![g] = row]
          /\ lastPk' = keys /\ Move(p, "mail", g)
      BY <1>1, <1>6
    <2>2. g = lastPk.reg + 1 /\ reg[g] = None
      BY <1>1, Keys DEF NextPk, KeysAreUsed
    <2>3. CASE new
      <3>1. u = lastPk.user + 1
        BY <2>3 DEF NextPk
      <3>2. user[u] = None
        BY <1>1, <3>1, Keys DEF KeysAreUsed
      <3>3. RegistrationOf(u) = {}
        BY <3>2 DEF RegistrationOf, KeysAreUsed
      <3>4. keys = [user |-> u, reg |-> g]
        BY <2>3
      <3> HIDE DEF u, g, row
      <3>5. /\ keys \in [user : {0} \cup UserPks, reg : {0} \cup RegPks]
            /\ keys.user = u /\ keys.reg = g
        BY <1>1, <3>4
      <3> HIDE DEF keys
      <3>6. Inserts(p, u, g)
        BY <2>1, <2>2, <2>3, <3>1, <3>2, <3>3, <3>5 DEF Inserts, row
      <3>7. QED
        BY <1>1, <3>6
    <2>4. CASE ~new
      <3>1. user[u] # None /\ user[u].email = e /\ RegistrationOf(u) = {}
        BY <1>4, <1>6, <2>4 DEF Taken
      <3>2. keys = [user |-> lastPk.user, reg |-> g]
        BY <2>4
      <3>3. lastPk.user \in {0} \cup UserPks
        BY DEF TypeOK
      <3> HIDE DEF u, g, row
      <3>4. /\ keys \in [user : {0} \cup UserPks, reg : {0} \cup RegPks]
            /\ keys.user = lastPk.user /\ keys.reg = g
        BY <1>1, <3>2, <3>3
      <3> HIDE DEF keys
      <3>5. Inserts(p, u, g)
        BY <2>1, <2>2, <3>1, <3>4 DEF Inserts, row
      <3>6. QED
        BY <1>1, <3>5
    <2>5. QED
      BY <2>3, <2>4
  <1>7. QED
    BY <1>5, <1>6

(* The rows after an insert. *)
LEMMA InsertedRows ==
  ASSUME TypeOK, KeysAreUsed, NEW p \in Procs, Submits(p),
         NEW u \in UserPks, NEW g \in RegPks, Inserts(p, u, g)
  PROVE  /\ TableTypes
         /\ user'[u] \in UserRow /\ user'[u].email = frame[p].email /\ user'[u] # None
         /\ user[u] # None => user'[u] = user[u]
         /\ \A v \in UserPks : v # u => user'[v] = user[v]
         /\ reg'[g] # None /\ reg'[g].user = u /\ reg'[g].status = "UNVERIFIED"
         /\ \A h \in RegPks : h # g => reg'[h] = reg[h]
  <1> DEFINE urow == [email |-> frame[p].email]
             row == [user |-> u, fee_chf |-> FeeFor(today), status |-> "UNVERIFIED"]
  <1>1. urow \in UserRow /\ urow.email = frame[p].email
    BY SubmittingFrame DEF UserRow
  <1>2. row \in RegistrationRow /\ row.user = u /\ row.status = "UNVERIFIED"
    <2>1. FeeFor(today) \in Fee
      BY FeeOfTheDay DEF TypeOK
    <2>2. QED
      BY <2>1 DEF RegistrationRow, Status
  <1>3. user' = [user EXCEPT ![u] = urow] /\ reg' = [reg EXCEPT ![g] = row]
    BY DEF Inserts
  <1>4. lastPk' \in [user : {0} \cup UserPks, reg : {0} \cup RegPks]
    BY DEF Inserts
  <1>5. user[u] # None => user[u] = urow
    BY RowOfUser DEF Inserts
  <1>6. urow # None /\ row # None
    BY <1>1, <1>2, NullsAssumption
  <1> HIDE DEF urow, row
  <1>7. /\ user' \in [UserPks -> UserRow \cup {None}] /\ user'[u] = urow
        /\ \A v \in UserPks : v # u => user'[v] = user[v]
    BY <1>1, <1>3 DEF TypeOK
  <1>8. /\ reg' \in [RegPks -> RegistrationRow \cup {None}] /\ reg'[g] = row
        /\ \A h \in RegPks : h # g => reg'[h] = reg[h]
    BY <1>2, <1>3 DEF TypeOK
  <1>9. QED
    BY <1>1, <1>2, <1>4, <1>5, <1>6, <1>7, <1>8 DEF TableTypes, urow

LEMMA InsertedTables ==
  ASSUME TypeOK, KeysAreUsed, NEW p \in Procs, Submits(p),
         NEW u \in UserPks, NEW g \in RegPks, Inserts(p, u, g)
  PROVE  TableEffect
  <1>1. /\ TableTypes
        /\ user'[u] \in UserRow /\ user'[u].email = frame[p].email /\ user'[u] # None
        /\ user[u] # None => user'[u] = user[u]
        /\ \A v \in UserPks : v # u => user'[v] = user[v]
        /\ reg'[g].user = u
        /\ \A h \in RegPks : h # g => reg'[h] = reg[h]
    BY InsertedRows
  <1>2. /\ \/ /\ user[u] = None /\ UserOf(frame[p].email) = {}
              /\ u = lastPk.user + 1 /\ lastPk'.user = u
           \/ user[u] # None /\ lastPk'.user = lastPk.user
        /\ reg[g] = None /\ g = lastPk.reg + 1 /\ lastPk'.reg = g
        /\ RegistrationOf(u) = {}
    BY DEF Inserts
  <1>3. lastPk.user <= lastPk'.user /\ lastPk.reg <= lastPk'.reg
    BY <1>2, Keys
  <1>4. ASSUME NEW v \in UserPks PROVE UserMoves(v)
    BY <1>1, <1>2 DEF UserMoves
  <1>5. ASSUME NEW h \in RegPks PROVE RegMoves(h)
    BY <1>1, <1>2 DEF RegMoves
  <1>6. QED
    BY <1>1, <1>3, <1>4, <1>5 DEF TableEffect

LEMMA SavedRow ==
  ASSUME TypeOK, NEW g \in RegPks, reg[g] # None,
         reg' = [reg EXCEPT ![g].status = "VERIFIED"]
  PROVE  /\ reg' \in [RegPks -> RegistrationRow \cup {None}]
         /\ reg'[g].user = reg[g].user /\ reg'[g] # None
         /\ \A h \in RegPks : h # g => reg'[h] = reg[h]
  <1>1. PICK old \in RegistrationRow : old = reg[g]
    BY RowOfReg
  <1> DEFINE row == [old EXCEPT !.status = "VERIFIED"]
  <1>2. row \in RegistrationRow /\ row.user = old.user
    BY DEF RegistrationRow, Status
  <1>3. reg' = [reg EXCEPT ![g] = row]
    BY <1>1 DEF TypeOK
  <1> HIDE DEF row
  <1>4. QED
    BY <1>1, <1>2, <1>3, NullsAssumption DEF TypeOK

LEMMA SavedTables ==
  ASSUME TypeOK, NEW g \in RegPks, reg[g] # None, UNCHANGED <<user, lastPk>>,
         reg' = [reg EXCEPT ![g].status = "VERIFIED"]
  PROVE  TableEffect
  <1>1. /\ reg' \in [RegPks -> RegistrationRow \cup {None}]
        /\ reg'[g].user = reg[g].user
        /\ \A h \in RegPks : h # g => reg'[h] = reg[h]
    BY SavedRow
  <1>2. \A h \in RegPks : \/ reg'[h] \in {reg[h], None}
                          \/ reg[h] # None /\ reg'[h].user = reg[h].user
    BY <1>1
  <1>3. QED
    BY <1>1, <1>2, RegsChange

LEMMA DeletedTables ==
  ASSUME TypeOK, NEW e \in Addresses, Delete(e) PROVE TableEffect
  <1> DEFINE u == session[e]
  <1>1. /\ u \in UserPks /\ user' = [user EXCEPT ![u] = None]
        /\ reg' = [g \in RegPks |-> IF g \in RegistrationOf(u) THEN None ELSE reg[g]]
        /\ session' = [f \in Addresses |-> IF session[f] = u THEN None ELSE session[f]]
        /\ lastPk' = lastPk
    BY DEF Delete, TypeOK
  <1> HIDE DEF u
  <1>2. /\ user' \in [UserPks -> UserRow \cup {None}] /\ user'[u] = None
        /\ \A v \in UserPks : v # u => user'[v] = user[v]
    BY <1>1 DEF TypeOK
  <1>3. /\ reg' \in [RegPks -> RegistrationRow \cup {None}]
        /\ \A g \in RegPks : reg'[g] \in {reg[g], None}
        /\ \A g \in RegistrationOf(u) : reg'[g] = None
    BY <1>1 DEF TypeOK, RegistrationOf
  <1>4. \A f \in Addresses : session'[f] # u
    BY <1>1, NullsAssumption
  <1>5. \A v \in UserPks : UserMoves(v)
    BY <1>2, <1>3, <1>4 DEF UserMoves
  <1>6. \A g \in RegPks : RegMoves(g)
    BY <1>3 DEF RegMoves
  <1>7. lastPk.user <= lastPk'.user /\ lastPk.reg <= lastPk'.reg
    BY <1>1, Keys
  <1>8. QED
    BY <1>1, <1>2, <1>3, <1>5, <1>6, <1>7 DEF TypeOK, TableEffect, TableTypes

LEMMA TableStep ==
  ASSUME EInv, [Next]_vars PROVE TableEffect
  <1>0. TypeOK /\ KeysAreUsed /\ SubmissionsKnow
    BY DEF EInv
  <1>1. ASSUME NEW p \in Procs, Insert(p) PROVE TableEffect
    <2>1. CASE UNCHANGED tables
      BY <1>0, <2>1, TablesAtRest
    <2>2. ASSUME NEW u \in UserPks, NEW g \in RegPks, Inserts(p, u, g) PROVE TableEffect
      <3>1. Submits(p)
        BY <1>1 DEF Insert, At, Submits
      <3>2. QED
        BY <1>0, <2>2, <3>1, InsertedTables
    <2>3. QED
      BY <1>0, <1>1, <2>1, <2>2, InsertCases DEF InsertRefused
  <1>2. ASSUME NEW p \in Procs, SaveConfirmed(p) PROVE TableEffect
    <2> DEFINE g == frame[p].pk
    <2>1. /\ frame[p] # Idle /\ frame[p].op = "confirm"
          /\ reg' = IF reg[g] = None THEN reg ELSE [reg EXCEPT ![g].status = "VERIFIED"]
          /\ UNCHANGED <<user, lastPk>>
      BY <1>2 DEF SaveConfirmed
    <2>2. g \in RegPks
      BY <1>0, <2>1 DEF TypeOK, Submission, Confirmation
    <2> HIDE DEF g
    <2>3. CASE reg[g] = None
      BY <1>0, <2>1, <2>3, TablesAtRest DEF tables
    <2>4. CASE reg[g] # None
      BY <1>0, <2>1, <2>2, <2>4, SavedTables
    <2>5. QED
      BY <2>3, <2>4
  <1>3. ASSUME NEW e \in Addresses, PayDeposit(e) PROVE TableEffect
    <2>1. PICK g \in RegistrationOf(session[e]) : reg' = [reg EXCEPT ![g].status = "VERIFIED"]
      BY <1>3 DEF PayDeposit
    <2>2. UNCHANGED <<user, lastPk>> /\ g \in RegPks /\ reg[g] # None
      BY <1>3 DEF PayDeposit, RegistrationOf
    <2>3. QED
      BY <1>0, <2>1, <2>2, SavedTables
  <1>4. ASSUME NEW e \in Addresses, Delete(e) PROVE TableEffect
    BY <1>0, <1>4, DeletedTables
  <1>5. ASSUME NEW g \in RegPks, StaffDelete(g) PROVE TableEffect
    <2>1. reg' = [reg EXCEPT ![g] = None] /\ UNCHANGED <<user, lastPk>>
      BY <1>5 DEF StaffDelete
    <2>2. /\ reg' \in [RegPks -> RegistrationRow \cup {None}]
          /\ \A h \in RegPks : reg'[h] \in {reg[h], None}
      BY <1>0, <2>1 DEF TypeOK
    <2>3. QED
      BY <1>0, <2>1, <2>2, RegsChange
  <1>6. ASSUME NEW p \in Procs,
               \/ Lookup(p) \/ Pending(p) \/ GetUser(p) \/ MailNew(p) \/ Rescue(p) \/ Crash(p)
        PROVE  TableEffect
    <2>1. UNCHANGED tables
      BY <1>6 DEF Lookup, Pending, GetUser, MailNew, Rescue, Crash
    <2>2. QED
      BY <1>0, <2>1, TablesAtRest
  <1>7. ASSUME NEW e \in Addresses,
               \/ \E p \in Procs : OpenConfirm(p, e) \/ Submit(p, e)
               \/ RequestLogin(e) \/ OpenLogin(e) \/ Logout(e) \/ Resend(e) \/ LinkExpires(e)
        PROVE  TableEffect
    <2>1. UNCHANGED tables
      BY <1>7 DEF OpenConfirm, Submit, RequestLogin, OpenLogin, Logout, Resend, LinkExpires
    <2>2. QED
      BY <1>0, <2>1, TablesAtRest
  <1>8. CASE DayPasses
    BY <1>0, <1>8, TablesAtRest DEF DayPasses
  <1>9. CASE UNCHANGED vars
    BY <1>0, <1>9, TablesAtRest DEF vars
  <1>10. QED
    BY <1>1, <1>2, <1>3, <1>4, <1>5, <1>6, <1>7, <1>8, <1>9 DEF Next, Proceed

-----------------------------------------------------------------------------
(* What follows for the tables *)

LEMMA UserStaysOwn ==
  ASSUME TypeOK, TableEffect, NEW u \in UserPks, NEW e \in Addresses, UserIs(u, e)
  PROVE  UserIs(u, e)'
  <1>1. UserMoves(u) /\ lastPk.user <= lastPk'.user
    BY DEF TableEffect
  <1>2. lastPk.user \in Nat /\ lastPk'.user \in Nat /\ u \in Nat
    <2>1. lastPk'.user \in {0} \cup UserPks
      BY DEF TableEffect, TableTypes
    <2>2. {0} \cup UserPks \subseteq Nat
      BY PksAssumption
    <2>3. QED
      BY <2>1, <2>2, Keys
  <1>3. u <= lastPk.user /\ (user[u] # None => user[u].email = e)
    BY DEF UserIs
  <1>4. u <= lastPk'.user /\ ~(u = lastPk.user + 1)
    BY <1>1, <1>2, <1>3
  <1>5. QED
    BY <1>1, <1>3, <1>4 DEF UserIs, UserMoves

(* A user that has a registration stays as long as it does. *)
LEMMA OwnerStays ==
  ASSUME TypeOK, KeysAreUsed, TableEffect, NEW g \in RegPks, reg[g] # None, reg'[g] # None
  PROVE  /\ reg'[g].user = reg[g].user /\ reg[g].user \in UserPks
         /\ user'[reg[g].user] = user[reg[g].user] /\ user[reg[g].user] # None
  <1>1. reg'[g].user = reg[g].user
    BY DEF TableEffect, RegMoves
  <1> DEFINE u == reg[g].user
  <1>2. u \in UserPks /\ user[u] # None /\ g \in RegistrationOf(u)
    BY RowOfReg DEF KeysAreUsed, RegistrationOf
  <1> HIDE DEF u
  <1>3. UserMoves(u)
    BY <1>2 DEF TableEffect
  <1>4. user'[u] = user[u]
    BY <1>2, <1>3 DEF UserMoves
  <1>5. QED
    BY <1>1, <1>2, <1>4 DEF u

LEMMA RegStaysOwn ==
  ASSUME TypeOK, KeysAreUsed, TableEffect, NEW g \in RegPks, NEW e \in Addresses, RegIs(g, e)
  PROVE  RegIs(g, e)'
  <1>1. RegMoves(g) /\ lastPk.reg <= lastPk'.reg
    BY DEF TableEffect
  <1>2. lastPk.reg \in Nat /\ lastPk'.reg \in Nat /\ g \in Nat
    <2>1. lastPk'.reg \in {0} \cup RegPks
      BY DEF TableEffect, TableTypes
    <2>2. {0} \cup RegPks \subseteq Nat
      BY PksAssumption
    <2>3. QED
      BY <2>1, <2>2, Keys
  <1>3. g <= lastPk.reg /\ (reg[g] # None => user[reg[g].user].email = e)
    BY DEF RegIs
  <1>4. g <= lastPk'.reg /\ ~(g = lastPk.reg + 1)
    BY <1>1, <1>2, <1>3
  <1>5. reg'[g] # None => reg[g] # None
    BY <1>1, <1>4 DEF RegMoves
  <1>6. reg'[g] # None => user'[reg'[g].user].email = e
    BY <1>3, <1>5, OwnerStays
  <1>7. QED
    BY <1>4, <1>6 DEF RegIs

LEMMA StaysUsed ==
  ASSUME TypeOK, KeysAreUsed, TableEffect PROVE KeysAreUsed'
  <1>0. /\ lastPk.user \in Nat /\ lastPk.reg \in Nat
        /\ lastPk'.user \in Nat /\ lastPk'.reg \in Nat
    <2>1. lastPk'.user \in {0} \cup UserPks /\ lastPk'.reg \in {0} \cup RegPks
      BY DEF TableEffect, TableTypes
    <2>2. {0} \cup UserPks \subseteq Nat /\ {0} \cup RegPks \subseteq Nat
      BY PksAssumption
    <2>3. QED
      BY <2>1, <2>2, Keys
  <1>1. ASSUME NEW u \in UserPks, user'[u] # None PROVE u <= lastPk'.user
    <2>1. UserMoves(u) /\ lastPk.user <= lastPk'.user /\ u \in Nat
      BY PksAssumption DEF TableEffect
    <2>2. user[u] # None => u <= lastPk.user
      BY DEF KeysAreUsed
    <2>3. QED
      BY <1>0, <1>1, <2>1, <2>2 DEF UserMoves
  <1>2. ASSUME NEW g \in RegPks, reg'[g] # None
        PROVE  g <= lastPk'.reg /\ user'[reg'[g].user] # None
    <2>1. RegMoves(g) /\ lastPk.reg <= lastPk'.reg /\ g \in Nat
      BY PksAssumption DEF TableEffect
    <2>2. reg[g] # None => g <= lastPk.reg
      BY DEF KeysAreUsed
    <2>3. CASE reg[g] # None
      BY <1>0, <1>2, <2>1, <2>2, <2>3, OwnerStays
    <2>4. CASE reg[g] = None
      BY <1>0, <1>2, <2>1, <2>4 DEF RegMoves
    <2>5. QED
      BY <2>3, <2>4
  <1>3. QED
    BY <1>1, <1>2 DEF KeysAreUsed

LEMMA StaysOneEach ==
  ASSUME TypeOK, KeysAreUsed, OneEach, TableEffect PROVE OneEach'
  <1>1. ASSUME NEW u \in UserPks, NEW v \in UserPks, user'[u] # None, user'[v] # None,
               user'[u].email = user'[v].email
        PROVE  u = v
    <2>1. UserMoves(u) /\ UserMoves(v)
      BY DEF TableEffect
    <2>2. CASE user'[u] = user[u] /\ user'[v] = user[v]
      BY <1>1, <2>2 DEF OneEach
    <2>3. CASE user'[u] # user[u]
      <3>1. UserOf(user'[u].email) = {} /\ u = lastPk'.user
        BY <1>1, <2>1, <2>3 DEF UserMoves
      <3>2. user'[v] # user[v]
        BY <1>1, <3>1 DEF UserOf
      <3>3. QED
        BY <1>1, <2>1, <3>1, <3>2 DEF UserMoves
    <2>4. CASE user'[v] # user[v]
      <3>1. UserOf(user'[v].email) = {} /\ v = lastPk'.user
        BY <1>1, <2>1, <2>4 DEF UserMoves
      <3>2. user'[u] # user[u]
        BY <1>1, <3>1 DEF UserOf
      <3>3. QED
        BY <1>1, <2>1, <3>1, <3>2 DEF UserMoves
    <2>5. QED
      BY <2>2, <2>3, <2>4
  <1>2. ASSUME NEW g \in RegPks, NEW h \in RegPks, reg'[g] # None, reg'[h] # None,
               reg'[g].user = reg'[h].user
        PROVE  g = h
    <2>1. RegMoves(g) /\ RegMoves(h)
      BY DEF TableEffect
    <2>2. CASE reg[g] # None /\ reg[h] # None
      BY <1>2, <2>2, OwnerStays DEF OneEach
    <2>3. CASE reg[g] = None
      <3>1. RegistrationOf(reg'[g].user) = {} /\ g = lastPk'.reg
        BY <1>2, <2>1, <2>3 DEF RegMoves
      <3>2. reg[h] = None
        BY <1>2, <3>1, OwnerStays DEF RegistrationOf
      <3>3. QED
        BY <1>2, <2>1, <3>1, <3>2 DEF RegMoves
    <2>4. CASE reg[h] = None
      <3>1. RegistrationOf(reg'[h].user) = {} /\ h = lastPk'.reg
        BY <1>2, <2>1, <2>4 DEF RegMoves
      <3>2. reg[g] = None
        BY <1>2, <3>1, OwnerStays DEF RegistrationOf
      <3>3. QED
        BY <1>2, <2>1, <3>1, <3>2 DEF RegMoves
    <2>5. QED
      BY <2>2, <2>3, <2>4
  <1>3. QED
    BY <1>1, <1>2 DEF OneEach

-----------------------------------------------------------------------------
(* What a step may do to the mailboxes *)

InboxEffect ==
  /\ inbox' \in [Addresses -> SUBSET Link]
  /\ \A e \in Addresses : \A link \in inbox'[e] : link \in inbox[e] \/ LeadsTo(link, e)

LEMMA InboxAtRest ==
  ASSUME TypeOK, UNCHANGED inbox PROVE InboxEffect
  BY DEF TypeOK, InboxEffect

LEMMA Sent ==
  ASSUME TypeOK, NEW e \in Addresses, NEW links \in SUBSET Link,
         \A link \in links : LeadsTo(link, e), Send(e, links)
  PROVE  InboxEffect
  <1>1. /\ inbox' \in [Addresses -> SUBSET Link] /\ inbox'[e] = inbox[e] \cup links
        /\ \A f \in Addresses : f # e => inbox'[f] = inbox[f]
    BY DEF Send, TypeOK
  <1>2. QED
    BY <1>1 DEF InboxEffect

LEMMA UserLinks ==
  ASSUME TypeOK, KeysAreUsed, NEW e \in Addresses, NEW links,
         links = {LoginLink(u) : u \in UserOf(e)}
  PROVE  links \in SUBSET Link /\ \A link \in links : LeadsTo(link, e)
  <1>1. ASSUME NEW u \in UserOf(e) PROVE LoginLink(u) \in Link /\ LeadsTo(LoginLink(u), e)
    <2>1. u \in UserPks /\ UserIs(u, e)
      BY DEF UserOf, UserIs, KeysAreUsed
    <2>2. QED
      BY <2>1 DEF LoginLink, Link, LeadsTo
  <1>2. QED
    BY <1>1

LEMMA RegLinks ==
  ASSUME NEW e \in Addresses, NEW regs, \A g \in regs : RegIs(g, e), NEW links,
         links = ConfirmationMail(regs)
  PROVE  links \in SUBSET Link /\ \A link \in links : LeadsTo(link, e)
  <1>1. ASSUME NEW g \in regs PROVE ConfirmLink(g) \in Link /\ LeadsTo(ConfirmLink(g), e)
    <2>1. g \in RegPks /\ RegIs(g, e)
      BY DEF RegIs
    <2>2. QED
      BY <2>1 DEF ConfirmLink, Link, LeadsTo
  <1>2. QED
    BY <1>1 DEF ConfirmationMail

LEMMA RegsAtLead ==
  ASSUME KeysAreUsed, NEW e \in Addresses PROVE \A g \in RegistrationAt(e) : RegIs(g, e)
  BY DEF RegistrationAt, RegistrationOf, UserOf, RegIs, KeysAreUsed

LEMMA InboxStep ==
  ASSUME EInv, [Next]_vars PROVE InboxEffect
  <1>0. TypeOK /\ KeysAreUsed /\ SubmissionsKnow /\ SessionIsOwn
    BY DEF EInv
  <1>1. ASSUME NEW p \in Procs, Lookup(p) PROVE InboxEffect
    <2> DEFINE e == frame[p].email
               links == AlreadyRegisteredMail(e)
    <2>1. At(p, "lookup") /\ (UNCHANGED inbox \/ Send(e, links))
      BY <1>1 DEF Lookup
    <2>2. e \in Addresses
      BY <1>0, <2>1, SubmittingFrame DEF At, Submits
    <2>3. links \in SUBSET Link /\ \A link \in links : LeadsTo(link, e)
      BY <1>0, <2>2, UserLinks DEF AlreadyRegisteredMail
    <2> HIDE DEF e, links
    <2>4. QED
      BY <1>0, <2>1, <2>2, <2>3, Sent, InboxAtRest
  <1>2. ASSUME NEW p \in Procs, Pending(p) \/ Rescue(p) PROVE InboxEffect
    <2> DEFINE e == frame[p].email
               regs == Unverified(e)
               links == ConfirmationMail(regs)
    <2>1. (At(p, "pending") \/ At(p, "rescue")) /\ (UNCHANGED inbox \/ Send(e, links))
      BY <1>2 DEF Pending, Rescue
    <2>2. e \in Addresses
      BY <1>0, <2>1, SubmittingFrame DEF At, Submits
    <2>3. \A g \in regs : RegIs(g, e)
      BY <1>0, <2>2, RegsAtLead DEF Unverified
    <2> HIDE DEF e, regs
    <2>4. links \in SUBSET Link /\ \A link \in links : LeadsTo(link, e)
      BY <2>2, <2>3, RegLinks
    <2> HIDE DEF links
    <2>5. QED
      BY <1>0, <2>1, <2>2, <2>4, Sent, InboxAtRest
  <1>3. ASSUME NEW p \in Procs, MailNew(p) PROVE InboxEffect
    <2> DEFINE e == frame[p].email
               regs == {frame[p].row}
               links == ConfirmationMail(regs)
    <2>1. At(p, "mail") /\ Send(e, links)
      BY <1>3 DEF MailNew
    <2>2. e \in Addresses /\ Submits(p)
      BY <1>0, <2>1, SubmittingFrame DEF At, Submits
    <2>3. \A g \in regs : RegIs(g, e)
      BY <1>0, <2>1, <2>2 DEF SubmissionsKnow, Knows, At
    <2> HIDE DEF e, regs
    <2>4. links \in SUBSET Link /\ \A link \in links : LeadsTo(link, e)
      BY <2>2, <2>3, RegLinks
    <2> HIDE DEF links
    <2>5. QED
      BY <1>0, <2>1, <2>2, <2>4, Sent
  <1>4. ASSUME NEW e \in Addresses, RequestLogin(e) PROVE InboxEffect
    <2> DEFINE links == LoginMail(e)
    <2>1. links \in SUBSET Link /\ \A link \in links : LeadsTo(link, e)
      BY <1>0, UserLinks DEF LoginMail
    <2>2. Send(e, links)
      BY <1>4 DEF RequestLogin
    <2> HIDE DEF links
    <2>3. QED
      BY <1>0, <2>1, <2>2, Sent
  <1>5. ASSUME NEW e \in Addresses, Resend(e) PROVE InboxEffect
    <2>1. PICK g \in RegistrationOf(session[e]) :
            Send(user[session[e]].email, ConfirmationMail({g}))
      BY <1>5 DEF Resend
    <2>2. session[e] # None /\ user[session[e]].email = e
      BY <1>0, <1>5 DEF Resend, SessionIsOwn
    <2> DEFINE regs == {g}
               links == ConfirmationMail(regs)
    <2>3. \A h \in regs : RegIs(h, e)
      BY <1>0, <2>2 DEF RegIs, RegistrationOf, KeysAreUsed
    <2>4. Send(e, links)
      BY <2>1, <2>2
    <2> HIDE DEF regs
    <2>5. links \in SUBSET Link /\ \A link \in links : LeadsTo(link, e)
      BY <2>3, RegLinks
    <2> HIDE DEF links
    <2>6. QED
      BY <1>0, <2>4, <2>5, Sent
  <1>6. ASSUME NEW e \in Addresses, LinkExpires(e) PROVE InboxEffect
    <2>1. PICK link \in inbox[e] : inbox' = [inbox EXCEPT ![e] = @ \ {link}]
      BY <1>6 DEF LinkExpires
    <2>2. QED
      BY <1>0, <2>1 DEF TypeOK, InboxEffect
  <1>7. ASSUME NEW p \in Procs, GetUser(p) \/ Insert(p) \/ SaveConfirmed(p) \/ Crash(p)
        PROVE  InboxEffect
    <2>1. UNCHANGED inbox
      BY <1>7 DEF GetUser, Insert, SaveConfirmed, Crash
    <2>2. QED
      BY <1>0, <2>1, InboxAtRest
  <1>8. ASSUME NEW e \in Addresses,
               \/ \E p \in Procs : OpenConfirm(p, e) \/ Submit(p, e)
               \/ PayDeposit(e) \/ OpenLogin(e) \/ Logout(e) \/ Delete(e)
        PROVE  InboxEffect
    <2>1. UNCHANGED inbox
      BY <1>8 DEF OpenConfirm, Submit, PayDeposit, OpenLogin, Logout, Delete
    <2>2. QED
      BY <1>0, <2>1, InboxAtRest
  <1>9. ASSUME DayPasses \/ \E g \in RegPks : StaffDelete(g) PROVE InboxEffect
    <2>1. UNCHANGED inbox
      BY <1>9 DEF DayPasses, StaffDelete
    <2>2. QED
      BY <1>0, <2>1, InboxAtRest
  <1>10. CASE UNCHANGED vars
    BY <1>0, <1>10, InboxAtRest DEF vars
  <1>11. QED
    BY <1>1, <1>2, <1>3, <1>4, <1>5, <1>6, <1>7, <1>8, <1>9, <1>10 DEF Next, Proceed

LEMMA StaysLeading ==
  ASSUME TypeOK, KeysAreUsed, LinksLead, TableEffect, InboxEffect PROVE LinksLead'
  <1> SUFFICES ASSUME NEW e \in Addresses, NEW link \in inbox'[e] PROVE LeadsTo(link, e)'
    BY DEF LinksLead
  <1>1. LeadsTo(link, e)
    BY DEF LinksLead, InboxEffect
  <1>2. CASE link.use = "login"
    <2>1. link.pk \in UserPks /\ UserIs(link.pk, e)
      BY <1>1, <1>2 DEF LeadsTo, UserIs
    <2>2. UserIs(link.pk, e)'
      BY <2>1, UserStaysOwn
    <2>3. QED
      BY <1>2, <2>2 DEF LeadsTo
  <1>3. CASE link.use # "login"
    <2>1. link.pk \in RegPks /\ RegIs(link.pk, e)
      BY <1>1, <1>3 DEF LeadsTo, RegIs
    <2>2. RegIs(link.pk, e)'
      BY <2>1, RegStaysOwn
    <2>3. QED
      BY <1>3, <2>2 DEF LeadsTo
  <1>4. QED
    BY <1>2, <1>3

-----------------------------------------------------------------------------
(* What a step may do to the sessions *)

Owns(u, e) == u \in UserPks /\ user[u] # None /\ user[u].email = e

SessionEffect ==
  /\ session' \in [Addresses -> UserPks \cup {None}]
  /\ \A e \in Addresses : session'[e] \in {None, session[e]} \/ Owns(session'[e], e)

LEMMA SessionAtRest ==
  ASSUME TypeOK, UNCHANGED session PROVE SessionEffect
  BY DEF TypeOK, SessionEffect

LEMMA SignedIn ==
  ASSUME TypeOK, NEW e \in Addresses, NEW u, Owns(u, e), session' = [session EXCEPT ![e] = u]
  PROVE  SessionEffect
  BY DEF TypeOK, Owns, SessionEffect

LEMMA SessionStep ==
  ASSUME EInv, [Next]_vars PROVE SessionEffect
  <1>0. TypeOK /\ KeysAreUsed /\ LinksLead
    BY DEF EInv
  <1>1. ASSUME NEW p \in Procs, NEW e \in Addresses, OpenConfirm(p, e) PROVE SessionEffect
    <2>1. PICK link \in inbox[e] :
            /\ link.use = "confirm" /\ Works(link)
            /\ session' = [session EXCEPT ![e] = reg[link.pk].user]
      BY <1>1 DEF OpenConfirm
    <2>2. RegIs(link.pk, e) /\ link.pk \in RegPks /\ reg[link.pk] # None
      BY <1>0, <2>1 DEF LinksLead, LeadsTo, Works, RegIs
    <2>3. Owns(reg[link.pk].user, e)
      BY <1>0, <2>2, RowOfReg DEF RegIs, KeysAreUsed, Owns
    <2>4. QED
      BY <1>0, <2>1, <2>3, SignedIn
  <1>2. ASSUME NEW e \in Addresses, OpenLogin(e) PROVE SessionEffect
    <2>1. PICK link \in inbox[e] :
            /\ link.use = "login" /\ Works(link)
            /\ session' = [session EXCEPT ![e] = link.pk]
      BY <1>2 DEF OpenLogin
    <2>2. Owns(link.pk, e)
      BY <1>0, <2>1 DEF LinksLead, LeadsTo, Works, UserIs, Owns
    <2>3. QED
      BY <1>0, <2>1, <2>2, SignedIn
  <1>3. ASSUME NEW e \in Addresses, Logout(e) PROVE SessionEffect
    BY <1>0, <1>3 DEF Logout, TypeOK, SessionEffect
  <1>4. ASSUME NEW e \in Addresses, Delete(e) PROVE SessionEffect
    BY <1>0, <1>4 DEF Delete, TypeOK, SessionEffect
  <1>5. ASSUME NEW p \in Procs, Proceed(p) \/ Crash(p) PROVE SessionEffect
    <2>1. UNCHANGED session
      BY <1>5 DEF Proceed, Lookup, Pending, GetUser, Insert, MailNew, Rescue, SaveConfirmed, Crash
    <2>2. QED
      BY <1>0, <2>1, SessionAtRest
  <1>6. ASSUME NEW e \in Addresses,
               \/ \E p \in Procs : Submit(p, e)
               \/ PayDeposit(e) \/ RequestLogin(e) \/ Resend(e) \/ LinkExpires(e)
        PROVE  SessionEffect
    <2>1. UNCHANGED session
      BY <1>6 DEF Submit, PayDeposit, RequestLogin, Resend, LinkExpires
    <2>2. QED
      BY <1>0, <2>1, SessionAtRest
  <1>7. ASSUME DayPasses \/ \E g \in RegPks : StaffDelete(g) PROVE SessionEffect
    <2>1. UNCHANGED session
      BY <1>7 DEF DayPasses, StaffDelete
    <2>2. QED
      BY <1>0, <2>1, SessionAtRest
  <1>8. CASE UNCHANGED vars
    BY <1>0, <1>8, SessionAtRest DEF vars
  <1>9. QED
    BY <1>1, <1>2, <1>3, <1>4, <1>5, <1>6, <1>7, <1>8 DEF Next

LEMMA StaysOwnSession ==
  ASSUME SessionIsOwn, TableEffect, SessionEffect PROVE SessionIsOwn'
  <1> SUFFICES ASSUME NEW e \in Addresses, session'[e] # None
               PROVE  user'[session'[e]] # None /\ user'[session'[e]].email = e
    BY DEF SessionIsOwn
  <1> DEFINE u == session'[e]
  <1>1. u \in UserPks /\ user[u] # None /\ user[u].email = e
    BY DEF SessionEffect, SessionIsOwn, Owns
  <1>2. UserMoves(u)
    BY <1>1 DEF TableEffect
  <1> HIDE DEF u
  <1>3. user'[u] = user[u]
    <2>1. session'[e] = u
      BY DEF u
    <2>2. QED
      BY <1>1, <1>2, <2>1 DEF UserMoves
  <1>4. QED
    BY <1>1, <1>3 DEF u

-----------------------------------------------------------------------------
(* What a step may take from a submission *)

Lost(e) ==
  \/ \E u \in UserPks : user[u] # None /\ user[u].email = e /\ user'[u] = None
  \/ \E g \in RegPks : reg[g] # None /\ user[reg[g].user].email = e /\ reg'[g] = None

UndoneEffect ==
  /\ undone' \in SUBSET Procs
  /\ \A p \in Procs : Submits(p) /\ frame'[p] = frame[p] =>
       /\ p \in undone => p \in undone'
       /\ Lost(frame[p].email) => p \in undone'

NothingGoes ==
  /\ \A u \in UserPks : user[u] # None => user'[u] # None
  /\ \A g \in RegPks : reg[g] # None => reg'[g] # None

LEMMA UndoneAtRest ==
  ASSUME TypeOK, NothingGoes, UNCHANGED undone PROVE UndoneEffect
  BY DEF TypeOK, NothingGoes, UndoneEffect, Lost

LEMMA UndoneFinished ==
  ASSUME TypeOK, NothingGoes, NEW p \in Procs, Finish(p) PROVE UndoneEffect
  <1>1. frame'[p] = Idle /\ undone' = undone \ {p} /\ undone' \in SUBSET Procs
    BY FinishedFrame
  <1>2. QED
    BY <1>1 DEF NothingGoes, UndoneEffect, Lost, Submits

LEMMA TablesStay ==
  ASSUME UNCHANGED tables PROVE NothingGoes
  BY DEF tables, NothingGoes

LEMMA UndoneStep ==
  ASSUME EInv, [Next]_vars PROVE UndoneEffect
  <1>0. TypeOK /\ KeysAreUsed /\ SubmissionsKnow /\ SessionIsOwn
    BY DEF EInv
  <1>1. ASSUME NEW p \in Procs, Insert(p) PROVE UndoneEffect
    <2>1. UNCHANGED undone /\ Submits(p)
      BY <1>1 DEF Insert, At, Submits
    <2>2. CASE UNCHANGED tables
      BY <1>0, <2>1, <2>2, TablesStay, UndoneAtRest
    <2>3. ASSUME NEW u \in UserPks, NEW g \in RegPks, Inserts(p, u, g) PROVE UndoneEffect
      <3>1. NothingGoes
        BY <1>0, <2>1, <2>3, InsertedRows DEF NothingGoes
      <3>2. QED
        BY <1>0, <2>1, <3>1, UndoneAtRest
    <2>4. QED
      BY <1>0, <1>1, <2>2, <2>3, InsertCases DEF InsertRefused
  <1>2. ASSUME NEW p \in Procs, SaveConfirmed(p) PROVE UndoneEffect
    <2> DEFINE g == frame[p].pk
    <2>1. /\ frame[p] # Idle /\ frame[p].op = "confirm"
          /\ reg' = IF reg[g] = None THEN reg ELSE [reg EXCEPT ![g].status = "VERIFIED"]
          /\ UNCHANGED user /\ Finish(p)
      BY <1>2 DEF SaveConfirmed
    <2>2. g \in RegPks
      BY <1>0, <2>1 DEF TypeOK, Submission, Confirmation
    <2> HIDE DEF g
    <2>3. NothingGoes
      <3>1. CASE reg[g] = None
        BY <2>1, <3>1 DEF NothingGoes
      <3>2. CASE reg[g] # None
        BY <1>0, <2>1, <2>2, <3>2, SavedRow DEF NothingGoes
      <3>3. QED
        BY <3>1, <3>2
    <2>4. QED
      BY <1>0, <2>1, <2>3, UndoneFinished
  <1>3. ASSUME NEW e \in Addresses, PayDeposit(e) PROVE UndoneEffect
    <2>1. PICK g \in RegistrationOf(session[e]) : reg' = [reg EXCEPT ![g].status = "VERIFIED"]
      BY <1>3 DEF PayDeposit
    <2>2. UNCHANGED <<user, undone>> /\ g \in RegPks /\ reg[g] # None
      BY <1>3 DEF PayDeposit, RegistrationOf
    <2>3. NothingGoes
      BY <1>0, <2>1, <2>2, SavedRow DEF NothingGoes
    <2>4. QED
      BY <1>0, <2>2, <2>3, UndoneAtRest
  <1>4. ASSUME NEW e \in Addresses, Delete(e) PROVE UndoneEffect
    <2> DEFINE u == session[e]
    <2>1. /\ u \in UserPks /\ user' = [user EXCEPT ![u] = None]
          /\ reg' = [g \in RegPks |-> IF g \in RegistrationOf(u) THEN None ELSE reg[g]]
          /\ undone' = undone \cup Submitting(user[u].email)
      BY <1>0, <1>4 DEF Delete, TypeOK
    <2>2. user[u] # None /\ user[u].email = e
      BY <1>0, <2>1, NullsAssumption DEF SessionIsOwn
    <2> HIDE DEF u
    <2>3. \A f \in Addresses : Lost(f) => f = e
      <3>1. \A v \in UserPks : user[v] # None /\ user'[v] = None => v = u
        BY <1>0, <2>1 DEF TypeOK
      <3>2. \A g \in RegPks : reg[g] # None /\ reg'[g] = None => reg[g].user = u
        BY <2>1 DEF RegistrationOf
      <3>3. QED
        BY <2>2, <3>1, <3>2 DEF Lost
    <2>4. undone' \in SUBSET Procs
      BY <1>0, <2>1 DEF TypeOK, Submitting
    <2>5. ASSUME NEW p \in Procs, Submits(p), Lost(frame[p].email) PROVE p \in undone'
      <3>1. frame[p].email = e
        BY <1>0, <2>3, <2>5, SubmittingFrame
      <3>2. QED
        BY <2>1, <2>2, <2>5, <3>1 DEF Submitting, Submits
    <2>6. QED
      BY <2>1, <2>4, <2>5 DEF UndoneEffect
  <1>5. ASSUME NEW g \in RegPks, StaffDelete(g) PROVE UndoneEffect
    <2>1. /\ reg[g] # None /\ reg' = [reg EXCEPT ![g] = None] /\ UNCHANGED user
          /\ undone' = undone \cup Submitting(user[reg[g].user].email)
      BY <1>5 DEF StaffDelete
    <2>2. \A f \in Addresses : Lost(f) => f = user[reg[g].user].email
      BY <1>0, <2>1 DEF Lost, TypeOK
    <2>3. undone' \in SUBSET Procs
      BY <1>0, <2>1 DEF TypeOK, Submitting
    <2>4. ASSUME NEW p \in Procs, Submits(p), Lost(frame[p].email) PROVE p \in undone'
      BY <1>0, <2>1, <2>2, <2>4, SubmittingFrame DEF Submitting, Submits
    <2>5. QED
      BY <2>1, <2>3, <2>4 DEF UndoneEffect
  <1>6. ASSUME NEW p \in Procs,
               Lookup(p) \/ Pending(p) \/ GetUser(p) \/ MailNew(p) \/ Rescue(p) \/ Crash(p)
        PROVE  UndoneEffect
    <2>1. UNCHANGED tables /\ (UNCHANGED undone \/ Finish(p))
      BY <1>6 DEF Lookup, Pending, GetUser, MailNew, Rescue, Crash
    <2>2. QED
      BY <1>0, <2>1, TablesStay, UndoneAtRest, UndoneFinished
  <1>7. ASSUME NEW e \in Addresses,
               \/ \E p \in Procs : OpenConfirm(p, e) \/ Submit(p, e)
               \/ RequestLogin(e) \/ OpenLogin(e) \/ Logout(e) \/ Resend(e) \/ LinkExpires(e)
        PROVE  UndoneEffect
    <2>1. UNCHANGED tables /\ UNCHANGED undone
      BY <1>7 DEF OpenConfirm, Submit, RequestLogin, OpenLogin, Logout, Resend, LinkExpires
    <2>2. QED
      BY <1>0, <2>1, TablesStay, UndoneAtRest
  <1>8. CASE DayPasses
    BY <1>0, <1>8, TablesStay, UndoneAtRest DEF DayPasses
  <1>9. CASE UNCHANGED vars
    BY <1>0, <1>9, TablesStay, UndoneAtRest DEF vars
  <1>10. QED
    BY <1>1, <1>2, <1>3, <1>4, <1>5, <1>6, <1>7, <1>8, <1>9 DEF Next, Proceed

-----------------------------------------------------------------------------
(* What a submission knows *)

(* The steps of the other processes. *)
LEMMA KnowsKept ==
  ASSUME TypeOK, KeysAreUsed, TableEffect, UndoneEffect,
         NEW p \in Procs, Submits(p), Knows(p), frame'[p] = frame[p]
  PROVE  Knows(p)'
  <1> DEFINE f == frame[p]
             e == f.email
  <1>1. f \in Submission /\ e \in Addresses
    BY SubmittingFrame
  <1>2. (p \in undone => p \in undone') /\ (Lost(e) => p \in undone')
    BY DEF UndoneEffect
  <1>3. ASSUME f.step = "insert", f.row # None
        PROVE  UserIs(f.row, e)' /\ (user'[f.row] # None \/ p \in undone')
    <2> DEFINE u == f.row
    <2>1. u \in UserPks /\ UserIs(u, e) /\ (user[u] # None \/ p \in undone)
      BY <1>3 DEF Knows, UserIs
    <2>2. UserIs(u, e)'
      BY <1>1, <2>1, UserStaysOwn
    <2>3. user[u] # None /\ user'[u] = None => Lost(e)
      BY <2>1 DEF UserIs, Lost
    <2>4. QED
      BY <1>2, <2>1, <2>2, <2>3
  <1>4. ASSUME f.step = "mail"
        PROVE  RegIs(f.row, e)' /\ (reg'[f.row] # None \/ p \in undone')
    <2> DEFINE g == f.row
    <2>1. g \in RegPks /\ RegIs(g, e) /\ (reg[g] # None \/ p \in undone)
      BY <1>4 DEF Knows, RegIs
    <2>2. RegIs(g, e)'
      BY <1>1, <2>1, RegStaysOwn
    <2>3. reg[g] # None /\ reg'[g] = None => Lost(e)
      BY <2>1 DEF RegIs, Lost
    <2>4. QED
      BY <1>2, <2>1, <2>2, <2>3
  <1>5. ASSUME f.step = "rescue" PROVE RegistrationAt(e)' # {} \/ p \in undone'
    <2>1. RegistrationAt(e) # {} \/ p \in undone
      BY <1>5 DEF Knows
    <2>2. ASSUME NEW g \in RegistrationAt(e), p \notin undone' PROVE RegistrationAt(e)' # {}
      <3>1. PICK u \in UserOf(e) : g \in RegistrationOf(u)
        BY DEF RegistrationAt
      <3>2. g \in RegPks /\ reg[g] # None /\ reg[g].user = u /\ user[u].email = e
        BY <3>1 DEF RegistrationOf, UserOf
      <3>3. reg'[g] # None
        BY <1>2, <2>2, <3>2 DEF Lost
      <3>4. reg'[g].user = u /\ u \in UserPks /\ user'[u] = user[u] /\ user[u] # None
        BY <3>2, <3>3, OwnerStays
      <3>5. u \in UserOf(e)' /\ g \in RegistrationOf(u)'
        BY <3>2, <3>3, <3>4 DEF UserOf, RegistrationOf
      <3>6. QED
        BY <3>5 DEF RegistrationAt
    <2>3. QED
      BY <1>2, <2>1, <2>2
  <1>6. QED
    BY <1>3, <1>4, <1>5 DEF Knows

FramesMove ==
  /\ frame' \in Frames
  /\ \A p \in Procs : Submits(p)' => \/ Submits(p) /\ frame'[p] = frame[p]
                                     \/ Knows(p)'

LEMMA FramesAtRest ==
  ASSUME TypeOK, UNCHANGED frame PROVE FramesMove
  BY DEF TypeOK, Frames, FramesMove, Submits

LEMMA FrameMoves ==
  ASSUME NEW p \in Procs, Alone(p), Submits(p)' => Knows(p)' PROVE FramesMove
  BY DEF Alone, FramesMove, Submits

LEMMA FrameFinishes ==
  ASSUME TypeOK, NEW p \in Procs, Finish(p) PROVE FramesMove
  <1>1. Alone(p) /\ ~Submits(p)'
    BY FinishedFrame DEF Submits
  <1>2. QED
    BY <1>1, FrameMoves

LEMMA FrameStep ==
  ASSUME EInv, [Next]_vars PROVE FramesMove
  <1>0. TypeOK /\ KeysAreUsed /\ SubmissionsKnow
    BY DEF EInv
  <1>1. ASSUME NEW p \in Procs, NEW e \in Addresses, Submit(p, e) PROVE FramesMove
    <2> DEFINE f == [op |-> "submit", step |-> "lookup", email |-> e, row |-> None]
    <2>1. f \in Submission /\ f.step = "lookup"
      BY DEF Submission
    <2>2. frame' = [frame EXCEPT ![p] = f]
      BY <1>1 DEF Submit
    <2> HIDE DEF f
    <2>3. Alone(p) /\ frame'[p] = f
      BY <1>0, <2>1, <2>2 DEF TypeOK, Frames, Alone
    <2>4. Knows(p)'
      BY <2>1, <2>3 DEF Knows
    <2>5. QED
      BY <2>3, <2>4, FrameMoves
  <1>2. ASSUME NEW p \in Procs, Lookup(p) \/ Pending(p) PROVE FramesMove
    <2>1. Submits(p)
      BY <1>2 DEF Lookup, Pending, At, Submits
    <2>2. ASSUME NEW step \in {"pending", "user"}, Move(p, step, None) PROVE FramesMove
      <3>1. step \in Steps /\ None \in Rows
        BY DEF Steps, Rows
      <3>2. Alone(p) /\ frame'[p].step = step
        BY <1>0, <2>1, <2>2, <3>1, MovedFrame
      <3>3. Knows(p)'
        BY <3>2 DEF Knows
      <3>4. QED
        BY <3>2, <3>3, FrameMoves
    <2>3. QED
      BY <1>0, <1>2, <2>2, FrameFinishes DEF Lookup, Pending
  <1>3. ASSUME NEW p \in Procs, GetUser(p) PROVE FramesMove
    <2>1. Submits(p) /\ UNCHANGED tables
      BY <1>3 DEF GetUser, At, Submits
    <2> PICK e \in Addresses : e = frame[p].email
      BY <1>0, <2>1, SubmittingFrame
    <2>2. PICK row \in UserOf(e) \cup {None} : Move(p, "insert", row)
      BY <1>3 DEF GetUser
    <2>3. "insert" \in Steps /\ row \in Rows
      BY DEF Steps, Rows, UserOf
    <2>4. /\ Alone(p) /\ frame'[p].step = "insert" /\ frame'[p].row = row
          /\ frame'[p].email = e
      BY <1>0, <2>1, <2>2, <2>3, MovedFrame
    <2>5. row # None => UserIs(row, e) /\ user[row] # None
      BY <1>0 DEF UserOf, UserIs, KeysAreUsed
    <2>6. UserIs(row, e)' = UserIs(row, e) /\ user' = user
      BY <2>1 DEF tables, UserIs
    <2>7. Knows(p)'
      BY <2>4, <2>5, <2>6 DEF Knows
    <2>8. QED
      BY <2>4, <2>7, FrameMoves
  <1>4. ASSUME NEW p \in Procs, Insert(p) PROVE FramesMove
    <2>1. Submits(p) /\ UNCHANGED undone
      BY <1>4 DEF Insert, At, Submits
    <2> PICK e \in Addresses : e = frame[p].email
      BY <1>0, <2>1, SubmittingFrame
    <2>2. "rescue" \in Steps /\ "mail" \in Steps /\ None \in Rows /\ RegPks \subseteq Rows
      BY DEF Steps, Rows
    <2>3. CASE InsertRefused(p)
      <3>1. Alone(p) /\ frame'[p].step = "rescue" /\ frame'[p].email = e
        BY <1>0, <2>1, <2>2, <2>3, MovedFrame DEF InsertRefused
      <3>2. RegistrationAt(e)' = RegistrationAt(e)
        BY <2>3 DEF InsertRefused, tables, RegistrationAt, RegistrationOf, UserOf
      <3>3. Knows(p)'
        BY <2>1, <2>3, <3>1, <3>2 DEF InsertRefused, Knows
      <3>4. QED
        BY <3>1, <3>3, FrameMoves
    <2>4. ASSUME NEW u \in UserPks, NEW g \in RegPks, Inserts(p, u, g) PROVE FramesMove
      <3>1. Move(p, "mail", g) /\ g = lastPk'.reg
        BY <2>4 DEF Inserts
      <3>2. /\ Alone(p) /\ frame'[p].step = "mail" /\ frame'[p].row = g
            /\ frame'[p].email = e
        BY <1>0, <2>1, <2>2, <3>1, MovedFrame
      <3>3. reg'[g] # None /\ reg'[g].user = u /\ user'[u].email = e
        BY <1>0, <2>1, <2>4, InsertedRows
      <3>4. g <= lastPk'.reg
        BY <3>1, PksAssumption
      <3>5. RegIs(g, e)'
        BY <3>3, <3>4 DEF RegIs
      <3>6. Knows(p)'
        BY <3>2, <3>3, <3>5 DEF Knows
      <3>7. QED
        BY <3>2, <3>6, FrameMoves
    <2>5. QED
      BY <1>0, <1>4, <2>3, <2>4, InsertCases
  <1>5. ASSUME NEW p \in Procs, MailNew(p) \/ Rescue(p) \/ SaveConfirmed(p) \/ Crash(p)
        PROVE  FramesMove
    <2>1. Finish(p)
      BY <1>5 DEF MailNew, Rescue, SaveConfirmed, Crash
    <2>2. QED
      BY <1>0, <2>1, FrameFinishes
  <1>6. ASSUME NEW p \in Procs, NEW e \in Addresses, OpenConfirm(p, e) PROVE FramesMove
    <2>1. CASE UNCHANGED frame
      BY <1>0, <2>1, FramesAtRest
    <2>2. CASE ~UNCHANGED frame
      <3>1. PICK link \in inbox[e] :
              /\ link.use = "confirm"
              /\ frame' = [frame EXCEPT ![p] = [op |-> "confirm", pk |-> link.pk]]
        BY <1>6, <2>2 DEF OpenConfirm
      <3> DEFINE f == [op |-> "confirm", pk |-> link.pk]
      <3>2. link.pk \in RegPks
        BY <1>0, <3>1 DEF TypeOK, Link
      <3>3. f \in Confirmation /\ f.op = "confirm"
        BY <3>2 DEF Confirmation
      <3>4. frame' = [frame EXCEPT ![p] = f]
        BY <3>1
      <3> HIDE DEF f
      <3>5. Alone(p) /\ frame'[p] = f
        BY <1>0, <3>3, <3>4 DEF TypeOK, Frames, Alone
      <3>6. ~Submits(p)'
        BY <3>3, <3>5 DEF Submits
      <3>7. QED
        BY <3>5, <3>6, FrameMoves
    <2>3. QED
      BY <2>1, <2>2
  <1>7. ASSUME NEW e \in Addresses,
               \/ PayDeposit(e) \/ RequestLogin(e) \/ OpenLogin(e) \/ Logout(e)
               \/ Resend(e) \/ LinkExpires(e) \/ Delete(e)
        PROVE  FramesMove
    <2>1. UNCHANGED frame
      BY <1>7 DEF PayDeposit, RequestLogin, OpenLogin, Logout, Resend, LinkExpires, Delete
    <2>2. QED
      BY <1>0, <2>1, FramesAtRest
  <1>8. ASSUME DayPasses \/ \E g \in RegPks : StaffDelete(g) PROVE FramesMove
    <2>1. UNCHANGED frame
      BY <1>8 DEF DayPasses, StaffDelete
    <2>2. QED
      BY <1>0, <2>1, FramesAtRest
  <1>9. CASE UNCHANGED vars
    BY <1>0, <1>9, FramesAtRest DEF vars
  <1>10. QED
    BY <1>1, <1>2, <1>3, <1>4, <1>5, <1>6, <1>7, <1>8, <1>9 DEF Next, Proceed

LEMMA StaysKnown ==
  ASSUME TypeOK, KeysAreUsed, SubmissionsKnow, TableEffect, UndoneEffect, FramesMove
  PROVE  SubmissionsKnow'
  <1> SUFFICES ASSUME NEW p \in Procs, Submits(p)' PROVE Knows(p)'
    BY DEF SubmissionsKnow
  <1>1. Knows(p)' \/ (Submits(p) /\ frame'[p] = frame[p])
    BY DEF FramesMove
  <1>2. QED
    BY <1>1, KnowsKept DEF SubmissionsKnow

-----------------------------------------------------------------------------
(* The invariant is inductive *)

LEMMA DayAndCrashes ==
  ASSUME TypeOK, [Next]_vars PROVE today' \in Days /\ crashes' \in 0..MaxCrashes
  <1>0. today \in Days /\ crashes \in 0..MaxCrashes /\ MaxCrashes \in Nat
    BY CrashesAssumption DEF TypeOK
  <1>1. ASSUME NEW p \in Procs, Proceed(p) PROVE UNCHANGED <<today, crashes>>
    BY <1>1 DEF Proceed, Lookup, Pending, GetUser, Insert, MailNew, Rescue, SaveConfirmed
  <1>2. ASSUME NEW p \in Procs, Crash(p) PROVE UNCHANGED today /\ crashes' \in 0..MaxCrashes
    BY <1>0, <1>2 DEF Crash
  <1>3. ASSUME NEW e \in Addresses,
               \/ \E p \in Procs : OpenConfirm(p, e) \/ Submit(p, e)
               \/ PayDeposit(e) \/ RequestLogin(e) \/ OpenLogin(e) \/ Logout(e)
               \/ Resend(e) \/ LinkExpires(e) \/ Delete(e)
        PROVE  UNCHANGED <<today, crashes>>
    BY <1>3 DEF OpenConfirm, Submit, PayDeposit, RequestLogin, OpenLogin, Logout, Resend,
                LinkExpires, Delete
  <1>4. ASSUME NEW g \in RegPks, StaffDelete(g) PROVE UNCHANGED <<today, crashes>>
    BY <1>4 DEF StaffDelete
  <1>5. CASE DayPasses
    BY <1>0, <1>5 DEF DayPasses
  <1>6. CASE UNCHANGED vars
    BY <1>0, <1>6 DEF vars
  <1>7. QED
    BY <1>0, <1>1, <1>2, <1>3, <1>4, <1>5, <1>6 DEF Next

LEMMA EInvInit == ASSUME Init PROVE EInv
  <1>1. TypeOK
    BY CrashesAssumption DEF Init, TypeOK
  <1>2. KeysAreUsed /\ OneEach
    BY DEF Init, KeysAreUsed, OneEach
  <1>3. LinksLead /\ SubmissionsKnow /\ SessionIsOwn
    BY DEF Init, LinksLead, SubmissionsKnow, Submits, SessionIsOwn
  <1>4. QED
    BY <1>1, <1>2, <1>3 DEF EInv

LEMMA EInvNext == ASSUME EInv, [Next]_vars PROVE EInv'
  <1>1. TypeOK /\ KeysAreUsed /\ OneEach /\ LinksLead /\ SubmissionsKnow /\ SessionIsOwn
    BY DEF EInv
  <1>2. TableEffect /\ InboxEffect /\ SessionEffect /\ UndoneEffect /\ FramesMove
    BY TableStep, InboxStep, SessionStep, UndoneStep, FrameStep
  <1>3. TypeOK'
    BY <1>1, <1>2, DayAndCrashes
       DEF TypeOK, TableEffect, TableTypes, InboxEffect, SessionEffect, UndoneEffect, FramesMove,
           Frames
  <1>4. KeysAreUsed' /\ OneEach'
    BY <1>1, <1>2, StaysUsed, StaysOneEach
  <1>5. LinksLead' /\ SessionIsOwn'
    BY <1>1, <1>2, StaysLeading, StaysOwnSession
  <1>6. SubmissionsKnow'
    BY <1>1, <1>2, StaysKnown
  <1>7. QED
    BY <1>3, <1>4, <1>5, <1>6 DEF EInv

(* Every reachable state satisfies the inductive invariant. *)
THEOREM EnrolmentInductive == Spec => []EInv
  <1>1. Init => EInv
    BY EInvInit
  <1>2. EInv /\ [Next]_vars => EInv'
    BY EInvNext
  <1>3. QED
    BY <1>1, <1>2, PTL DEF Spec

-----------------------------------------------------------------------------
(* The variables keep their types: users, registrations, mailed links,
   sessions and the requests of public/views/registration.py. *)
THEOREM EnrolmentTypes == Spec => []TypeOK
  <1>1. EInv => TypeOK
    BY DEF EInv
  <1>2. QED
    BY <1>1, EnrolmentInductive, PTL

(* However many submissions of register_form overlap, crash or are followed by
   deletions, an address has one user and one registration. *)
THEOREM OneForAnAddress == Spec => []OneRegistrationPerAddress
  <1>1. ASSUME NEW S, \A x, y \in S : x = y PROVE Cardinality(S) <= 1
    <2>1. CASE S = {}
      BY <2>1, FS_EmptySet
    <2>2. CASE S # {}
      <3>1. PICK x : S = {x}
        BY <1>1, <2>2
      <3>2. QED
        BY <3>1, FS_Singleton
    <2>3. QED
      BY <2>1, <2>2
  <1>2. ASSUME EInv, NEW e \in Addresses
        PROVE  Cardinality(UserOf(e)) <= 1 /\ Cardinality(RegistrationAt(e)) <= 1
    <2>1. OneEach
      BY <1>2 DEF EInv
    <2>2. \A u, v \in UserOf(e) : u = v
      BY <2>1 DEF OneEach, UserOf
    <2>3. \A g, h \in RegistrationAt(e) : g = h
      BY <2>1, <2>2 DEF OneEach, RegistrationAt, RegistrationOf
    <2>4. QED
      BY <1>1, <2>2, <2>3
  <1>3. EInv => OneRegistrationPerAddress
    BY <1>2 DEF OneRegistrationPerAddress
  <1>4. QED
    BY <1>3, EnrolmentInductive, PTL

(* login_verify and register_confirm sign nobody in to another's account: a
   link leads to the account it was mailed for, or nowhere. *)
THEOREM SessionsAreOwn == Spec => []SessionIsOwn
  <1>1. EInv => SessionIsOwn
    BY DEF EInv
  <1>2. QED
    BY <1>1, EnrolmentInductive, PTL

-----------------------------------------------------------------------------
(* The answer to a submission *)

Answered(p) ==
  LET e == frame[p].email
  IN  \/ \E link \in inbox'[e] : Works(link)'
      \/ Enrolled(e) # {}
      \/ p \in undone
      \/ crashes' > crashes

(* A registration of the address: its link works, or it is enrolled. *)
LEMMA LinkOrEnrolled ==
  ASSUME TypeOK, UNCHANGED tables, NEW e \in Addresses, NEW regs, NEW g \in regs,
         g \in RegistrationAt(e), reg[g].status = "UNVERIFIED" \/ Enrolled(e) = {},
         Send(e, ConfirmationMail(regs))
  PROVE  \E link \in inbox'[e] : Works(link)'
  <1>1. g \in RegPks /\ reg[g] # None
    BY DEF RegistrationAt, RegistrationOf
  <1>2. reg[g].status = "UNVERIFIED"
    <2>1. g \notin Enrolled(e) => reg[g].status = "UNVERIFIED"
      BY DEF Enrolled
    <2>2. QED
      BY <2>1
  <1> DEFINE link == ConfirmLink(g)
             links == ConfirmationMail(regs)
  <1>3. link \in links
    BY DEF ConfirmationMail
  <1>4. Works(link)'
    BY <1>1, <1>2 DEF Works, ConfirmLink, tables
  <1>5. Send(e, links)
    OBVIOUS
  <1> HIDE DEF link, links
  <1>6. inbox'[e] = inbox[e] \cup links
    BY <1>5 DEF Send, TypeOK
  <1>7. QED
    BY <1>3, <1>4, <1>6

LEMMA AnsweredAtLast ==
  ASSUME EInv, [Next]_vars, NEW p \in Procs, Submits(p), frame'[p] = Idle
  PROVE  Answered(p)
  <1>0. /\ TypeOK /\ KeysAreUsed /\ SubmissionsKnow /\ Knows(p)
    BY DEF EInv, SubmissionsKnow
  <1> PICK e \in Addresses : e = frame[p].email
    BY <1>0, SubmittingFrame
  <1>1. ASSUME NEW step \in Steps, NEW row \in Rows, Move(p, step, row) PROVE FALSE
    BY <1>0, <1>1, MovedFrame DEF Submits
  <1>2. /\ {"pending", "user", "insert", "rescue", "mail"} \subseteq Steps
        /\ {None} \cup UserPks \cup RegPks \subseteq Rows
    BY DEF Steps, Rows
  <1>3. CASE Lookup(p)
    BY <1>1, <1>2, <1>3 DEF Lookup, Answered
  <1>4. CASE Pending(p)
    <2>1. Unverified(e) # {} /\ Send(e, ConfirmationMail(Unverified(e))) /\ UNCHANGED tables
      BY <1>1, <1>2, <1>4 DEF Pending
    <2>2. PICK g \in Unverified(e) : g \in RegistrationAt(e) /\ reg[g].status = "UNVERIFIED"
      BY <2>1 DEF Unverified
    <2>3. QED
      BY <1>0, <2>1, <2>2, LinkOrEnrolled DEF Answered
  <1>5. CASE GetUser(p)
    BY <1>1, <1>2, <1>5 DEF GetUser, UserOf
  <1>6. CASE Insert(p)
    BY <1>0, <1>1, <1>2, <1>6, InsertCases DEF InsertRefused, Inserts
  <1>7. CASE MailNew(p)
    <2> DEFINE g == frame[p].row
    <2>1. /\ frame[p].step = "mail" /\ UNCHANGED tables
          /\ Send(e, ConfirmationMail({g}))
      BY <1>7 DEF MailNew, At
    <2>2. RegIs(g, e) /\ (reg[g] # None \/ p \in undone)
      BY <1>0, <2>1 DEF Knows
    <2>3. reg[g] # None => g \in RegistrationAt(e)
      BY <1>0, <2>2, RowOfReg DEF RegIs, RegistrationAt, RegistrationOf, UserOf, KeysAreUsed
    <2>4. CASE reg[g] # None /\ Enrolled(e) = {}
      BY <1>0, <2>1, <2>3, <2>4, LinkOrEnrolled DEF Answered
    <2>5. QED
      BY <2>2, <2>4 DEF Answered
  <1>8. CASE Rescue(p)
    <2>1. /\ frame[p].step = "rescue" /\ UNCHANGED tables
          /\ Send(e, ConfirmationMail(Unverified(e)))
      BY <1>8 DEF Rescue, At
    <2>2. RegistrationAt(e) # {} \/ p \in undone
      BY <1>0, <2>1 DEF Knows
    <2>3. ASSUME NEW g \in RegistrationAt(e), Enrolled(e) = {} PROVE Answered(p)
      <3>1. g \in Unverified(e)
        BY <2>3 DEF Enrolled, Unverified
      <3>2. QED
        BY <1>0, <2>1, <2>3, <3>1, LinkOrEnrolled DEF Answered
    <2>4. QED
      BY <2>2, <2>3 DEF Answered
  <1>9. CASE SaveConfirmed(p)
    BY <1>9 DEF SaveConfirmed, Submits
  <1>10. CASE Crash(p)
    <2>1. crashes' = crashes + 1 /\ crashes \in Nat
      BY <1>0, <1>10 DEF Crash, TypeOK
    <2>2. QED
      BY <2>1 DEF Answered
  <1>11. ASSUME NEW q \in Procs, q # p, Proceed(q) \/ Crash(q) PROVE FALSE
    <2>1. frame'[p] = frame[p]
      BY <1>0, <1>11 DEF Proceed, Lookup, Pending, GetUser, Insert, MailNew, Rescue, SaveConfirmed,
                         Crash, Move, Finish, TypeOK
    <2>2. QED
      BY <2>1 DEF Submits
  <1>12. ASSUME NEW q \in Procs, NEW f \in Addresses, OpenConfirm(q, f) \/ Submit(q, f)
         PROVE  FALSE
    <2>1. q # p
      BY <1>12 DEF OpenConfirm, Submit, Submits
    <2>2. frame'[p] = frame[p]
      BY <1>0, <1>12, <2>1 DEF OpenConfirm, Submit, TypeOK
    <2>3. QED
      BY <2>2 DEF Submits
  <1>13. ASSUME NEW f \in Addresses,
                \/ PayDeposit(f) \/ RequestLogin(f) \/ OpenLogin(f) \/ Logout(f)
                \/ Resend(f) \/ LinkExpires(f) \/ Delete(f)
         PROVE  UNCHANGED frame
    BY <1>13 DEF PayDeposit, RequestLogin, OpenLogin, Logout, Resend, LinkExpires, Delete
  <1>14. ASSUME DayPasses \/ \E g \in RegPks : StaffDelete(g) PROVE UNCHANGED frame
    BY <1>14 DEF DayPasses, StaffDelete
  <1>15. ASSUME UNCHANGED vars PROVE UNCHANGED frame
    BY <1>15 DEF vars
  <1>16. ~UNCHANGED frame
    BY DEF Submits
  <1>17. CASE Proceed(p) \/ Crash(p)
    BY <1>3, <1>4, <1>5, <1>6, <1>7, <1>8, <1>9, <1>10, <1>17 DEF Proceed
  <1>18. QED
    BY <1>11, <1>12, <1>13, <1>14, <1>15, <1>16, <1>17 DEF Next

(* Whoever submits register_form and is told to check the mailbox finds a link
   there that works, whatever register_or_resend_participant raced with. *)
THEOREM AnswersHaveALink == Spec => AnsweredWithALink
  <1> DEFINE Answers ==
        \A p \in Procs :
          LET e == frame[p].email
          IN  frame[p] # Idle /\ frame[p].op = "submit" /\ frame'[p] = Idle =>
                \/ \E link \in inbox'[e] : Works(link)'
                \/ Enrolled(e) # {}
                \/ p \in undone
                \/ crashes' > crashes
  <1>1. ASSUME EInv, [Next]_vars PROVE Answers
    <2> SUFFICES ASSUME NEW p \in Procs, Submits(p), frame'[p] = Idle PROVE Answered(p)
      BY DEF Submits, Answered
    <2>1. QED
      BY <1>1, AnsweredAtLast
  <1>2. EInv /\ [Next]_vars => [Answers]_vars
    BY <1>1
  <1> HIDE DEF Answers
  <1>3. Spec => [][Answers]_vars
    BY <1>2, EnrolmentInductive, PTL DEF Spec
  <1>4. QED
    BY <1>3 DEF Answers, AnsweredWithALink

=============================================================================
