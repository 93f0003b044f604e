------------------------------- MODULE Enrolment -------------------------------
(***************************************************************************)
(* Signing up: from the registration form to a confirmed registration      *)
(* (public/views/registration.py, public/services.py, register_participant *)
(* and confirm_registration of matching/services.py), with the links that  *)
(* are mailed on the way (accounts/services.py, accounts/tokens.py), the   *)
(* sign-in by e-mail and the deletion of an account (accounts/views.py).   *)
(*                                                                         *)
(* A submission is a request of several statements: other requests commit  *)
(* between them, and its process may die.  A mail is one more step, taken  *)
(* when the transaction has committed.  Anybody may submit the form, with  *)
(* anybody's address; only its owner opens the links mailed to it.  What   *)
(* follows the confirmation (matching, pausing, deposits) is the subject   *)
(* of Matching and Deposits; here every other status counts as VERIFIED.   *)
(***************************************************************************)
EXTENDS Integers, FiniteSets

CONSTANTS
  Addresses,    \* normalised e-mail addresses; also their owners
  UserPks,      \* bound: the primary keys of the users
  RegPks,       \* bound: the primary keys of the registrations
  Procs,        \* gunicorn workers
  FeeTiers,     \* REGISTRATION_FEE_TIERS: fees, each with the day it begins
  OpensOn, ClosesOn,  \* REGISTRATION_OPENS_AT, REGISTRATION_CLOSES_AT
  Days,         \* bound: the days that pass
  MaxCrashes,   \* bound: how many processes may crash
  None,         \* no row, no key, nobody
  Idle          \* a process that is in no request

Fee == {0} \cup {t.chf : t \in FeeTiers}
Status == {"UNVERIFIED", "VERIFIED"}

UserRow == [email : Addresses]
RegistrationRow == [user : UserPks, fee_chf : Fee, status : Status]

\* A token: its purpose (the salt) and the primary key in it.
Link == [use : {"confirm"}, pk : RegPks] \cup [use : {"login"}, pk : UserPks]

\* A submission, with the user that get_or_create returned, then the registration
\* it created; or the confirmation of a registration that was loaded.
Submission == [op : {"submit"}, step : {"lookup", "pending", "user", "insert",
                                        "mail", "rescue"},
               email : Addresses, row : UserPks \cup RegPks \cup {None}]
Confirmation == [op : {"confirm"}, pk : RegPks]

ASSUME PksAssumption == UserPks \subseteq Nat /\ RegPks \subseteq Nat
ASSUME DaysAssumption ==
  /\ Days \subseteq Nat /\ OpensOn \in Nat /\ ClosesOn \in Nat
  /\ FeeTiers \subseteq [from : Nat, chf : Nat]
  /\ \A t, s \in FeeTiers : t.from = s.from => t = s
ASSUME CrashesAssumption == MaxCrashes \in Nat
ASSUME NullsAssumption ==
  /\ None \notin Addresses \cup UserPks \cup RegPks
  /\ None \notin UserRow \cup RegistrationRow
  /\ Idle \notin Submission \cup Confirmation

VARIABLES
  user,     \* [UserPks -> UserRow or None]: auth_user
  reg,      \* [RegPks -> RegistrationRow or None]: the registration table
  lastPk,   \* external: the last value of the two primary key sequences
  inbox,    \* external: [Addresses -> the links mailed and not expired]
  session,  \* [Addresses -> the user its owner is signed in as, or None]
  today,    \* timezone.localdate()
  frame,    \* [Procs -> Submission, Confirmation or Idle]
  crashes,  \* how many crashes there have been
  undone    \* history: submissions whose account was deleted meanwhile

tables == <<user, reg, lastPk>>
vars == <<tables, inbox, session, today, frame, crashes, undone>>

-----------------------------------------------------------------------------
(* Queries *)

IsRegistrationOpen(day) == OpensOn <= day /\ day <= ClosesOn

(* fee_chf_for: the last threshold on or before the day decides. *)
FeeFor(day) ==
  LET begun == {t \in FeeTiers : t.from <= day}
  IN  IF begun = {} THEN 0
      ELSE (CHOOSE t \in begun : \A s \in begun : s.from <= t.from).chf

UserOf(e) == {u \in UserPks : user[u] # None /\ user[u].email = e}
RegistrationOf(u) == {g \in RegPks : reg[g] # None /\ reg[g].user = u}
RegistrationAt(e) == UNION {RegistrationOf(u) : u \in UserOf(e)}

Unverified(e) == {g \in RegistrationAt(e) : reg[g].status = "UNVERIFIED"}
Enrolled(e) == {g \in RegistrationAt(e) : reg[g].status # "UNVERIFIED"}

(* What the link opens: read_login_token and register_confirm look the primary
   key up; a confirmation link works as long as it is not confirmed. *)
Works(link) ==
  IF link.use = "login" THEN user[link.pk] # None
  ELSE reg[link.pk] # None /\ reg[link.pk].status = "UNVERIFIED"

\* mutant: the sign-in token carries the address, not the primary key
LoginLinkOfAddress(u) == [use |-> "login", pk |-> user[u].email]
LoginLink(u) == [use |-> "login", pk |-> u]
ConfirmLink(g) == [use |-> "confirm", pk |-> g]

-----------------------------------------------------------------------------
(* Requests *)

At(p, step) == frame[p] # Idle /\ frame[p].op = "submit" /\ frame[p].step = step
Move(p, step, row) == frame' = [frame EXCEPT ![p].step = step, ![p].row = row]

Finish(p) == frame' = [frame EXCEPT ![p] = Idle] /\ undone' = undone \ {p}

(* send_templated_email, outside a transaction or once it has committed. *)
Send(e, links) == inbox' = [inbox EXCEPT ![e] = @ \cup links]

(* The links in the three mails of accounts/services.py.  The first two take
   whoever has the address: the mail is sent to the address of the row. *)
LoginMail(e) == {LoginLink(u) : u \in UserOf(e)}
AlreadyRegisteredMail(e) == {LoginLink(u) : u \in UserOf(e)}
ConfirmationMail(regs) == {ConfirmLink(g) : g \in regs}

(* register_form, POST: the form is valid and the window open.  A visitor who
   is signed in and registered gets a 403, but need not sign in to submit. *)
Submit(p, e) ==
  /\ IsRegistrationOpen(today)
  /\ frame[p] = Idle
  /\ frame' = [frame EXCEPT ![p] = [op |-> "submit", step |-> "lookup",
                                    email |-> e, row |-> None]]
  /\ UNCHANGED <<tables, inbox, session, today, crashes, undone>>

(* register_or_resend_participant: who is enrolled gets a sign-in link. *)
Lookup(p) ==
  LET e == frame[p].email
  IN  /\ At(p, "lookup")
      /\ IF Enrolled(e) # {}
           THEN Send(e, AlreadyRegisteredMail(e)) /\ Finish(p)
           ELSE Move(p, "pending", None) /\ UNCHANGED <<inbox, undone>>
      /\ UNCHANGED <<tables, session, today, crashes>>

(* ... an UNVERIFIED registration, locked and read: its link is sent again. *)
Pending(p) ==
  LET e == frame[p].email
  IN  /\ At(p, "pending")
      /\ IF Unverified(e) # {}
           THEN Send(e, ConfirmationMail(Unverified(e))) /\ Finish(p)
           ELSE Move(p, "user", None) /\ UNCHANGED <<inbox, undone>>
      /\ UNCHANGED <<tables, session, today, crashes>>

(* ... otherwise register_participant: get_or_create reads the user *)
GetUser(p) ==
  LET e == frame[p].email
  IN  /\ At(p, "user")
      /\ IF UserOf(e) = {} THEN Move(p, "insert", None)
                           ELSE \E u \in UserOf(e) : Move(p, "insert", u)
      /\ UNCHANGED <<tables, inbox, session, today, crashes, undone>>

\* mutant: primary keys are those of the deleted rows again
NextPkReused(last, table) == CHOOSE k \in DOMAIN table : table[k] = None
(* external: a sequence of Postgres never goes back, not even at a rollback. *)
NextPk(last, table) == last + 1

\* mutant: the OneToOne column of the registration is not unique
TakenNever(u) == FALSE
(* external: the unique constraint on the registration's user. *)
Taken(u) == RegistrationOf(u) # {}

(* ... and inserts.  Another request that inserted the same user or
   registration holds the unique index until it commits; then get_or_create
   reads its user, and the registration is refused with an IntegrityError, as
   it is for a user deleted since.  The whole transaction is rolled back.  (The
   gap it leaves in the sequences is left out.) *)
Insert(p) ==
  LET e == frame[p].email
      seen == frame[p].row
      new == seen = None /\ UserOf(e) = {}
      u == IF new THEN NextPk(lastPk.user, user)
           ELSE IF seen # None THEN seen ELSE CHOOSE v \in UserOf(e) : TRUE
      g == NextPk(lastPk.reg, reg)
  IN  /\ At(p, "insert")
      /\ u \in UserPks /\ g \in RegPks
      /\ IF ~new /\ (user[u] = None \/ Taken(u))
           THEN Move(p, "rescue", None) /\ UNCHANGED tables
           ELSE /\ user' = [user EXCEPT ![u] = [email |-> e]]
                /\ reg' = [reg EXCEPT ![g] = [user |-> u, fee_chf |-> FeeFor(today),
                                              status |-> "UNVERIFIED"]]
                /\ lastPk' = [user |-> IF new THEN u ELSE lastPk.user, reg |-> g]
                /\ Move(p, "mail", g)
      /\ UNCHANGED <<inbox, session, today, crashes, undone>>

(* on_commit: the confirmation mail of the new registration. *)
MailNew(p) ==
  /\ At(p, "mail")
  /\ Send(frame[p].email, ConfirmationMail({frame[p].row}))
  /\ Finish(p)
  /\ UNCHANGED <<tables, session, today, crashes>>

\* mutant: the request that lost the race sends nothing
RescueSilent(p) ==
  /\ At(p, "rescue")
  /\ Finish(p)
  /\ UNCHANGED <<tables, inbox, session, today, crashes>>
(* except IntegrityError: send the winner's link, unless it is confirmed. *)
Rescue(p) ==
  LET e == frame[p].email
  IN  /\ At(p, "rescue")
      /\ Send(e, ConfirmationMail(Unverified(e)))
      /\ Finish(p)
      /\ UNCHANGED <<tables, session, today, crashes>>

-----------------------------------------------------------------------------
(* Links *)

(* register_confirm: the owner is signed in; a free registration goes on to be
   confirmed, a paid one to its payment. *)
OpenConfirm(p, e) ==
  \E link \in inbox[e] :
    /\ link.use = "confirm" /\ Works(link)
    /\ frame[p] = Idle
    /\ session' = [session EXCEPT ![e] = reg[link.pk].user]
    /\ frame' = IF reg[link.pk].fee_chf = 0
                  THEN [frame EXCEPT ![p] = [op |-> "confirm", pk |-> link.pk]]
                  ELSE frame
    /\ UNCHANGED <<tables, inbox, today, crashes, undone>>

(* confirm_registration saves the status, unless the row is gone. *)
SaveConfirmed(p) ==
  LET g == frame[p].pk
  IN  /\ frame[p] # Idle /\ frame[p].op = "confirm"
      /\ reg' = IF reg[g] = None THEN reg ELSE [reg EXCEPT ![g].status = "VERIFIED"]
      /\ Finish(p)
      /\ UNCHANGED <<user, lastPk, inbox, session, today, crashes>>

(* finalize_paid_registration, under the lock of the row. *)
PayDeposit(e) ==
  /\ session[e] # None
  /\ \E g \in RegistrationOf(session[e]) :
       /\ reg[g].fee_chf > 0 /\ reg[g].status = "UNVERIFIED"
       /\ reg' = [reg EXCEPT ![g].status = "VERIFIED"]
  /\ UNCHANGED <<user, lastPk, inbox, session, today, frame, crashes, undone>>

(* login_request: anybody asks for a link to the address of a user. *)
RequestLogin(e) ==
  /\ UserOf(e) # {}
  /\ Send(e, LoginMail(e))
  /\ UNCHANGED <<tables, session, today, frame, crashes, undone>>

(* login_verify, POST *)
OpenLogin(e) ==
  \E link \in inbox[e] :
    /\ link.use = "login" /\ Works(link)
    /\ session' = [session EXCEPT ![e] = link.pk]
    /\ UNCHANGED <<tables, inbox, today, frame, crashes, undone>>

(* logout_view, POST *)
Logout(e) ==
  /\ session' = [session EXCEPT ![e] = None]
  /\ UNCHANGED <<tables, inbox, today, frame, crashes, undone>>

(* account_resend_confirmation *)
Resend(e) ==
  /\ session[e] # None
  /\ \E g \in RegistrationOf(session[e]) :
       /\ reg[g].status = "UNVERIFIED"
       /\ Send(user[session[e]].email, ConfirmationMail({g}))
  /\ UNCHANGED <<tables, session, today, frame, crashes, undone>>

(* A token past its max_age: 24 hours to confirm, one hour to sign in. *)
LinkExpires(e) ==
  /\ \E link \in inbox[e] : inbox' = [inbox EXCEPT ![e] = @ \ {link}]
  /\ UNCHANGED <<tables, session, today, frame, crashes, undone>>

-----------------------------------------------------------------------------
(* The rest of the world *)

Submitting(e) ==
  {p \in Procs : frame[p] # Idle /\ frame[p].op = "submit" /\ frame[p].email = e}

(* account_delete signs out and deletes the user, and the registration with
   it; the sessions of other browsers lead to nobody any more. *)
Delete(e) ==
  LET u == session[e]
  IN  /\ u # None
      /\ user' = [user EXCEPT ![u] = None]
      /\ reg' = [g \in RegPks |-> IF g \in RegistrationOf(u) THEN None ELSE reg[g]]
      /\ session' = [f \in Addresses |-> IF session[f] = u THEN None ELSE session[f]]
      /\ undone' = undone \cup Submitting(user[u].email)
      /\ UNCHANGED <<lastPk, inbox, today, frame, crashes>>

(* Staff delete a registration in the admin: the user stays. *)
StaffDelete(g) ==
  /\ reg[g] # None
  /\ reg' = [reg EXCEPT ![g] = None]
  /\ undone' = undone \cup Submitting(user[reg[g].user].email)
  /\ UNCHANGED <<user, lastPk, inbox, session, today, frame, crashes>>

DayPasses ==
  /\ today + 1 \in Days
  /\ today' = today + 1
  /\ UNCHANGED <<tables, inbox, session, frame, crashes, undone>>

(* A process dies: its transaction is rolled back or was committed; a mail it
   had not handed over is lost. *)
Crash(p) ==
  /\ frame[p] # Idle
  /\ crashes < MaxCrashes
  /\ crashes' = crashes + 1
  /\ Finish(p)
  /\ UNCHANGED <<tables, inbox, session, today>>

-----------------------------------------------------------------------------
Init ==
  /\ user = [u \in UserPks |-> None]
  /\ reg = [g \in RegPks |-> None]
  /\ lastPk = [user |-> 0, reg |-> 0]
  /\ inbox = [e \in Addresses |-> {}]
  /\ session = [e \in Addresses |-> None]
  /\ today \in Days /\ \A day \in Days : today <= day
  /\ frame = [p \in Procs |-> Idle]
  /\ crashes = 0
  /\ undone = {}

Proceed(p) ==
  \/ Lookup(p)
  \/ Pending(p)
  \/ GetUser(p)
  \/ Insert(p)
  \/ MailNew(p)
  \/ Rescue(p)
  \/ SaveConfirmed(p)

Next ==
  \/ \E p \in Procs : Proceed(p) \/ Crash(p)
  \/ \E e \in Addresses :
       \/ \E p \in Procs : OpenConfirm(p, e) \/ Submit(p, e)
       \/ PayDeposit(e)
       \/ RequestLogin(e)
       \/ OpenLogin(e)
       \/ Logout(e)
       \/ Resend(e)
       \/ LinkExpires(e)
       \/ Delete(e)
  \/ \E g \in RegPks : StaffDelete(g)
  \/ DayPasses

Spec == Init /\ [][Next]_vars

-----------------------------------------------------------------------------
(* Properties *)

TypeOK ==
  /\ user \in [UserPks -> UserRow \cup {None}]
  /\ reg \in [RegPks -> RegistrationRow \cup {None}]
  /\ lastPk \in [user : {0} \cup UserPks, reg : {0} \cup RegPks]
  /\ inbox \in [Addresses -> SUBSET Link]
  /\ session \in [Addresses -> UserPks \cup {None}]
  /\ today \in Days
  /\ frame \in [Procs -> Submission \cup Confirmation \cup {Idle}]
  /\ crashes \in 0..MaxCrashes
  /\ undone \in SUBSET Procs

(* However many submissions for one address overlap, it has one user and one
   registration: the lookup locks nothing when there is no row, and the unique
   constraints decide. *)
OneRegistrationPerAddress ==
  \A e \in Addresses :
    Cardinality(UserOf(e)) <= 1 /\ Cardinality(RegistrationAt(e)) <= 1

(* A submission that is answered with "check your e-mail" leaves a link that
   works in the mailbox, whatever it raced with; unless the address was
   confirmed or its account deleted before the answer. *)
AnsweredWithALink ==
  [][\A p \in Procs :
       LET e == frame[p].email
       IN  frame[p] # Idle /\ frame[p].op = "submit" /\ frame'[p] = Idle =>
             \/ \E link \in inbox'[e] : Works(link)'
             \/ Enrolled(e) # {}
             \/ p \in undone
             \/ crashes' > crashes]_vars

(* Nobody is ever signed in to the account of another address, though links
   outlive the accounts they were mailed for and addresses register again. *)
SessionIsOwn ==
  \A e \in Addresses : session[e] # None =>
    user[session[e]] # None /\ user[session[e]].email = e

=============================================================================
