------------------------------- MODULE Deposits -------------------------------
(***************************************************************************)
(* The deposit of a paid-tier registration, from the Stripe Checkout       *)
(* session to its capture, forfeit or refund: billing/services/payments.py *)
(* and checkout.py, the views that call them, close_season and             *)
(* delete_account.                                                         *)
(*                                                                         *)
(* A payment is settled under a lock on its row; the lookup that found it  *)
(* is not.  A refund calls Stripe while it holds the lock and commits      *)
(* afterwards, so that a crash in between loses the row's change but not   *)
(* the refund.  Stripe delivers each event at least once, in any order.    *)
(*                                                                         *)
(* A session is created under one idempotency key per registration: a      *)
(* registration has one payment intent, which is named by it.  Matches are *)
(* reduced to what a deposit depends on (open or accepted by both); how    *)
(* they come about is the subject of Matching.                             *)
(***************************************************************************)
EXTENDS Integers, FiniteSets

CONSTANTS
  Ambassadors, Referees,  \* the registrations
  PaidTier,               \* those with fee_chf > 0
  PaymentIds,             \* bound: the primary keys of the payments
  Procs,                  \* gunicorn workers and management commands
  MaxCrashes,             \* bound: how many processes may crash
  NoPayment, Free, Idle

Registrations == Ambassadors \cup Referees
Pairs == Ambassadors \X Referees

\* PAUSED counts as VERIFIED: the deposit stays refundable.
RegistrationStatus == {"UNVERIFIED", "VERIFIED", "SUSPENDED", "DELETED"}
PaymentStatus == {"HELD", "CAPTURED", "REFUNDED", "FORFEITED"}
\* partly: some of the money was returned, refunded: all of it.
Charge == {"none", "session", "paid", "partly", "refunded"}
Event == {"completed", "partial", "refunded"} \X Registrations

\* linked: the registration is not NULL.
PaymentRow == [intent : Registrations, linked : BOOLEAN, status : PaymentStatus]

\* What a process is doing, for whom, and the payments it has looked up.
Frame == [op : {"return", "webhook", "accept", "season", "delete"},
          step : {"lock", "commit", "next", "stripe", "delete"},
          who : SUBSET Registrations, rows : SUBSET PaymentIds]

ASSUME RolesDisjoint == Ambassadors \cap Referees = {}
ASSUME PaidTierAssumption == PaidTier \subseteq Registrations
ASSUME BoundsAssumption == PaymentIds \subseteq Nat /\ MaxCrashes \in Nat
ASSUME NullsAssumption ==
  NoPayment \notin PaymentRow /\ Free \notin Procs /\ Idle \notin Frame

VARIABLES
  reg,      \* [Registrations -> RegistrationStatus]
  match,    \* [Pairs -> {"none", "open", "accepted"}]
  pay,      \* [PaymentIds -> PaymentRow or NoPayment]
  rowLock,  \* [Registrations -> the process that holds the row, or Free]
  payLock,  \* [PaymentIds -> the process that holds the row, or Free]
  frame,    \* [Procs -> Frame or Idle]
  crashes,  \* how many crashes there have been
  charge,   \* external: what Stripe knows of the registration's intent
  byApp,    \* external: the refunds Stripe made under the app's key
  event,    \* external: the events Stripe still delivers
  early     \* history: refunds whose event came before the payment's record

stripe == <<charge, byApp, event>>
vars == <<reg, match, pay, rowLock, payLock, frame, crashes, stripe, early>>

-----------------------------------------------------------------------------
Payments == {i \in PaymentIds : pay[i] # NoPayment}
OfIntent(r) == {i \in Payments : pay[i].intent = r}
Held(r) == {i \in OfIntent(r) : pay[i].linked /\ pay[i].status = "HELD"}

(* .first() of the default order: the newest. *)
Newest(rows) == {i \in rows : \A j \in rows : j <= i}

Accepted(r) == \E m \in Pairs : r \in {m[1], m[2]} /\ match[m] = "accepted"
Active(r) == \E m \in Pairs : r \in {m[1], m[2]} /\ match[m] # "none"

(* A process that accepts holds the match row, which deletion has to remove. *)
Accepting(r) ==
  \E p \in Procs : frame[p] # Idle /\ frame[p].op = "accept" /\ r \in frame[p].who

At(p, ops, step) == frame[p] # Idle /\ frame[p].op \in ops /\ frame[p].step = step
Enter(p, op, step, who, rows) ==
  /\ frame[p] = Idle
  /\ frame' = [frame EXCEPT ![p] =
                 [op |-> op, step |-> step, who |-> who, rows |-> rows]]
Move(p, step, rows) ==
  frame' = [frame EXCEPT ![p].step = step, ![p].rows = rows]
Leave(p) == frame' = [frame EXCEPT ![p] = Idle]

(* A delivered event may be delivered again. *)
Acknowledge(e) == event' \in {event, event \ {e}}

SetStatus(rows, status) ==
  [i \in PaymentIds |-> IF i \in rows THEN [pay[i] EXCEPT !.status = status] ELSE pay[i]]

-----------------------------------------------------------------------------
(* Checkout *)

(* The free tier confirms without paying. *)
ConfirmFree(r) ==
  /\ r \notin PaidTier
  /\ reg[r] = "UNVERIFIED"
  /\ reg' = [reg EXCEPT ![r] = "VERIFIED"]
  /\ UNCHANGED <<match, pay, rowLock, payLock, frame, crashes, stripe, early>>

(* register_payment_start: only an UNVERIFIED registration has a payment due. *)
PaymentDue(r) == r \in PaidTier /\ reg[r] = "UNVERIFIED"

(* A second click replays the session. *)
StartCheckout(r) ==
  /\ PaymentDue(r)
  /\ charge[r] = "none"
  /\ charge' = [charge EXCEPT ![r] = "session"]
  /\ UNCHANGED <<reg, match, pay, rowLock, payLock, frame, crashes, byApp, event, early>>

(* A session completes when it is paid: the handler of the event relies on that
   and does not look at payment_status. *)
Pay(r) ==
  /\ charge[r] = "session"
  /\ charge' = [charge EXCEPT ![r] = "paid"]
  /\ event' = event \cup {<<"completed", r>>}
  /\ UNCHANGED <<reg, match, pay, rowLock, payLock, frame, crashes, byApp, early>>

(* _verify_return_session: the caller is still registered and Stripe reports the
   session as paid, whether or not it was refunded since. *)
Verified(r) == reg[r] # "DELETED" /\ charge[r] \in {"paid", "partly", "refunded"}

(* register_payment_return, the success page *)
ReturnView(p, r) ==
  /\ Verified(r)
  /\ Enter(p, "return", "lock", {r}, {})
  /\ UNCHANGED <<reg, match, pay, rowLock, payLock, crashes, stripe, early>>

\* mutant: the event is answered before it is handled
WebhookAnswersFirst(p, r) ==
  /\ <<"completed", r>> \in event
  /\ reg[r] # "DELETED"
  /\ Enter(p, "webhook", "lock", {r}, {})
  /\ event' = event \ {<<"completed", r>>}
  /\ UNCHANGED <<reg, match, pay, rowLock, payLock, crashes, charge, byApp, early>>
(* stripe_webhook, checkout.session.completed *)
WebhookCompleted(p, r) ==
  /\ <<"completed", r>> \in event
  /\ reg[r] # "DELETED"
  /\ Enter(p, "webhook", "lock", {r}, {})
  /\ UNCHANGED <<reg, match, pay, rowLock, payLock, crashes, stripe, early>>

(* An event for a registration that is gone is logged and acknowledged. *)
WebhookUnknown(r) ==
  /\ <<"completed", r>> \in event
  /\ reg[r] = "DELETED"
  /\ Acknowledge(<<"completed", r>>)
  /\ UNCHANGED <<reg, match, pay, rowLock, payLock, frame, crashes, charge, byApp, early>>

\* mutant: the registration row is not locked before the lookup
FinalizeWithoutLock(p) ==
  \E r \in Registrations :
    /\ At(p, {"return", "webhook"}, "lock")
    /\ frame[p].who = {r}
    /\ Move(p, "commit", OfIntent(r))
    /\ UNCHANGED <<reg, match, pay, rowLock, payLock, crashes, stripe, early>>
(* finalize_paid_registration: lock the registration, look for the payment. *)
FinalizeLock(p) ==
  \E r \in Registrations :
    /\ At(p, {"return", "webhook"}, "lock")
    /\ frame[p].who = {r}
    /\ rowLock[r] = Free
    /\ IF reg[r] = "DELETED"
         THEN Leave(p) /\ UNCHANGED rowLock
         ELSE /\ rowLock' = [rowLock EXCEPT ![r] = p]
              /\ Move(p, "commit", OfIntent(r))
    /\ UNCHANGED <<reg, match, pay, payLock, crashes, stripe, early>>

(* ... then record it if it was not, and confirm the registration. *)
FinalizeCommit(p) ==
  \E r \in Registrations :
    /\ At(p, {"return", "webhook"}, "commit")
    /\ frame[p].who = {r}
    /\ IF frame[p].rows # {}
         THEN UNCHANGED pay
         ELSE \E i \in PaymentIds \ Payments :
                /\ \A j \in PaymentIds \ Payments : i <= j
                /\ pay' = [pay EXCEPT ![i] =
                             [intent |-> r, linked |-> TRUE, status |-> "HELD"]]
    /\ reg' = IF reg[r] = "UNVERIFIED" THEN [reg EXCEPT ![r] = "VERIFIED"] ELSE reg
    /\ rowLock' = [rowLock EXCEPT ![r] = Free]
    /\ IF frame[p].op = "webhook" THEN Acknowledge(<<"completed", r>>)
                                  ELSE UNCHANGED event
    /\ Leave(p)
    /\ UNCHANGED <<match, payLock, crashes, charge, byApp, early>>

-----------------------------------------------------------------------------
(* Matches, as far as a deposit depends on them *)

Propose(m) ==
  /\ reg[m[1]] = "VERIFIED" /\ reg[m[2]] = "VERIFIED"
  /\ ~Active(m[1]) /\ ~Active(m[2])
  /\ match' = [match EXCEPT ![m] = "open"]
  /\ UNCHANGED <<reg, pay, rowLock, payLock, frame, crashes, stripe, early>>

(* Declined or expired. *)
EndOpen(m) ==
  /\ match[m] = "open"
  /\ ~Accepting(m[1])
  /\ match' = [match EXCEPT ![m] = "none"]
  /\ UNCHANGED <<reg, pay, rowLock, payLock, frame, crashes, stripe, early>>

\* mutant: the ambassador's deposit alone is looked up
AcceptAmbassador(p, m) ==
  /\ match[m] = "open"
  /\ ~Accepting(m[1])
  /\ Enter(p, "accept", "commit", {m[1], m[2]}, Newest(Held(m[1])))
  /\ UNCHANGED <<reg, match, pay, rowLock, payLock, crashes, stripe, early>>
(* record_acceptance of the second party: the match is saved, and each party's
   HELD deposit looked up without a lock. *)
AcceptRead(p, m) ==
  /\ match[m] = "open"
  /\ ~Accepting(m[1])
  /\ Enter(p, "accept", "commit", {m[1], m[2]},
           Newest(Held(m[1])) \cup Newest(Held(m[2])))
  /\ UNCHANGED <<reg, match, pay, rowLock, payLock, crashes, stripe, early>>

\* mutant: capture does not look at the status again once it has the lock
AcceptUnchecked(p) ==
  \E m \in Pairs :
    /\ At(p, {"accept"}, "commit")
    /\ frame[p].who = {m[1], m[2]}
    /\ \A i \in frame[p].rows : payLock[i] = Free
    /\ pay' = SetStatus(frame[p].rows, "CAPTURED")
    /\ match' = [match EXCEPT ![m] = "accepted"]
    /\ Leave(p)
    /\ UNCHANGED <<reg, rowLock, payLock, crashes, stripe, early>>
(* capture of both, each under its lock.  A deposit that left HELD meanwhile
   raises, and the acceptance is rolled back with it. *)
AcceptCommit(p) ==
  \E m \in Pairs :
    /\ At(p, {"accept"}, "commit")
    /\ frame[p].who = {m[1], m[2]}
    /\ \A i \in frame[p].rows : payLock[i] = Free
    /\ IF \A i \in frame[p].rows : pay[i].status = "HELD"
         THEN /\ pay' = SetStatus(frame[p].rows, "CAPTURED")
              /\ match' = [match EXCEPT ![m] = "accepted"]
         ELSE UNCHANGED <<pay, match>>
    /\ Leave(p)
    /\ UNCHANGED <<reg, rowLock, payLock, crashes, stripe, early>>

(* report_no_show, with the forfeit of a deposit that is still HELD. *)
ReportNoShow(m, accused) ==
  LET rows == Newest(Held(accused))
  IN  /\ match[m] = "accepted"
      /\ accused \in {m[1], m[2]}
      /\ reg[accused] = "VERIFIED"
      /\ \A i \in rows : payLock[i] = Free
      /\ reg' = [reg EXCEPT ![accused] = "SUSPENDED"]
      /\ match' = [match EXCEPT ![m] = "none"]
      /\ pay' = SetStatus(rows, "FORFEITED")
      /\ UNCHANGED <<rowLock, payLock, frame, crashes, stripe, early>>

-----------------------------------------------------------------------------
(* Refunds *)

Returnable(r) == charge[r] \in {"paid", "partly"}

(* refund() up to Stripe's answer: all that is left is returned; a second call
   under the same key gets the first refund, a charge refunded in full by
   somebody else is an error. *)
StripeRefunds(r) == Returnable(r) \/ r \in byApp
CallStripe(p, i, rows) ==
  LET r == pay[i].intent
  IN  /\ payLock' = [payLock EXCEPT ![i] = p]
      /\ Move(p, "stripe", rows)
      /\ byApp' = byApp \cup {r}
      /\ charge' = [charge EXCEPT ![r] = "refunded"]
      /\ event' = IF Returnable(r) THEN event \cup {<<"refunded", r>>} ELSE event

(* On to the next payment of the list. *)
SeasonGoOn(p, rows) == IF rows = {} THEN Leave(p) ELSE Move(p, "next", rows)

(* The rest of refund(): save and commit. *)
RefundCommit(p) ==
  \E i \in Payments :
    /\ At(p, {"season", "delete"}, "stripe")
    /\ payLock[i] = p
    /\ pay' = SetStatus({i}, "REFUNDED")
    /\ payLock' = [payLock EXCEPT ![i] = Free]
    /\ IF frame[p].op = "season" THEN SeasonGoOn(p, frame[p].rows)
                                 ELSE Move(p, "delete", {})
    /\ UNCHANGED <<reg, match, rowLock, crashes, stripe, early>>

SeasonCandidates ==
  {i \in Payments : /\ pay[i].status = "HELD"
                    /\ pay[i].linked
                    /\ reg[pay[i].intent] # "SUSPENDED"
                    /\ ~Accepted(pay[i].intent)}

CloseSeason(p) ==
  /\ SeasonCandidates # {}
  /\ Enter(p, "season", "next", {}, SeasonCandidates)
  /\ UNCHANGED <<reg, match, pay, rowLock, payLock, crashes, stripe, early>>

(* One payment of the list: skipped if it left HELD, counted as failed if
   Stripe refuses, refunded otherwise. *)
SeasonNext(p) ==
  /\ At(p, {"season"}, "next")
  /\ \E i \in frame[p].rows :
       IF pay[i].status = "HELD" /\ StripeRefunds(pay[i].intent)
         THEN payLock[i] = Free /\ CallStripe(p, i, frame[p].rows \ {i})
         ELSE /\ SeasonGoOn(p, frame[p].rows \ {i})
              /\ UNCHANGED <<payLock, stripe>>
  /\ UNCHANGED <<reg, match, pay, rowLock, crashes, early>>

(* delete_account looks up the HELD deposit *)
DeleteFetch(p, r) ==
  /\ reg[r] # "DELETED"
  /\ Enter(p, "delete", IF Held(r) = {} THEN "delete" ELSE "next", {r}, Newest(Held(r)))
  /\ UNCHANGED <<reg, match, pay, rowLock, payLock, crashes, stripe, early>>

(* ... refunds it (an error of Stripe ends the request) *)
DeleteRefund(p) ==
  /\ At(p, {"delete"}, "next")
  /\ \E i \in frame[p].rows :
       /\ payLock[i] = Free
       /\ IF pay[i].status = "HELD" /\ StripeRefunds(pay[i].intent)
            THEN CallStripe(p, i, {})
            ELSE /\ IF pay[i].status = "HELD" THEN Leave(p) ELSE Move(p, "delete", {})
                 /\ UNCHANGED <<payLock, stripe>>
  /\ UNCHANGED <<reg, match, pay, rowLock, crashes, early>>

\* mutant: deletion clears the payment intent, not the registration
UnlinkIntent(rows) ==
  [i \in PaymentIds |-> IF i \in rows THEN [pay[i] EXCEPT !.intent = NoPayment] ELSE pay[i]]
(* on_delete=SET_NULL of Payment.registration. *)
Unlink(rows) ==
  [i \in PaymentIds |-> IF i \in rows THEN [pay[i] EXCEPT !.linked = FALSE] ELSE pay[i]]

(* ... and deletes the user: registration and matches go, payments stay. *)
DeleteCommit(p) ==
  \E r \in Registrations :
    /\ At(p, {"delete"}, "delete")
    /\ frame[p].who = {r}
    /\ rowLock[r] = Free
    /\ ~Accepting(r)
    /\ \A i \in OfIntent(r) : payLock[i] = Free
    /\ reg' = [reg EXCEPT ![r] = "DELETED"]
    /\ match' = [m \in Pairs |-> IF r \in {m[1], m[2]} THEN "none" ELSE match[m]]
    /\ pay' = Unlink(OfIntent(r))
    /\ Leave(p)
    /\ UNCHANGED <<rowLock, payLock, crashes, stripe, early>>

-----------------------------------------------------------------------------
(* Refunds made in Stripe's dashboard, and the event for every refund *)

StaffPartial(r) ==
  /\ Returnable(r)
  /\ charge' = [charge EXCEPT ![r] = "partly"]
  /\ event' = event \cup {<<"partial", r>>}
  /\ UNCHANGED <<reg, match, pay, rowLock, payLock, frame, crashes, byApp, early>>

StaffRefund(r) ==
  /\ Returnable(r)
  /\ charge' = [charge EXCEPT ![r] = "refunded"]
  /\ event' = event \cup {<<"refunded", r>>}
  /\ UNCHANGED <<reg, match, pay, rowLock, payLock, frame, crashes, byApp, early>>

\* mutant: only a HELD payment is reconciled
ReconcileHeld(rows) ==
  SetStatus({i \in rows : pay[i].status = "HELD"}, "REFUNDED")
(* record_payment_refunded: whatever the status was *)
Reconcile(rows) == SetStatus(rows, "REFUNDED")

(* handle_charge_refunded of a partial refund: answered, and left for a human.
   So is an event without a payment intent, which no payment here has. *)
WebhookPartial(r) ==
  /\ <<"partial", r>> \in event
  /\ Acknowledge(<<"partial", r>>)
  /\ UNCHANGED <<reg, match, pay, rowLock, payLock, frame, crashes, charge, byApp, early>>

(* ... of a full one *)
WebhookRefunded(r) ==
  LET rows == Newest(OfIntent(r))
  IN  /\ <<"refunded", r>> \in event
      /\ \A i \in rows : payLock[i] = Free
      /\ pay' = Reconcile(rows)
      /\ early' = IF rows = {} THEN early \cup {r} ELSE early
      /\ Acknowledge(<<"refunded", r>>)
      /\ UNCHANGED <<reg, match, rowLock, payLock, frame, crashes, charge, byApp>>

(* A process dies: its transaction is rolled back, its locks are released. *)
Crash(p) ==
  /\ frame[p] # Idle
  /\ crashes < MaxCrashes
  /\ crashes' = crashes + 1
  /\ rowLock' = [r \in Registrations |-> IF rowLock[r] = p THEN Free ELSE rowLock[r]]
  /\ payLock' = [i \in PaymentIds |-> IF payLock[i] = p THEN Free ELSE payLock[i]]
  /\ Leave(p)
  /\ UNCHANGED <<reg, match, pay, stripe, early>>

-----------------------------------------------------------------------------
Init ==
  /\ reg = [r \in Registrations |-> "UNVERIFIED"]
  /\ match = [m \in Pairs |-> "none"]
  /\ pay = [i \in PaymentIds |-> NoPayment]
  /\ rowLock = [r \in Registrations |-> Free]
  /\ payLock = [i \in PaymentIds |-> Free]
  /\ frame = [p \in Procs |-> Idle]
  /\ crashes = 0
  /\ charge = [r \in Registrations |-> "none"]
  /\ byApp = {}
  /\ event = {}
  /\ early = {}

Webhook(r) ==
  \/ \E p \in Procs : WebhookCompleted(p, r)
  \/ WebhookUnknown(r)
  \/ WebhookPartial(r)
  \/ WebhookRefunded(r)

Proceed(p) ==
  \/ FinalizeLock(p)
  \/ FinalizeCommit(p)
  \/ AcceptCommit(p)
  \/ SeasonNext(p)
  \/ DeleteRefund(p)
  \/ RefundCommit(p)
  \/ DeleteCommit(p)

Next ==
  \/ \E r \in Registrations :
       \/ ConfirmFree(r)
       \/ StartCheckout(r)
       \/ Pay(r)
       \/ StaffPartial(r)
       \/ StaffRefund(r)
       \/ Webhook(r)
       \/ \E p \in Procs : ReturnView(p, r) \/ DeleteFetch(p, r)
  \/ \E m \in Pairs :
       \/ Propose(m)
       \/ EndOpen(m)
       \/ \E p \in Procs : AcceptRead(p, m)
       \/ \E accused \in Registrations : ReportNoShow(m, accused)
  \/ \E p \in Procs : CloseSeason(p) \/ Proceed(p) \/ Crash(p)

Spec == Init /\ [][Next]_vars

(* Stripe delivers an event until it is answered, and a process that has begun
   goes on and gets the locks it waits for. *)
FairSpec ==
  /\ Spec
  /\ \A r \in Registrations : SF_vars(\E p \in Procs : WebhookCompleted(p, r))
  /\ \A p \in Procs : SF_vars(Proceed(p))

-----------------------------------------------------------------------------
(* Properties *)

TypeOK ==
  /\ reg \in [Registrations -> RegistrationStatus]
  /\ match \in [Pairs -> {"none", "open", "accepted"}]
  /\ pay \in [PaymentIds -> PaymentRow \cup {NoPayment}]
  /\ rowLock \in [Registrations -> Procs \cup {Free}]
  /\ payLock \in [PaymentIds -> Procs \cup {Free}]
  /\ frame \in [Procs -> Frame \cup {Idle}]
  /\ crashes \in 0..MaxCrashes
  /\ charge \in [Registrations -> Charge]
  /\ byApp \in SUBSET Registrations
  /\ event \in SUBSET Event
  /\ early \in SUBSET Registrations

(* The return view and the webhook, both or either of them twice, record one
   payment for one payment intent. *)
OnePaymentPerIntent ==
  \A i, j \in Payments : pay[i].intent = pay[j].intent => i = j

(* A deposit is settled once: after that its row changes only to report a
   refund that Stripe has made. *)
SettledOnce ==
  [][\A i \in Payments :
       pay[i].status # "HELD" /\ pay'[i].status # pay[i].status =>
         pay'[i].status = "REFUNDED" /\ charge[pay[i].intent] = "refunded"]_vars

(* Whatever crashes, and whoever refunds: a payment is REFUNDED in the table only
   if Stripe has returned all of it; and if Stripe has, it is REFUNDED, or the
   event that will say so is still to come, unless that event came before the
   payment was recorded.  Of money returned in part the table says nothing. *)
LedgerAgrees ==
  \A i \in Payments :
    /\ pay[i].status = "REFUNDED" => charge[pay[i].intent] = "refunded"
    /\ charge[pay[i].intent] = "refunded" /\ pay[i].status # "REFUNDED" =>
         \/ <<"refunded", pay[i].intent>> \in event
         \/ pay[i].intent \in early

(* The deposits of an accepted pair cannot be refunded by the season's end or a
   deletion any more: none is HELD. *)
AcceptedIsSettled ==
  \A m \in Pairs : match[m] = "accepted" => Held(m[1]) \cup Held(m[2]) = {}

(* A payment that was made is recorded, though its payer closes the browser and
   processes crash, unless the account is deleted first. *)
PaidIsRecorded ==
  \A r \in Registrations :
    charge[r] = "paid" ~> OfIntent(r) # {} \/ reg[r] = "DELETED"

(* A deposit whose registration was deleted is not left HELD: nobody would
   refund it any more. *)
DeletedIsSettled ==
  \A i \in Payments : ~pay[i].linked => pay[i].status # "HELD"

=============================================================================
