---------------------------------- MODULE Tips ----------------------------------
(***************************************************************************)
(* Tips: voluntary contributions of free-tier registrants, paid through a  *)
(* Stripe Checkout session and recorded once Stripe says they are paid     *)
(* (public/views/tips.py, billing/services/tips.py and the webhook's       *)
(* dispatch in billing/services/checkout.py).                              *)
(*                                                                         *)
(* Unlike a deposit, a tip has no row to lock: the return view and every   *)
(* delivery of the event look for the tip, then insert it, and the unique  *)
(* constraint decides between them.  A registration may tip several times, *)
(* be deleted at any moment, and the flag that offers tips may be turned   *)
(* off while somebody is paying.  Registrations are those of the free      *)
(* tier; amounts are valid (the form and _parse_tip_amount_chf see to it). *)
(***************************************************************************)
EXTENDS Integers, FiniteSets

CONSTANTS
  Registrations,  \* of the free tier
  Intents,        \* bound: Stripe payment intents, one for each session
  TipIds,         \* bound: the primary keys of the tips
  Procs,          \* gunicorn workers
  MaxCrashes,     \* bound: how many processes may crash
  None, Idle

\* partly: some of the money was returned, refunded: all of it.
Charge == {"none", "session", "paid", "partly", "refunded"}
Event == {"completed", "partial", "refunded"} \X Intents

TipStatus == {"PAID", "REFUNDED"}
\* linked: the registration is not NULL.
TipRow == [intent : Intents, linked : BOOLEAN, status : TipStatus]

Recording == [op : {"return", "webhook"}, step : {"check", "insert", "refetch"},
              intent : Intents]
Deletion == [op : {"delete"}, who : Registrations, rows : SUBSET TipIds]

ASSUME BoundsAssumption == TipIds \subseteq Nat /\ MaxCrashes \in Nat
ASSUME NullsAssumption ==
  None \notin TipRow \cup Registrations /\ Idle \notin Recording \cup Deletion

VARIABLES
  registered,  \* the registrations that are not deleted
  enabled,     \* settings.TIPS_ENABLED
  tip,         \* [TipIds -> TipRow or None]: the tip table
  frame,       \* [Procs -> Recording, Deletion or Idle]
  crashes,     \* how many crashes there have been
  by,          \* external: [Intents -> who it belongs to, or None], in metadata
  charge,      \* external: what Stripe knows of the intent
  event,       \* external: the events Stripe still delivers
  early        \* history: refunds whose event came before the tip's record

stripe == <<by, charge, event>>
vars == <<registered, enabled, tip, frame, crashes, stripe, early>>

-----------------------------------------------------------------------------
Tips == {t \in TipIds : tip[t] # None}
OfIntent(i) == {t \in Tips : tip[t].intent = i}
LinkedTo(r) == {t \in Tips : tip[t].linked /\ by[tip[t].intent] = r}

(* .first() of the default order: the newest. *)
Newest(rows) == {t \in rows : \A u \in rows : u <= t}

At(p, step) == frame[p] \in Recording /\ frame[p].step = step
Enter(p, op, i) ==
  /\ frame[p] = Idle
  /\ frame' = [frame EXCEPT ![p] = [op |-> op, step |-> "check", intent |-> i]]
Move(p, step) == frame' = [frame EXCEPT ![p].step = step]
Leave(p) == frame' = [frame EXCEPT ![p] = Idle]

(* A delivered event may be delivered again. *)
Acknowledge(e) == event' \in {event, event \ {e}}

(* The end of a recording: a webhook answers 200. *)
Answer(p) ==
  /\ Leave(p)
  /\ IF frame[p].op = "webhook"
       THEN Acknowledge(<<"completed", frame[p].intent>>)
       ELSE UNCHANGED event

-----------------------------------------------------------------------------
(* Checkout *)

(* _free_tier_registration_or_404 *)
MayTip(r) == enabled /\ r \in registered

(* _tip_mount_context: the page of a confirmed match asks for a tip, but not again
   once one is paid.  (tip_page, where a cancelled checkout leads back to, asks
   whoever may tip, whatever was paid.) *)
ShowsTipPanel(r) ==
  /\ MayTip(r)
  /\ \A t \in LinkedTo(r) : tip[t].status # "PAID"

(* create_tip_checkout_session: a new session at each click. *)
CreateSession(r, i) ==
  /\ charge[i] = "none"
  /\ charge' = [charge EXCEPT ![i] = "session"]
  /\ by' = [by EXCEPT ![i] = r]

TipStart(r, i) ==
  /\ MayTip(r)
  /\ CreateSession(r, i)
  /\ UNCHANGED <<registered, enabled, tip, frame, crashes, event, early>>

(* A session completes when it is paid: the handler of the event relies on that
   and does not look at payment_status. *)
Pay(i) ==
  /\ charge[i] = "session"
  /\ charge' = [charge EXCEPT ![i] = "paid"]
  /\ event' = event \cup {<<"completed", i>>}
  /\ UNCHANGED <<registered, enabled, tip, frame, crashes, by, early>>

(* tip_return, whatever the flag: the caller has a registration, the session's
   metadata names it, and Stripe reports it as paid, refunded or not. *)
TipReturn(p, i) ==
  /\ by[i] \in registered
  /\ charge[i] \in {"paid", "partly", "refunded"}
  /\ Enter(p, "return", i)
  /\ UNCHANGED <<registered, enabled, tip, crashes, stripe, early>>

\* mutant: the event is handled only while tips are offered
WebhookWhileEnabled(p, i) ==
  /\ enabled
  /\ <<"completed", i>> \in event
  /\ by[i] \in registered
  /\ Enter(p, "webhook", i)
  /\ UNCHANGED <<registered, enabled, tip, crashes, stripe, early>>
(* handle_checkout_completed, for purpose "tip" *)
WebhookCompleted(p, i) ==
  /\ <<"completed", i>> \in event
  /\ by[i] \in registered
  /\ Enter(p, "webhook", i)
  /\ UNCHANGED <<registered, enabled, tip, crashes, stripe, early>>

(* ... of a registration that is gone: logged and acknowledged. *)
WebhookUnknown(i) ==
  /\ <<"completed", i>> \in event
  /\ by[i] \notin registered
  /\ Acknowledge(<<"completed", i>>)
  /\ UNCHANGED <<registered, enabled, tip, frame, crashes, by, charge, early>>

-----------------------------------------------------------------------------
(* record_tip_paid *)

Check(p) ==
  /\ At(p, "check")
  /\ IF OfIntent(frame[p].intent) # {} THEN Answer(p)
                                      ELSE Move(p, "insert") /\ UNCHANGED event
  /\ UNCHANGED <<registered, enabled, tip, crashes, by, charge, early>>

\* mutant: the condition of the unique constraint excludes every row
DuplicateNever(i) == FALSE
(* unique_tip_stripe_payment_intent_id *)
Duplicate(i) == OfIntent(i) # {}

(* The insert; a tip of the same intent, or the registration gone meanwhile (the
   foreign key, at commit), is an IntegrityError either way. *)
Insert(p) ==
  LET i == frame[p].intent
  IN  /\ At(p, "insert")
      /\ IF Duplicate(i) \/ by[i] \notin registered
           THEN Move(p, "refetch") /\ UNCHANGED <<tip, event>>
           ELSE /\ \E t \in TipIds \ Tips :
                     /\ \A u \in TipIds \ Tips : t <= u
                     /\ tip' = [tip EXCEPT ![t] = [intent |-> i, linked |-> TRUE,
                                                   status |-> "PAID"]]
                /\ Answer(p)
      /\ UNCHANGED <<registered, enabled, crashes, by, charge, early>>

(* except IntegrityError: the winner's tip, if there is one; otherwise get()
   raises, the request is a 500 and Stripe will deliver the event again. *)
Refetch(p) ==
  /\ At(p, "refetch")
  /\ IF OfIntent(frame[p].intent) # {} THEN Answer(p) ELSE Leave(p) /\ UNCHANGED event
  /\ UNCHANGED <<registered, enabled, tip, crashes, by, charge, early>>

-----------------------------------------------------------------------------
(* Refunds, in Stripe's dashboard alone *)

StaffPartial(i) ==
  /\ charge[i] \in {"paid", "partly"}
  /\ charge' = [charge EXCEPT ![i] = "partly"]
  /\ event' = event \cup {<<"partial", i>>}
  /\ UNCHANGED <<registered, enabled, tip, frame, crashes, by, early>>

StaffRefund(i) ==
  /\ charge[i] \in {"paid", "partly"}
  /\ charge' = [charge EXCEPT ![i] = "refunded"]
  /\ event' = event \cup {<<"refunded", i>>}
  /\ UNCHANGED <<registered, enabled, tip, frame, crashes, by, early>>

\* mutant: only the tip of a registration that still exists is found
RefundLinked(rows) ==
  [t \in TipIds |-> IF t \in rows /\ tip[t].linked
                      THEN [tip[t] EXCEPT !.status = "REFUNDED"] ELSE tip[t]]
(* record_tip_refunded *)
Refund(rows) ==
  [t \in TipIds |-> IF t \in rows THEN [tip[t] EXCEPT !.status = "REFUNDED"] ELSE tip[t]]

(* handle_charge_refunded of a partial refund: answered, and left for a human.
   So is an event without a payment intent, which no tip here has. *)
WebhookPartial(i) ==
  /\ <<"partial", i>> \in event
  /\ Acknowledge(<<"partial", i>>)
  /\ UNCHANGED <<registered, enabled, tip, frame, crashes, by, charge, early>>

(* ... of a full one: no Payment has this intent, so the tip is looked up. *)
WebhookRefunded(i) ==
  LET rows == Newest(OfIntent(i))
  IN  /\ <<"refunded", i>> \in event
      /\ tip' = Refund(rows)
      /\ early' = IF rows = {} THEN early \cup {i} ELSE early
      /\ Acknowledge(<<"refunded", i>>)
      /\ UNCHANGED <<registered, enabled, frame, crashes, by, charge>>

-----------------------------------------------------------------------------
(* The rest of the world *)

\* mutant: deletion clears the payment intent, not the registration
UnlinkIntent(rows) ==
  [t \in TipIds |-> IF t \in rows THEN [tip[t] EXCEPT !.intent = None] ELSE tip[t]]
(* on_delete=SET_NULL of Tip.registration. *)
Unlink(rows) ==
  [t \in TipIds |-> IF t \in rows THEN [tip[t] EXCEPT !.linked = FALSE] ELSE tip[t]]

(* delete_account: the tips are looked up and unlinked *)
DeleteUnlink(p, r) ==
  /\ r \in registered
  /\ frame[p] = Idle
  /\ frame' = [frame EXCEPT ![p] = [op |-> "delete", who |-> r, rows |-> LinkedTo(r)]]
  /\ UNCHANGED <<registered, enabled, tip, crashes, stripe, early>>

(* ... and the registration deleted, in one transaction: if a tip was inserted
   between, the foreign key refuses the deletion and all of it is undone. *)
DeleteCommit(p) ==
  /\ frame[p] \in Deletion
  /\ LET r == frame[p].who
     IN  IF LinkedTo(r) \subseteq frame[p].rows
           THEN /\ registered' = registered \ {r}
                /\ tip' = Unlink(frame[p].rows)
           ELSE UNCHANGED <<registered, tip>>
  /\ Leave(p)
  /\ UNCHANGED <<enabled, crashes, stripe, early>>

(* TIPS_ENABLED is changed by a deployment. *)
Deploy ==
  /\ enabled' = ~enabled
  /\ UNCHANGED <<registered, tip, frame, crashes, stripe, early>>

(* A process dies: what it had not committed is lost. *)
Crash(p) ==
  /\ frame[p] # Idle
  /\ crashes < MaxCrashes
  /\ crashes' = crashes + 1
  /\ Leave(p)
  /\ UNCHANGED <<registered, enabled, tip, stripe, early>>

-----------------------------------------------------------------------------
Init ==
  /\ registered = Registrations
  /\ enabled \in BOOLEAN
  /\ tip = [t \in TipIds |-> None]
  /\ frame = [p \in Procs |-> Idle]
  /\ crashes = 0
  /\ by = [i \in Intents |-> None]
  /\ charge = [i \in Intents |-> "none"]
  /\ event = {}
  /\ early = {}

Proceed(p) == Check(p) \/ Insert(p) \/ Refetch(p) \/ DeleteCommit(p)

Next ==
  \/ \E i \in Intents :
       \/ \E r \in Registrations : TipStart(r, i)
       \/ Pay(i)
       \/ StaffPartial(i)
       \/ StaffRefund(i)
       \/ WebhookUnknown(i)
       \/ WebhookPartial(i)
       \/ WebhookRefunded(i)
       \/ \E p \in Procs : TipReturn(p, i) \/ WebhookCompleted(p, i)
  \/ \E p \in Procs :
       \/ Proceed(p)
       \/ Crash(p)
       \/ \E r \in Registrations : DeleteUnlink(p, r)
  \/ Deploy

Spec == Init /\ [][Next]_vars

(* Stripe delivers an event until it is answered; a process that has begun goes
   on. *)
FairSpec ==
  /\ Spec
  /\ \A i \in Intents : SF_vars(\E p \in Procs : WebhookCompleted(p, i))
  /\ \A p \in Procs : SF_vars(Proceed(p))

-----------------------------------------------------------------------------
(* Properties *)

TypeOK ==
  /\ registered \in SUBSET Registrations
  /\ enabled \in BOOLEAN
  /\ tip \in [TipIds -> TipRow \cup {None}]
  /\ frame \in [Procs -> Recording \cup Deletion \cup {Idle}]
  /\ crashes \in 0..MaxCrashes
  /\ by \in [Intents -> Registrations \cup {None}]
  /\ charge \in [Intents -> Charge]
  /\ event \in SUBSET Event
  /\ early \in SUBSET Intents

(* Whoever records it first, and however often, a payment intent has one tip; a
   tip is REFUNDED only if Stripe has returned all of it, and if Stripe has, it is
   REFUNDED, before or after its giver's account is gone, or the event that will
   say so is still to come, unless that event came before the tip was recorded;
   and the match page does not ask who has paid for another tip, once the event
   of the payment is handled, though part of the money was returned. *)
TipsAgree ==
  /\ \A t, u \in Tips : tip[t].intent = tip[u].intent => t = u
  /\ \A t \in Tips :
       /\ tip[t].status = "REFUNDED" => charge[tip[t].intent] = "refunded"
       /\ charge[tip[t].intent] = "refunded" /\ tip[t].status # "REFUNDED" =>
            \/ <<"refunded", tip[t].intent>> \in event
            \/ tip[t].intent \in early
  /\ \A i \in Intents :
       charge[i] \in {"paid", "partly"} /\ <<"completed", i>> \notin event =>
         ~ShowsTipPanel(by[i])

(* A tip that was paid is recorded, though its giver closes the browser, tips
   are turned off meanwhile and processes crash, unless the account is deleted
   first. *)
PaidTipIsRecorded ==
  \A i \in Intents :
    charge[i] = "paid" ~> OfIntent(i) # {} \/ by[i] \notin registered

=============================================================================
