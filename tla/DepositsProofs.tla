---------------------------- MODULE DepositsProofs ----------------------------
(***************************************************************************)
(* Theorems about Deposits, for any registrations, payments, processes and *)
(* crashes.                                                                *)
(***************************************************************************)
EXTENDS Deposits, TLAPS

Charged == {r \in Registrations : charge[r] \in {"paid", "partly", "refunded"}}

(* What Stripe announces, and what the table says of it, has happened; a free
   registration never gets there. *)
AnnouncedIsTrue ==
  /\ \A r \in Registrations :
       /\ <<"completed", r>> \in event => r \in Charged
       /\ <<"refunded", r>> \in event => charge[r] = "refunded"
       /\ charge[r] # "none" => r \in PaidTier
  /\ \A i \in Payments :
       /\ pay[i].intent \in Charged
       /\ pay[i].status = "REFUNDED" => charge[pay[i].intent] = "refunded"

(* A refund is on its way to the table, came too early for it, or is in it. *)
RefundIsKnown ==
  \A r \in Registrations : charge[r] = "refunded" =>
    \/ <<"refunded", r>> \in event
    \/ r \in early
    \/ OfIntent(r) # {} /\ \A i \in OfIntent(r) : pay[i].status = "REFUNDED"

(* A payment is locked across a call of Stripe only, which has refunded it. *)
LockedIsRefunded ==
  \A i \in PaymentIds : payLock[i] # Free => i \in Payments /\ charge[pay[i].intent] = "refunded"

(* A registration of the paid tier that has been VERIFIED has its payment. *)
HasDeposit(r) == r \in PaidTier => OfIntent(r) # {}
VerifiedHavePaid ==
  /\ \A r \in Registrations : reg[r] = "VERIFIED" => HasDeposit(r)
  /\ \A m \in Pairs : match[m] # "none" => HasDeposit(m[1]) /\ HasDeposit(m[2])

(* What a process has looked up: under the row's lock it stays true; the
   deposits of an acceptance can only stop being HELD. *)
FrameHolds(p) ==
  LET f == frame[p]
  IN  /\ f.rows \subseteq Payments
      /\ f.op \in {"return", "webhook"} =>
           \E r \in Charged :
             /\ f.who = {r}
             /\ f.step = "commit" => rowLock[r] = p /\ f.rows = OfIntent(r)
      /\ f.op = "accept" => \A r \in f.who : HasDeposit(r) /\ Held(r) \subseteq f.rows

FramesHold == \A p \in Procs : frame[p] # Idle => FrameHolds(p)

DInv ==
  /\ TypeOK
  /\ OnePaymentPerIntent
  /\ AnnouncedIsTrue
  /\ RefundIsKnown
  /\ LockedIsRefunded
  /\ VerifiedHavePaid
  /\ FramesHold
  /\ AcceptedIsSettled

-----------------------------------------------------------------------------
(* What a process holds *)

Frames == [Procs -> Frame \cup {Idle}]
PayTables == [PaymentIds -> PaymentRow \cup {NoPayment}]

LEMMA LeftFrame ==
  ASSUME TypeOK, NEW p \in Procs, Leave(p)
  PROVE  /\ frame' \in Frames /\ frame'[p] = Idle
         /\ \A q \in Procs : q # p => frame'[q] = frame[q]
  BY DEF TypeOK, Frames, Leave

Ops == {"return", "webhook", "accept", "season", "delete"}
Steps == {"lock", "commit", "next", "stripe", "delete"}

LEMMA EnteredFrame ==
  ASSUME TypeOK, NEW p \in Procs, NEW op \in Ops, NEW step \in Steps,
         NEW who \in SUBSET Registrations, NEW rows \in SUBSET PaymentIds,
         Enter(p, op, step, who, rows)
  PROVE  /\ frame' \in Frames /\ frame'[p] # Idle
         /\ frame'[p].op = op /\ frame'[p].step = step
         /\ frame'[p].who = who /\ frame'[p].rows = rows
         /\ \A q \in Procs : q # p => frame'[q] = frame[q]
  <1> DEFINE f == [op |-> op, step |-> step, who |-> who, rows |-> rows]
  <1>1. f \in Frame
    BY DEF Frame, Ops, Steps
  <1>2. frame' = [frame EXCEPT ![p] = f]
    BY DEF Enter
  <1> HIDE DEF f
  <1>3. /\ frame' \in Frames /\ frame'[p] = f
        /\ \A q \in Procs : q # p => frame'[q] = frame[q]
    BY <1>1, <1>2 DEF TypeOK, Frames
  <1>4. f.op = op /\ f.step = step /\ f.who = who /\ f.rows = rows
    BY DEF f
  <1>5. QED
    BY <1>1, <1>3, <1>4, NullsAssumption

LEMMA MovedFrame ==
  ASSUME TypeOK, NEW p \in Procs, frame[p] # Idle,
         NEW step \in {"lock", "commit", "next", "stripe", "delete"},
         NEW rows \in SUBSET PaymentIds, Move(p, step, rows)
  PROVE  /\ frame' \in Frames /\ frame'[p] # Idle
         /\ frame'[p].op = frame[p].op /\ frame'[p].who = frame[p].who
         /\ frame'[p].step = step /\ frame'[p].rows = rows
         /\ \A q \in Procs : q # p => frame'[q] = frame[q]
  <1>1. PICK f \in Frame : f = frame[p]
    BY DEF TypeOK
  <1> DEFINE g == [f EXCEPT !.step = step, !.rows = rows]
  <1>2. g \in Frame /\ g.op = f.op /\ g.who = f.who /\ g.step = step /\ g.rows = rows
    BY DEF Frame
  <1>3. frame' = [frame EXCEPT ![p] = g]
    BY <1>1 DEF Move, TypeOK
  <1> HIDE DEF g
  <1>4. /\ frame' \in Frames /\ frame'[p] = g
        /\ \A q \in Procs : q # p => frame'[q] = frame[q]
    BY <1>2, <1>3 DEF TypeOK, Frames
  <1>5. QED
    BY <1>1, <1>2, <1>4, NullsAssumption

(* The process at work is the only one whose frame changes. *)
Alone(p) == frame' \in Frames /\ \A q \in Procs : q # p => frame'[q] = frame[q]

-----------------------------------------------------------------------------
(* What a step may do to the payments *)

Kept(i) ==
  /\ pay'[i].intent = pay[i].intent
  /\ pay'[i].linked => pay[i].linked
  /\ \/ pay'[i].status = pay[i].status
     \/ pay[i].status = "HELD" /\ pay'[i].status \in {"CAPTURED", "FORFEITED"}
     \/ pay'[i].status = "REFUNDED" /\ charge[pay[i].intent] = "refunded"

NoneRecorded ==
  /\ pay' \in PayTables
  /\ \A i \in PaymentIds : IF pay[i] = NoPayment THEN pay'[i] = NoPayment
                                                 ELSE pay'[i] # NoPayment /\ Kept(i)

(* Process p, under the lock of the row, records the first payment of r. *)
Recorded(p, r, i) ==
  /\ r \in Charged /\ OfIntent(r) = {}
  /\ rowLock[r] = p /\ frame'[p] = Idle
  /\ pay[i] = NoPayment
  /\ pay' = [pay EXCEPT ![i] = [intent |-> r, linked |-> TRUE, status |-> "HELD"]]

PayEffect ==
  NoneRecorded \/ \E p \in Procs, r \in Registrations, i \in PaymentIds : Recorded(p, r, i)

LEMMA SamePayments ==
  ASSUME TypeOK, pay' = pay PROVE NoneRecorded
  BY DEF TypeOK, NoneRecorded, PayTables, Kept

LEMMA StatusSet ==
  ASSUME TypeOK, NEW rows \in SUBSET Payments, NEW status \in PaymentStatus,
         pay' = SetStatus(rows, status),
         \A i \in rows : \/ pay[i].status = "HELD" /\ status \in {"CAPTURED", "FORFEITED"}
                         \/ status = "REFUNDED" /\ charge[pay[i].intent] = "refunded"
  PROVE  NoneRecorded
  <1> SUFFICES ASSUME NEW i \in PaymentIds
               PROVE  /\ pay'[i] \in PaymentRow \cup {NoPayment}
                      /\ IF pay[i] = NoPayment THEN pay'[i] = NoPayment
                                               ELSE pay'[i] # NoPayment /\ Kept(i)
    BY DEF NoneRecorded, PayTables, SetStatus
  <1>1. CASE i \notin rows
    BY <1>1 DEF SetStatus, TypeOK, Kept
  <1>2. CASE i \in rows
    <2>1. PICK row \in PaymentRow : row = pay[i]
      BY <1>2 DEF Payments, TypeOK
    <2>2. pay'[i] = [row EXCEPT !.status = status]
      BY <1>2, <2>1 DEF SetStatus
    <2>3. /\ pay'[i] \in PaymentRow /\ pay'[i].status = status
          /\ pay'[i].intent = row.intent /\ pay'[i].linked = row.linked
      BY <2>2 DEF PaymentRow
    <2>4. QED
      BY <1>2, <2>1, <2>3, NullsAssumption DEF Kept, Payments
  <1>3. QED
    BY <1>1, <1>2

LEMMA Unlinked ==
  ASSUME TypeOK, NEW rows \in SUBSET Payments, pay' = Unlink(rows)
  PROVE  NoneRecorded
  <1> SUFFICES ASSUME NEW i \in PaymentIds
               PROVE  /\ pay'[i] \in PaymentRow \cup {NoPayment}
                      /\ IF pay[i] = NoPayment THEN pay'[i] = NoPayment
                                               ELSE pay'[i] # NoPayment /\ Kept(i)
    BY DEF NoneRecorded, PayTables, Unlink
  <1>1. CASE i \notin rows
    BY <1>1 DEF Unlink, TypeOK, Kept
  <1>2. CASE i \in rows
    <2>1. PICK row \in PaymentRow : row = pay[i]
      BY <1>2 DEF Payments, TypeOK
    <2>2. pay'[i] = [row EXCEPT !.linked = FALSE]
      BY <1>2, <2>1 DEF Unlink
    <2>3. /\ pay'[i] \in PaymentRow /\ pay'[i].status = row.status
          /\ pay'[i].intent = row.intent /\ ~pay'[i].linked
      BY <2>2 DEF PaymentRow
    <2>4. QED
      BY <1>2, <2>1, <2>3, NullsAssumption DEF Kept, Payments
  <1>3. QED
    BY <1>1, <1>2

(* Newest of one payment is that payment. *)
LEMMA NewestIsAll ==
  ASSUME TypeOK, OnePaymentPerIntent, NEW r \in Registrations, NEW rows \in SUBSET OfIntent(r)
  PROVE  Newest(rows) = rows
  <1>1. \A i, j \in rows : i = j /\ i \in Nat
    BY BoundsAssumption DEF OnePaymentPerIntent, OfIntent, Payments
  <1>2. \A i, j \in rows : j <= i
    BY <1>1
  <1>3. QED
    BY <1>2 DEF Newest

LEMMA PayStep ==
  ASSUME DInv, [Next]_vars PROVE PayEffect
  <1>0. /\ TypeOK /\ OnePaymentPerIntent /\ AnnouncedIsTrue /\ LockedIsRefunded /\ FramesHold
    BY DEF DInv
  <1>1. CASE pay' = pay
    BY <1>0, <1>1, SamePayments DEF PayEffect
  <1>2. ASSUME NEW p \in Procs, FinalizeCommit(p) PROVE PayEffect
    <2>1. PICK r \in Registrations :
             /\ At(p, {"return", "webhook"}, "commit") /\ frame[p].who = {r}
             /\ IF frame[p].rows # {}
                  THEN UNCHANGED pay
                  ELSE \E i \in PaymentIds \ Payments :
                         pay' = [pay EXCEPT ![i] =
                                   [intent |-> r, linked |-> TRUE, status |-> "HELD"]]
             /\ Leave(p)
      BY <1>2 DEF FinalizeCommit
    <2>2. CASE frame[p].rows # {}
      BY <2>1, <2>2, <1>0, SamePayments DEF PayEffect
    <2>3. CASE frame[p].rows = {}
      <3>1. PICK i \in PaymentIds \ Payments :
              pay' = [pay EXCEPT ![i] = [intent |-> r, linked |-> TRUE, status |-> "HELD"]]
        BY <2>1, <2>3
      <3>2. FrameHolds(p)
        BY <2>1, <1>0 DEF FramesHold, At
      <3>3. r \in Charged /\ OfIntent(r) = {} /\ rowLock[r] = p
        BY <2>1, <2>3, <3>2 DEF FrameHolds, At
      <3>4. frame'[p] = Idle
        BY <2>1, <1>0, LeftFrame
      <3>5. Recorded(p, r, i)
        BY <3>1, <3>3, <3>4 DEF Recorded, Payments
      <3>6. QED
        BY <3>5 DEF PayEffect
    <2>4. QED
      BY <2>2, <2>3
  <1>3. ASSUME NEW p \in Procs, AcceptCommit(p) PROVE PayEffect
    <2>1. /\ frame[p] # Idle
          /\ \/ pay' = pay
             \/ /\ pay' = SetStatus(frame[p].rows, "CAPTURED")
                /\ \A i \in frame[p].rows : pay[i].status = "HELD"
      BY <1>3 DEF AcceptCommit, At
    <2>2. frame[p].rows \subseteq Payments
      BY <2>1, <1>0 DEF FramesHold, FrameHolds
    <2>3. ASSUME pay' = SetStatus(frame[p].rows, "CAPTURED"),
                 \A i \in frame[p].rows : pay[i].status = "HELD"
          PROVE  NoneRecorded
      BY <2>2, <2>3, <1>0, StatusSet DEF PaymentStatus
    <2>4. QED
      BY <1>0, <2>1, <2>3, SamePayments DEF PayEffect
  <1>4. ASSUME NEW m \in Pairs, NEW accused \in Registrations, ReportNoShow(m, accused)
        PROVE  PayEffect
    <2> DEFINE rows == Newest(Held(accused))
    <2>1. pay' = SetStatus(rows, "FORFEITED")
      BY <1>4 DEF ReportNoShow
    <2>2. rows \in SUBSET Payments /\ \A i \in rows : pay[i].status = "HELD"
      BY DEF Newest, Held, OfIntent
    <2> HIDE DEF rows
    <2>3. NoneRecorded
      BY <2>1, <2>2, <1>0, StatusSet DEF PaymentStatus
    <2>4. QED
      BY <2>3 DEF PayEffect
  <1>5. ASSUME NEW p \in Procs, RefundCommit(p) PROVE PayEffect
    <2>1. PICK i \in Payments : payLock[i] = p /\ pay' = SetStatus({i}, "REFUNDED")
      BY <1>5 DEF RefundCommit
    <2>2. charge[pay[i].intent] = "refunded"
      BY <2>1, <1>0, NullsAssumption DEF LockedIsRefunded, Payments
    <2>3. NoneRecorded
      BY <2>1, <2>2, <1>0, StatusSet DEF PaymentStatus
    <2>4. QED
      BY <2>3 DEF PayEffect
  <1>6. ASSUME NEW r \in Registrations, WebhookRefunded(r) PROVE PayEffect
    <2> DEFINE rows == Newest(OfIntent(r))
    <2>1. <<"refunded", r>> \in event /\ pay' = SetStatus(rows, "REFUNDED")
      BY <1>6 DEF WebhookRefunded, Reconcile
    <2>2. rows \in SUBSET Payments /\ \A i \in rows : pay[i].intent = r
      BY DEF Newest, OfIntent
    <2>3. charge[r] = "refunded"
      BY <2>1, <1>0 DEF AnnouncedIsTrue
    <2> HIDE DEF rows
    <2>4. NoneRecorded
      BY <2>1, <2>2, <2>3, <1>0, StatusSet DEF PaymentStatus
    <2>5. QED
      BY <2>4 DEF PayEffect
  <1>7. ASSUME NEW p \in Procs, DeleteCommit(p) PROVE PayEffect
    <2>1. PICK r \in Registrations : pay' = Unlink(OfIntent(r))
      BY <1>7 DEF DeleteCommit
    <2>2. OfIntent(r) \in SUBSET Payments
      BY DEF OfIntent
    <2>3. NoneRecorded
      BY <2>1, <2>2, <1>0, Unlinked
    <2>4. QED
      BY <2>3 DEF PayEffect
  <1>8. ASSUME NEW r \in Registrations,
               \/ ConfirmFree(r) \/ StartCheckout(r) \/ Pay(r) \/ StaffPartial(r) \/ StaffRefund(r)
               \/ WebhookUnknown(r) \/ WebhookPartial(r)
               \/ \E p \in Procs : WebhookCompleted(p, r) \/ ReturnView(p, r) \/ DeleteFetch(p, r)
        PROVE  pay' = pay
    BY <1>8 DEF ConfirmFree, StartCheckout, Pay, StaffPartial, StaffRefund, WebhookUnknown,
        WebhookPartial, WebhookCompleted, ReturnView, DeleteFetch
  <1>9. ASSUME NEW m \in Pairs, Propose(m) \/ EndOpen(m) \/ \E p \in Procs : AcceptRead(p, m)
        PROVE  pay' = pay
    BY <1>9 DEF Propose, EndOpen, AcceptRead
  <1>10. ASSUME NEW p \in Procs,
                \/ CloseSeason(p) \/ FinalizeLock(p) \/ SeasonNext(p) \/ DeleteRefund(p)
                \/ Crash(p)
         PROVE  pay' = pay
    BY <1>10 DEF CloseSeason, FinalizeLock, SeasonNext, DeleteRefund, Crash
  <1>11. CASE UNCHANGED vars
    BY <1>1, <1>11 DEF vars
  <1>12. QED
    BY <1>1, <1>2, <1>3, <1>4, <1>5, <1>6, <1>7, <1>8, <1>9, <1>10, <1>11
       DEF Next, Webhook, Proceed

-----------------------------------------------------------------------------
(* Refunds: what the two callers of refund() have in common *)

(* A process at work on refunds narrows its list of payments, or ends. *)
Narrowed(p) ==
  /\ Alone(p)
  /\ frame[p] # Idle /\ frame[p].op \in {"season", "delete"}
  /\ frame'[p] # Idle => /\ frame'[p].op = frame[p].op
                         /\ frame'[p].rows \subseteq frame[p].rows

Refunds(p, i) ==
  LET r == pay[i].intent
  IN  /\ StripeRefunds(r)
      /\ payLock' = [payLock EXCEPT ![i] = p]
      /\ byApp' = byApp \cup {r}
      /\ charge' = [charge EXCEPT ![r] = "refunded"]
      /\ event' = IF Returnable(r) THEN event \cup {<<"refunded", r>>} ELSE event

LEMMA LeftNarrows ==
  ASSUME TypeOK, NEW p \in Procs, frame[p] # Idle, frame[p].op \in {"season", "delete"},
         Leave(p)
  PROVE  Narrowed(p)
  BY LeftFrame DEF Narrowed, Alone

LEMMA MovedNarrows ==
  ASSUME TypeOK, NEW p \in Procs, frame[p] # Idle, frame[p].op \in {"season", "delete"},
         NEW step \in {"next", "stripe", "delete"},
         NEW rows \in SUBSET frame[p].rows, Move(p, step, rows)
  PROVE  Narrowed(p)
  <1>1. rows \in SUBSET PaymentIds
    BY DEF TypeOK, Frame
  <1>2. QED
    BY <1>1, MovedFrame DEF Narrowed, Alone

LEMMA RefundCases ==
  ASSUME TypeOK, FramesHold, NEW p \in Procs, SeasonNext(p) \/ DeleteRefund(p)
  PROVE  /\ UNCHANGED <<reg, match, pay, rowLock, crashes, early>>
         /\ Narrowed(p)
         /\ \/ UNCHANGED <<payLock, stripe>>
            \/ \E i \in Payments : Refunds(p, i)
  <1>1. frame[p] # Idle /\ frame[p].op \in {"season", "delete"}
    BY DEF SeasonNext, DeleteRefund, At
  <1>2. frame[p].rows \subseteq Payments
    BY <1>1 DEF FramesHold, FrameHolds
  <1>3. UNCHANGED <<reg, match, pay, rowLock, crashes, early>>
    BY DEF SeasonNext, DeleteRefund
  <1>4. CASE SeasonNext(p)
    <2>1. PICK i \in frame[p].rows :
            IF pay[i].status = "HELD" /\ StripeRefunds(pay[i].intent)
              THEN CallStripe(p, i, frame[p].rows \ {i})
              ELSE SeasonGoOn(p, frame[p].rows \ {i}) /\ UNCHANGED <<payLock, stripe>>
      BY <1>4 DEF SeasonNext
    <2> DEFINE rows == frame[p].rows \ {i}
    <2>2. rows \in SUBSET frame[p].rows
      OBVIOUS
    <2> HIDE DEF rows
    <2>3. CASE Leave(p) /\ UNCHANGED <<payLock, stripe>>
      BY <1>1, <1>3, <2>3, LeftNarrows
    <2>4. CASE Move(p, "next", rows) /\ UNCHANGED <<payLock, stripe>>
      BY <1>1, <1>3, <2>2, <2>4, MovedNarrows
    <2>5. CASE StripeRefunds(pay[i].intent) /\ CallStripe(p, i, rows)
      <3>1. Move(p, "stripe", rows) /\ Refunds(p, i)
        BY <2>5 DEF CallStripe, Refunds
      <3>2. QED
        BY <1>1, <1>2, <1>3, <2>2, <3>1, MovedNarrows
    <2>6. QED
      BY <2>1, <2>3, <2>4, <2>5 DEF SeasonGoOn, rows
  <1>5. CASE DeleteRefund(p)
    <2>1. PICK i \in frame[p].rows :
            IF pay[i].status = "HELD" /\ StripeRefunds(pay[i].intent)
              THEN CallStripe(p, i, {})
              ELSE /\ IF pay[i].status = "HELD" THEN Leave(p) ELSE Move(p, "delete", {})
                   /\ UNCHANGED <<payLock, stripe>>
      BY <1>5 DEF DeleteRefund
    <2>2. {} \in SUBSET frame[p].rows
      OBVIOUS
    <2>3. CASE Leave(p) /\ UNCHANGED <<payLock, stripe>>
      BY <1>1, <1>3, <2>3, LeftNarrows
    <2>4. CASE Move(p, "delete", {}) /\ UNCHANGED <<payLock, stripe>>
      BY <1>1, <1>3, <2>2, <2>4, MovedNarrows
    <2>5. CASE StripeRefunds(pay[i].intent) /\ CallStripe(p, i, {})
      <3>1. Move(p, "stripe", {}) /\ Refunds(p, i)
        BY <2>5 DEF CallStripe, Refunds
      <3>2. QED
        BY <1>1, <1>2, <1>3, <2>2, <3>1, MovedNarrows
    <2>6. QED
      BY <2>1, <2>3, <2>4, <2>5
  <1>6. QED
    BY <1>4, <1>5

LEMMA RefundCommitNarrows ==
  ASSUME TypeOK, NEW p \in Procs, RefundCommit(p)
  PROVE  Narrowed(p)
  <1>1. frame[p] # Idle /\ frame[p].op \in {"season", "delete"}
    BY DEF RefundCommit, At
  <1>2. frame[p].rows \in SUBSET frame[p].rows /\ {} \in SUBSET frame[p].rows
    OBVIOUS
  <1>3. Leave(p) \/ Move(p, "next", frame[p].rows) \/ Move(p, "delete", {})
    BY DEF RefundCommit, SeasonGoOn
  <1>4. QED
    BY <1>1, <1>2, <1>3, LeftNarrows, MovedNarrows

-----------------------------------------------------------------------------
(* What a step may do to Stripe's side *)

ChargeMoves(r) ==
  \/ charge'[r] = charge[r]
  \/ charge[r] = "none" /\ charge'[r] = "session" /\ r \in PaidTier
  \/ charge[r] = "session" /\ charge'[r] = "paid"
  \/ Returnable(r) /\ charge'[r] = "partly"
  \/ Returnable(r) /\ charge'[r] = "refunded" /\ <<"refunded", r>> \in event'

EventsMove(r) ==
  /\ <<"completed", r>> \in event' => <<"completed", r>> \in event \/ charge'[r] = "paid"
  /\ <<"refunded", r>> \in event' => <<"refunded", r>> \in event \/ charge'[r] = "refunded"
  /\ <<"refunded", r>> \in event => <<"refunded", r>> \in event' \/ WebhookRefunded(r)

StripeEffect ==
  /\ charge' \in [Registrations -> Charge] /\ byApp' \in SUBSET Registrations
  /\ event' \in SUBSET Event
  /\ early \subseteq early' /\ early' \in SUBSET Registrations
  /\ \A r \in Registrations : ChargeMoves(r) /\ EventsMove(r)

LEMMA StripeAtRest ==
  ASSUME TypeOK, UNCHANGED stripe, UNCHANGED early PROVE StripeEffect
  BY DEF TypeOK, stripe, StripeEffect, ChargeMoves, EventsMove

LEMMA EventAcknowledged ==
  ASSUME TypeOK, NEW r \in Registrations, Acknowledge(<<"completed", r>>),
         UNCHANGED <<charge, byApp, early>>
  PROVE  StripeEffect
  <1>1. /\ event' \in SUBSET Event /\ event' \subseteq event
        /\ \A q \in Registrations : <<"refunded", q>> \in event => <<"refunded", q>> \in event'
    BY DEF Acknowledge, TypeOK
  <1>2. QED
    BY <1>1 DEF TypeOK, StripeEffect, ChargeMoves, EventsMove

LEMMA StripeRefunded ==
  ASSUME TypeOK, AnnouncedIsTrue, NEW p \in Procs, NEW i \in Payments, Refunds(p, i),
         UNCHANGED early
  PROVE  StripeEffect
  <1>1. PICK r \in Registrations : r = pay[i].intent /\ r \in Charged
    BY DEF AnnouncedIsTrue, Charged
  <1>2. /\ byApp' = byApp \cup {r} /\ charge' = [charge EXCEPT ![r] = "refunded"]
        /\ event' = IF Returnable(r) THEN event \cup {<<"refunded", r>>} ELSE event
    BY <1>1 DEF Refunds
  <1>3. /\ charge' \in [Registrations -> Charge] /\ charge'[r] = "refunded"
        /\ \A q \in Registrations : q # r => charge'[q] = charge[q]
    BY <1>2 DEF TypeOK, Charge
  <1>4. /\ event' \in SUBSET Event /\ event \subseteq event'
        /\ Returnable(r) => <<"refunded", r>> \in event'
        /\ \A q \in Registrations :
             /\ <<"completed", q>> \in event' => <<"completed", q>> \in event
             /\ <<"refunded", q>> \in event' => <<"refunded", q>> \in event \/ q = r
    BY <1>2 DEF TypeOK, Event
  <1>5. ASSUME NEW q \in Registrations PROVE ChargeMoves(q) /\ EventsMove(q)
    BY <1>1, <1>3, <1>4 DEF ChargeMoves, EventsMove, Charged, Returnable
  <1>6. byApp' \in SUBSET Registrations /\ early' = early /\ early \in SUBSET Registrations
    BY <1>2 DEF TypeOK
  <1>7. QED
    BY <1>3, <1>4, <1>5, <1>6 DEF StripeEffect

LEMMA StripeStep ==
  ASSUME DInv, [Next]_vars PROVE StripeEffect
  <1>0. TypeOK /\ AnnouncedIsTrue /\ FramesHold
    BY DEF DInv
  <1>1. ASSUME NEW r \in Registrations, StartCheckout(r) PROVE StripeEffect
    <2>1. /\ charge' \in [Registrations -> Charge] /\ charge[r] = "none"
          /\ charge'[r] = "session" /\ r \in PaidTier
          /\ \A q \in Registrations : q # r => charge'[q] = charge[q]
      BY <1>0, <1>1 DEF TypeOK, Charge, StartCheckout, PaymentDue
    <2>2. UNCHANGED <<byApp, event, early>>
      BY <1>1 DEF StartCheckout
    <2>3. QED
      BY <1>0, <2>1, <2>2 DEF TypeOK, StripeEffect, ChargeMoves, EventsMove
  <1>2. ASSUME NEW r \in Registrations, Pay(r) PROVE StripeEffect
    <2>1. /\ charge' \in [Registrations -> Charge] /\ charge[r] = "session" /\ charge'[r] = "paid"
          /\ \A q \in Registrations : q # r => charge'[q] = charge[q]
      BY <1>0, <1>2 DEF TypeOK, Charge, Pay
    <2>2. /\ event' = event \cup {<<"completed", r>>} /\ event' \in SUBSET Event
          /\ UNCHANGED <<byApp, early>>
      BY <1>0, <1>2 DEF Pay, TypeOK, Event
    <2>3. ASSUME NEW q \in Registrations PROVE ChargeMoves(q) /\ EventsMove(q)
      BY <2>1, <2>2 DEF ChargeMoves, EventsMove
    <2>4. QED
      BY <1>0, <2>1, <2>2, <2>3 DEF TypeOK, StripeEffect
  <1>3. ASSUME NEW r \in Registrations, StaffRefund(r) PROVE StripeEffect
    <2>1. /\ charge' \in [Registrations -> Charge] /\ Returnable(r) /\ charge'[r] = "refunded"
          /\ \A q \in Registrations : q # r => charge'[q] = charge[q]
      BY <1>0, <1>3 DEF TypeOK, Charge, StaffRefund
    <2>2. /\ event' = event \cup {<<"refunded", r>>} /\ event' \in SUBSET Event
          /\ UNCHANGED <<byApp, early>>
      BY <1>0, <1>3 DEF StaffRefund, TypeOK, Event
    <2>3. ASSUME NEW q \in Registrations PROVE ChargeMoves(q) /\ EventsMove(q)
      BY <2>1, <2>2 DEF ChargeMoves, EventsMove
    <2>4. QED
      BY <1>0, <2>1, <2>2, <2>3 DEF TypeOK, StripeEffect
  <1>11. ASSUME NEW r \in Registrations, StaffPartial(r) PROVE StripeEffect
    <2>1. /\ charge' \in [Registrations -> Charge] /\ Returnable(r) /\ charge'[r] = "partly"
          /\ \A q \in Registrations : q # r => charge'[q] = charge[q]
      BY <1>0, <1>11 DEF TypeOK, Charge, StaffPartial
    <2>2. /\ event' = event \cup {<<"partial", r>>} /\ event' \in SUBSET Event
          /\ UNCHANGED <<byApp, early>>
      BY <1>0, <1>11 DEF StaffPartial, TypeOK, Event
    <2>3. ASSUME NEW q \in Registrations PROVE ChargeMoves(q) /\ EventsMove(q)
      BY <2>1, <2>2 DEF ChargeMoves, EventsMove
    <2>4. QED
      BY <1>0, <2>1, <2>2, <2>3 DEF TypeOK, StripeEffect
  <1>12. ASSUME NEW r \in Registrations, WebhookPartial(r) PROVE StripeEffect
    <2>1. /\ event' \in SUBSET Event /\ event' \subseteq event
          /\ \A q \in Registrations : <<"refunded", q>> \in event => <<"refunded", q>> \in event'
      BY <1>0, <1>12 DEF WebhookPartial, Acknowledge, TypeOK
    <2>2. UNCHANGED <<charge, byApp, early>>
      BY <1>12 DEF WebhookPartial
    <2>3. QED
      BY <1>0, <2>1, <2>2 DEF TypeOK, StripeEffect, ChargeMoves, EventsMove
  <1>4. ASSUME NEW r \in Registrations, WebhookRefunded(r) PROVE StripeEffect
    <2>1. /\ event' \in SUBSET Event /\ event' \subseteq event
          /\ \A q \in Registrations :
               q # r /\ <<"refunded", q>> \in event => <<"refunded", q>> \in event'
      BY <1>0, <1>4 DEF WebhookRefunded, Acknowledge, TypeOK
    <2>2. early \subseteq early' /\ early' \in SUBSET Registrations /\ UNCHANGED <<charge, byApp>>
      BY <1>0, <1>4 DEF WebhookRefunded, TypeOK
    <2>3. ASSUME NEW q \in Registrations PROVE ChargeMoves(q) /\ EventsMove(q)
      <3>1. CASE q = r
        BY <1>4, <2>1, <2>2, <3>1 DEF ChargeMoves, EventsMove
      <3>2. CASE q # r
        BY <2>1, <2>2, <3>2 DEF ChargeMoves, EventsMove
      <3>3. QED
        BY <3>1, <3>2
    <2>4. QED
      BY <1>0, <2>1, <2>2, <2>3 DEF TypeOK, StripeEffect
  <1>5. ASSUME NEW r \in Registrations, WebhookUnknown(r) PROVE StripeEffect
    BY <1>0, <1>5, EventAcknowledged DEF WebhookUnknown
  <1>6. ASSUME NEW p \in Procs, FinalizeCommit(p) PROVE StripeEffect
    <2>1. PICK r \in Registrations : event' = event \/ Acknowledge(<<"completed", r>>)
      BY <1>6 DEF FinalizeCommit
    <2>2. UNCHANGED <<charge, byApp, early>>
      BY <1>6 DEF FinalizeCommit
    <2>3. QED
      BY <1>0, <2>1, <2>2, EventAcknowledged, StripeAtRest DEF stripe
  <1>7. ASSUME NEW p \in Procs, SeasonNext(p) \/ DeleteRefund(p) PROVE StripeEffect
    BY <1>0, <1>7, RefundCases, StripeAtRest, StripeRefunded
  <1>8. ASSUME NEW r \in Registrations,
               ConfirmFree(r) \/ \E p \in Procs : ReturnView(p, r) \/ DeleteFetch(p, r)
                                                  \/ WebhookCompleted(p, r)
        PROVE  StripeEffect
    <2>1. UNCHANGED stripe /\ UNCHANGED early
      BY <1>8 DEF ConfirmFree, ReturnView, DeleteFetch, WebhookCompleted
    <2>2. QED
      BY <1>0, <2>1, StripeAtRest
  <1>9. ASSUME NEW m \in Pairs,
               \/ Propose(m) \/ EndOpen(m) \/ \E p \in Procs : AcceptRead(p, m)
               \/ \E accused \in Registrations : ReportNoShow(m, accused)
        PROVE  StripeEffect
    <2>1. UNCHANGED stripe /\ UNCHANGED early
      BY <1>9 DEF Propose, EndOpen, AcceptRead, ReportNoShow
    <2>2. QED
      BY <1>0, <2>1, StripeAtRest
  <1>10. ASSUME NEW p \in Procs,
                \/ CloseSeason(p) \/ FinalizeLock(p) \/ AcceptCommit(p) \/ RefundCommit(p)
                \/ DeleteCommit(p) \/ Crash(p)
         PROVE  StripeEffect
    <2>1. UNCHANGED stripe /\ UNCHANGED early
      BY <1>10 DEF CloseSeason, FinalizeLock, AcceptCommit, RefundCommit, DeleteCommit, Crash
    <2>2. QED
      BY <1>0, <2>1, StripeAtRest
  <1>13. CASE UNCHANGED vars
    BY <1>0, <1>13, StripeAtRest DEF vars
  <1>14. QED
    BY <1>1, <1>2, <1>3, <1>4, <1>5, <1>6, <1>7, <1>8, <1>9, <1>10, <1>11, <1>12, <1>13
       DEF Next, Webhook, Proceed

-----------------------------------------------------------------------------
(* What follows for the table *)

LEMMA TableKept ==
  ASSUME NoneRecorded
  PROVE  /\ pay' \in PayTables
         /\ Payments' = Payments
         /\ \A i \in Payments : Kept(i)
         /\ \A r \in Registrations : OfIntent(r)' = OfIntent(r) /\ Held(r)' \subseteq Held(r)
  <1>1. Payments' = Payments /\ \A i \in Payments : Kept(i)
    BY DEF NoneRecorded, Payments
  <1>2. \A r \in Registrations : OfIntent(r)' = OfIntent(r)
    BY <1>1 DEF OfIntent, Kept
  <1>3. \A r \in Registrations : Held(r)' \subseteq Held(r)
    BY <1>1, <1>2 DEF Held, OfIntent, Kept
  <1>4. QED
    BY <1>1, <1>2, <1>3 DEF NoneRecorded

LEMMA TableGrown ==
  ASSUME TypeOK, NEW p \in Procs, NEW r \in Registrations, NEW i \in PaymentIds,
         Recorded(p, r, i)
  PROVE  /\ pay' \in PayTables
         /\ i \notin Payments /\ Payments' = Payments \cup {i}
         /\ \A j \in Payments : pay'[j] = pay[j]
         /\ pay'[i].intent = r /\ pay'[i].status = "HELD" /\ OfIntent(r)' = {i}
         /\ \A q \in Registrations : q # r => OfIntent(q)' = OfIntent(q) /\ Held(q)' = Held(q)
  <1> DEFINE row == [intent |-> r, linked |-> TRUE, status |-> "HELD"]
  <1>1. row \in PaymentRow /\ row.intent = r /\ row.status = "HELD"
    BY DEF PaymentRow, PaymentStatus
  <1>2. pay' = [pay EXCEPT ![i] = row] /\ pay[i] = NoPayment /\ OfIntent(r) = {}
    BY DEF Recorded
  <1> HIDE DEF row
  <1>3. /\ pay' \in PayTables /\ pay'[i] = row
        /\ \A j \in PaymentIds : j # i => pay'[j] = pay[j]
    BY <1>1, <1>2 DEF TypeOK, PayTables
  <1>4. i \notin Payments /\ Payments' = Payments \cup {i}
    BY <1>1, <1>2, <1>3, NullsAssumption DEF Payments
  <1>5. \A j \in Payments : pay'[j] = pay[j]
    BY <1>3, <1>4 DEF Payments
  <1>6. OfIntent(r)' = {i}
    BY <1>1, <1>2, <1>3, <1>4, <1>5 DEF OfIntent
  <1>7. \A q \in Registrations : q # r => OfIntent(q)' = OfIntent(q)
    BY <1>1, <1>3, <1>4, <1>5 DEF OfIntent
  <1>8. \A q \in Registrations : q # r => Held(q)' = Held(q)
    BY <1>5, <1>7 DEF Held, OfIntent
  <1>9. QED
    BY <1>1, <1>3, <1>4, <1>5, <1>6, <1>7, <1>8

(* A payment is made under the row's lock, after a look at the table. *)
LEMMA StaysOnePayment ==
  ASSUME TypeOK, OnePaymentPerIntent, PayEffect PROVE OnePaymentPerIntent'
  <1>1. CASE NoneRecorded
    BY <1>1, TableKept DEF OnePaymentPerIntent, Kept
  <1>2. ASSUME NEW p \in Procs, NEW r \in Registrations, NEW i \in PaymentIds, Recorded(p, r, i)
        PROVE  OnePaymentPerIntent'
    <2>1. /\ Payments' = Payments \cup {i} /\ \A j \in Payments : pay'[j] = pay[j]
          /\ pay'[i].intent = r
      BY <1>2, TableGrown
    <2>2. \A j \in Payments : pay[j].intent # r
      BY <1>2 DEF Recorded, OfIntent
    <2>3. QED
      BY <2>1, <2>2 DEF OnePaymentPerIntent
  <1>3. QED
    BY <1>1, <1>2 DEF PayEffect

LEMMA StaysCharged ==
  ASSUME StripeEffect PROVE Charged \subseteq Charged'
  BY DEF StripeEffect, ChargeMoves, Charged, Returnable

LEMMA StaysAnnounced ==
  ASSUME TypeOK, AnnouncedIsTrue, PayEffect, StripeEffect PROVE AnnouncedIsTrue'
  <1>1. ASSUME NEW r \in Registrations
        PROVE  /\ <<"completed", r>> \in event' => r \in Charged'
               /\ <<"refunded", r>> \in event' => charge'[r] = "refunded"
               /\ charge'[r] # "none" => r \in PaidTier
    <2>1. ChargeMoves(r) /\ EventsMove(r)
      BY DEF StripeEffect
    <2>2. /\ <<"completed", r>> \in event => charge[r] \in {"paid", "partly", "refunded"}
          /\ <<"refunded", r>> \in event => charge[r] = "refunded"
          /\ charge[r] # "none" => r \in PaidTier
      BY DEF AnnouncedIsTrue, Charged
    <2>3. QED
      BY <2>1, <2>2 DEF ChargeMoves, EventsMove, Charged, Returnable
  <1>2. /\ Charged \subseteq Charged'
        /\ \A r \in Registrations : charge[r] = "refunded" => charge'[r] = "refunded"
    BY StaysCharged DEF StripeEffect, ChargeMoves, Returnable
  <1>3. \A i \in Payments' :
          /\ pay'[i].intent \in Charged'
          /\ pay'[i].status = "REFUNDED" => charge'[pay'[i].intent] = "refunded"
    <2>1. CASE NoneRecorded
      <3>1. SUFFICES ASSUME NEW i \in Payments
                     PROVE  /\ pay'[i].intent \in Charged'
                            /\ pay'[i].status = "REFUNDED" => charge'[pay'[i].intent] = "refunded"
        BY <2>1, TableKept
      <3>2. /\ pay'[i].intent = pay[i].intent
            /\ pay'[i].status = "REFUNDED" =>
                 pay[i].status = "REFUNDED" \/ charge[pay[i].intent] = "refunded"
        BY <2>1, TableKept DEF Kept
      <3>3. /\ pay[i].intent \in Charged /\ pay[i].intent \in Registrations
            /\ pay[i].status = "REFUNDED" => charge[pay[i].intent] = "refunded"
        BY DEF AnnouncedIsTrue, Charged
      <3>4. QED
        BY <1>2, <3>2, <3>3
    <2>2. ASSUME NEW p \in Procs, NEW r \in Registrations, NEW i \in PaymentIds,
                 Recorded(p, r, i)
          PROVE  \A j \in Payments' :
                   /\ pay'[j].intent \in Charged'
                   /\ pay'[j].status = "REFUNDED" => charge'[pay'[j].intent] = "refunded"
      <3>1. SUFFICES ASSUME NEW j \in Payments'
                     PROVE  /\ pay'[j].intent \in Charged'
                            /\ pay'[j].status = "REFUNDED" => charge'[pay'[j].intent] = "refunded"
        OBVIOUS
      <3>2. r \in Charged
        BY <2>2 DEF Recorded
      <3>3. CASE j = i
        <4>1. pay'[i].intent = r /\ pay'[i].status = "HELD"
          BY <2>2, TableGrown
        <4>2. QED
          BY <1>2, <3>2, <3>3, <4>1
      <3>4. CASE j # i
        <4>1. j \in Payments /\ pay'[j] = pay[j]
          BY <2>2, <3>4, TableGrown
        <4>2. /\ pay[j].intent \in Charged /\ pay[j].intent \in Registrations
              /\ pay[j].status = "REFUNDED" => charge[pay[j].intent] = "refunded"
          BY <4>1 DEF AnnouncedIsTrue, Charged
        <4>3. QED
          BY <1>2, <4>1, <4>2
      <3>5. QED
        BY <3>3, <3>4
    <2>3. QED
      BY <2>1, <2>2 DEF PayEffect
  <1>4. \A r \in Registrations :
          /\ <<"completed", r>> \in event' => r \in Charged'
          /\ <<"refunded", r>> \in event' => charge'[r] = "refunded"
          /\ charge'[r] # "none" => r \in PaidTier
    BY <1>1
  <1>5. QED
    BY ONLY <1>3, <1>4 DEF AnnouncedIsTrue

(* The event of a refund finds the one payment of the intent, or none yet. *)
LEMMA RefundIsRecorded ==
  ASSUME TypeOK, OnePaymentPerIntent, NEW r \in Registrations, WebhookRefunded(r)
  PROVE  \/ r \in early'
         \/ OfIntent(r) # {} /\ \A i \in OfIntent(r) : pay'[i].status = "REFUNDED"
  <1>1. Newest(OfIntent(r)) = OfIntent(r)
    BY NewestIsAll
  <1>2. CASE OfIntent(r) = {}
    BY <1>1, <1>2 DEF WebhookRefunded
  <1>3. CASE OfIntent(r) # {}
    <2>1. pay' = SetStatus(OfIntent(r), "REFUNDED")
      BY <1>1 DEF WebhookRefunded, Reconcile
    <2>2. ASSUME NEW i \in OfIntent(r) PROVE pay'[i].status = "REFUNDED"
      <3>1. i \in PaymentIds
        BY DEF OfIntent, Payments
      <3>2. PICK row \in PaymentRow : row = pay[i]
        BY DEF OfIntent, Payments, TypeOK
      <3>3. pay'[i] = [row EXCEPT !.status = "REFUNDED"]
        BY <2>1, <3>1, <3>2 DEF SetStatus
      <3>4. QED
        BY <3>2, <3>3 DEF PaymentRow
    <2>3. QED
      BY <1>3, <2>2
  <1>4. QED
    BY <1>2, <1>3

LEMMA StaysKnown ==
  ASSUME DInv, PayEffect, StripeEffect PROVE RefundIsKnown'
  <1>0. TypeOK /\ OnePaymentPerIntent /\ RefundIsKnown
    BY DEF DInv
  <1> SUFFICES ASSUME NEW r \in Registrations, charge'[r] = "refunded"
               PROVE  \/ <<"refunded", r>> \in event'
                      \/ r \in early'
                      \/ /\ OfIntent(r)' # {}
                         /\ \A i \in OfIntent(r)' : pay'[i].status = "REFUNDED"
    BY DEF RefundIsKnown
  <1>1. ChargeMoves(r) /\ EventsMove(r) /\ early \subseteq early'
    BY DEF StripeEffect
  <1>2. ASSUME OfIntent(r) # {}, \/ \A i \in OfIntent(r) : pay[i].status = "REFUNDED"
                                 \/ \A i \in OfIntent(r) : pay'[i].status = "REFUNDED"
        PROVE  OfIntent(r)' # {} /\ \A i \in OfIntent(r)' : pay'[i].status = "REFUNDED"
    <2>1. CASE NoneRecorded
      BY <1>2, <2>1, TableKept DEF Kept, OfIntent
    <2>2. ASSUME NEW p \in Procs, NEW q \in Registrations, NEW i \in PaymentIds,
                 Recorded(p, q, i)
          PROVE  OfIntent(r)' # {} /\ \A j \in OfIntent(r)' : pay'[j].status = "REFUNDED"
      <3>1. q # r
        BY <1>2, <2>2 DEF Recorded
      <3>2. OfIntent(r)' = OfIntent(r) /\ \A j \in OfIntent(r) : pay'[j] = pay[j]
        BY <1>0, <2>2, <3>1, TableGrown DEF OfIntent
      <3>3. QED
        BY <1>2, <3>2
    <2>3. QED
      BY <2>1, <2>2 DEF PayEffect
  <1>3. CASE charge[r] # "refunded"
    BY <1>1, <1>3 DEF ChargeMoves
  <1>4. CASE charge[r] = "refunded" /\ <<"refunded", r>> \in event
    BY <1>0, <1>1, <1>2, <1>4, RefundIsRecorded DEF EventsMove
  <1>5. CASE charge[r] = "refunded" /\ <<"refunded", r>> \notin event
    BY <1>0, <1>1, <1>2, <1>5 DEF RefundIsKnown
  <1>6. QED
    BY <1>3, <1>4, <1>5

-----------------------------------------------------------------------------
(* What a step may do to the locks *)

PayLockMoves(i) ==
  \/ payLock'[i] \in {payLock[i], Free}
  \/ i \in Payments /\ charge'[pay[i].intent] = "refunded"

RowLockMoves(r) ==
  \A p \in Procs : rowLock[r] = p /\ frame'[p] # Idle => rowLock'[r] = p

LockEffect ==
  /\ payLock' \in [PaymentIds -> Procs \cup {Free}]
  /\ rowLock' \in [Registrations -> Procs \cup {Free}]
  /\ \A i \in PaymentIds : PayLockMoves(i)
  /\ \A r \in Registrations : RowLockMoves(r)

LEMMA RowLocksAtRest ==
  ASSUME TypeOK, UNCHANGED rowLock
  PROVE  /\ rowLock' \in [Registrations -> Procs \cup {Free}]
         /\ \A r \in Registrations : RowLockMoves(r)
  BY DEF TypeOK, RowLockMoves

LEMMA PayLocksAtRest ==
  ASSUME TypeOK, UNCHANGED payLock
  PROVE  /\ payLock' \in [PaymentIds -> Procs \cup {Free}]
         /\ \A i \in PaymentIds : PayLockMoves(i)
  BY DEF TypeOK, PayLockMoves

LEMMA LocksAtRest ==
  ASSUME TypeOK, UNCHANGED <<rowLock, payLock>> PROVE LockEffect
  BY RowLocksAtRest, PayLocksAtRest DEF LockEffect

LEMMA LockStep ==
  ASSUME DInv, [Next]_vars PROVE LockEffect
  <1>0. TypeOK /\ AnnouncedIsTrue /\ FramesHold
    BY DEF DInv
  <1>1. ASSUME NEW p \in Procs, FinalizeLock(p) PROVE LockEffect
    <2>1. UNCHANGED payLock
      BY <1>1 DEF FinalizeLock
    <2>2. CASE UNCHANGED rowLock
      BY <1>0, <2>1, <2>2, LocksAtRest
    <2>3. ASSUME NEW r \in Registrations, rowLock[r] = Free, rowLock' = [rowLock EXCEPT ![r] = p]
          PROVE  LockEffect
      <3>1. /\ rowLock' \in [Registrations -> Procs \cup {Free}]
            /\ \A q \in Registrations : q # r => rowLock'[q] = rowLock[q]
        BY <1>0, <2>3 DEF TypeOK
      <3>2. \A q \in Registrations : RowLockMoves(q)
        BY <2>3, <3>1, NullsAssumption DEF RowLockMoves
      <3>3. QED
        BY <1>0, <2>1, <3>1, <3>2, PayLocksAtRest DEF LockEffect
    <2>4. QED
      BY <1>1, <2>2, <2>3 DEF FinalizeLock
  <1>2. ASSUME NEW p \in Procs, FinalizeCommit(p) PROVE LockEffect
    <2>1. PICK r \in Registrations :
            /\ At(p, {"return", "webhook"}, "commit") /\ frame[p].who = {r}
            /\ rowLock' = [rowLock EXCEPT ![r] = Free]
            /\ Leave(p)
      BY <1>2 DEF FinalizeCommit
    <2>2. rowLock[r] = p
      BY <1>0, <2>1 DEF At, FramesHold, FrameHolds
    <2>3. frame'[p] = Idle
      BY <1>0, <2>1, LeftFrame
    <2>4. /\ rowLock' \in [Registrations -> Procs \cup {Free}]
          /\ \A q \in Registrations : q # r => rowLock'[q] = rowLock[q]
      BY <1>0, <2>1 DEF TypeOK
    <2>5. \A q \in Registrations : RowLockMoves(q)
      BY <2>2, <2>3, <2>4 DEF RowLockMoves
    <2>6. UNCHANGED payLock
      BY <1>2 DEF FinalizeCommit
    <2>7. QED
      BY <1>0, <2>4, <2>5, <2>6, PayLocksAtRest DEF LockEffect
  <1>3. ASSUME NEW p \in Procs, SeasonNext(p) \/ DeleteRefund(p) PROVE LockEffect
    <2>1. UNCHANGED rowLock
      BY <1>0, <1>3, RefundCases
    <2>2. CASE UNCHANGED payLock
      BY <1>0, <2>1, <2>2, LocksAtRest
    <2>3. ASSUME NEW i \in Payments, Refunds(p, i) PROVE LockEffect
      <3>1. PICK r \in Registrations : r = pay[i].intent
        BY <1>0 DEF AnnouncedIsTrue, Charged
      <3>2. charge'[r] = "refunded"
        BY <1>0, <2>3, <3>1 DEF Refunds, TypeOK
      <3>3. payLock' = [payLock EXCEPT ![i] = p]
        BY <2>3 DEF Refunds
      <3>4. \A j \in PaymentIds : PayLockMoves(j)
        BY <1>0, <3>1, <3>2, <3>3 DEF PayLockMoves, TypeOK
      <3>5. payLock' \in [PaymentIds -> Procs \cup {Free}]
        BY <1>0, <3>3 DEF TypeOK
      <3>6. QED
        BY <1>0, <2>1, <3>4, <3>5, RowLocksAtRest DEF LockEffect
    <2>4. QED
      BY <1>0, <1>3, <2>2, <2>3, RefundCases
  <1>4. ASSUME NEW p \in Procs, RefundCommit(p) PROVE LockEffect
    <2>1. PICK i \in Payments : payLock' = [payLock EXCEPT ![i] = Free]
      BY <1>4 DEF RefundCommit
    <2>2. UNCHANGED rowLock
      BY <1>4 DEF RefundCommit
    <2>3. /\ payLock' \in [PaymentIds -> Procs \cup {Free}]
          /\ \A j \in PaymentIds : PayLockMoves(j)
      BY <1>0, <2>1 DEF TypeOK, PayLockMoves
    <2>4. QED
      BY <1>0, <2>2, <2>3, RowLocksAtRest DEF LockEffect
  <1>5. ASSUME NEW p \in Procs, Crash(p) PROVE LockEffect
    <2>1. frame'[p] = Idle
      BY <1>0, <1>5, LeftFrame DEF Crash
    <2>2. /\ rowLock' = [r \in Registrations |-> IF rowLock[r] = p THEN Free ELSE rowLock[r]]
          /\ payLock' = [i \in PaymentIds |-> IF payLock[i] = p THEN Free ELSE payLock[i]]
      BY <1>5 DEF Crash
    <2>3. /\ payLock' \in [PaymentIds -> Procs \cup {Free}]
          /\ rowLock' \in [Registrations -> Procs \cup {Free}]
      BY <1>0, <2>2 DEF TypeOK
    <2>4. \A i \in PaymentIds : PayLockMoves(i)
      BY <2>2 DEF PayLockMoves
    <2>5. \A r \in Registrations : RowLockMoves(r)
      BY <2>1, <2>2 DEF RowLockMoves
    <2>6. QED
      BY <2>3, <2>4, <2>5 DEF LockEffect
  <1>6. ASSUME NEW r \in Registrations,
               \/ ConfirmFree(r) \/ StartCheckout(r) \/ Pay(r) \/ StaffPartial(r) \/ StaffRefund(r)
               \/ WebhookUnknown(r) \/ WebhookPartial(r) \/ WebhookRefunded(r)
               \/ \E p \in Procs : WebhookCompleted(p, r) \/ ReturnView(p, r) \/ DeleteFetch(p, r)
        PROVE  LockEffect
    <2>1. UNCHANGED <<rowLock, payLock>>
      BY <1>6 DEF ConfirmFree, StartCheckout, Pay, StaffPartial, StaffRefund, WebhookUnknown,
        WebhookPartial, WebhookRefunded,
                  WebhookCompleted, ReturnView, DeleteFetch
    <2>2. QED
      BY <1>0, <2>1, LocksAtRest
  <1>7. ASSUME NEW m \in Pairs,
               \/ Propose(m) \/ EndOpen(m) \/ \E p \in Procs : AcceptRead(p, m)
               \/ \E accused \in Registrations : ReportNoShow(m, accused)
        PROVE  LockEffect
    <2>1. UNCHANGED <<rowLock, payLock>>
      BY <1>7 DEF Propose, EndOpen, AcceptRead, ReportNoShow
    <2>2. QED
      BY <1>0, <2>1, LocksAtRest
  <1>8. ASSUME NEW p \in Procs, CloseSeason(p) \/ AcceptCommit(p) \/ DeleteCommit(p)
        PROVE  LockEffect
    <2>1. UNCHANGED <<rowLock, payLock>>
      BY <1>8 DEF CloseSeason, AcceptCommit, DeleteCommit
    <2>2. QED
      BY <1>0, <2>1, LocksAtRest
  <1>9. CASE UNCHANGED vars
    BY <1>0, <1>9, LocksAtRest DEF vars
  <1>10. QED
    BY <1>1, <1>2, <1>3, <1>4, <1>5, <1>6, <1>7, <1>8, <1>9 DEF Next, Webhook, Proceed

LEMMA StaysLocked ==
  ASSUME TypeOK, AnnouncedIsTrue, LockedIsRefunded, PayEffect, StripeEffect, LockEffect
  PROVE  LockedIsRefunded'
  <1> SUFFICES ASSUME NEW i \in PaymentIds, payLock'[i] # Free
               PROVE  i \in Payments' /\ charge'[pay'[i].intent] = "refunded"
    BY DEF LockedIsRefunded
  <1>1. PayLockMoves(i)
    BY DEF LockEffect
  <1>2. i \in Payments /\ (charge[pay[i].intent] = "refunded" \/ charge'[pay[i].intent] = "refunded")
    BY <1>1 DEF PayLockMoves, LockedIsRefunded
  <1>3. charge'[pay[i].intent] = "refunded"
    BY <1>2 DEF StripeEffect, ChargeMoves, Returnable, AnnouncedIsTrue, Charged
  <1>4. i \in Payments' /\ pay'[i].intent = pay[i].intent
    BY <1>2, TableKept, TableGrown DEF PayEffect, Kept
  <1>5. QED
    BY <1>3, <1>4

-----------------------------------------------------------------------------
(* What a step may do to the registrations and the matches *)

(* A deposit, once recorded, stays; no second one comes. *)
LEMMA DepositStays ==
  ASSUME TypeOK, AnnouncedIsTrue, PayEffect, NEW r \in Registrations, HasDeposit(r)
  PROVE  HasDeposit(r)' /\ Held(r)' \subseteq Held(r)
  <1>1. CASE NoneRecorded
    BY <1>1, TableKept DEF HasDeposit
  <1>2. ASSUME NEW p \in Procs, NEW q \in Registrations, NEW i \in PaymentIds, Recorded(p, q, i)
        PROVE  HasDeposit(r)' /\ Held(r)' \subseteq Held(r)
    <2>1. q # r
      BY <1>2 DEF Recorded, HasDeposit, AnnouncedIsTrue, Charged
    <2>2. OfIntent(r)' = OfIntent(r) /\ Held(r)' = Held(r)
      BY <1>2, <2>1, TableGrown
    <2>3. QED
      BY <2>2 DEF HasDeposit
  <1>3. QED
    BY <1>1, <1>2 DEF PayEffect

RegMoves(r) == reg'[r] = "VERIFIED" => reg[r] = "VERIFIED" \/ HasDeposit(r)'

MatchMoves(m) ==
  \/ match'[m] = "none"
  \/ match'[m] = match[m]
  \/ match'[m] = "open" /\ reg[m[1]] = "VERIFIED" /\ reg[m[2]] = "VERIFIED"
  \/ \A r \in {m[1], m[2]} : HasDeposit(r)' /\ Held(r)' = {}

MatchEffect ==
  /\ reg' \in [Registrations -> RegistrationStatus]
  /\ match' \in [Pairs -> {"none", "open", "accepted"}]
  /\ \A r \in Registrations : RegMoves(r)
  /\ \A m \in Pairs : MatchMoves(m)

LEMMA RegsAtRest ==
  ASSUME TypeOK, UNCHANGED reg
  PROVE  /\ reg' \in [Registrations -> RegistrationStatus]
         /\ \A r \in Registrations : RegMoves(r)
  BY DEF TypeOK, RegMoves

LEMMA MatchesAtRest ==
  ASSUME TypeOK, UNCHANGED match
  PROVE  /\ match' \in [Pairs -> {"none", "open", "accepted"}]
         /\ \A m \in Pairs : MatchMoves(m)
  BY DEF TypeOK, MatchMoves

LEMMA AtRest ==
  ASSUME TypeOK, UNCHANGED <<reg, match>> PROVE MatchEffect
  BY RegsAtRest, MatchesAtRest DEF MatchEffect

LEMMA PartiesOf ==
  ASSUME NEW m \in Pairs PROVE m[1] \in Registrations /\ m[2] \in Registrations
  BY DEF Pairs, Registrations

(* The capture of all that was looked up leaves neither party a HELD deposit. *)
LEMMA CaptureSettles ==
  ASSUME DInv, NEW p \in Procs, NEW m \in Pairs,
         frame[p] # Idle, frame[p].op = "accept", frame[p].who = {m[1], m[2]},
         pay' = SetStatus(frame[p].rows, "CAPTURED"),
         PayEffect
  PROVE  \A r \in {m[1], m[2]} : HasDeposit(r)' /\ Held(r)' = {}
  <1>0. TypeOK /\ AnnouncedIsTrue /\ FramesHold
    BY DEF DInv
  <1> SUFFICES ASSUME NEW r \in {m[1], m[2]} PROVE HasDeposit(r)' /\ Held(r)' = {}
    OBVIOUS
  <1>1. r \in Registrations
    BY PartiesOf
  <1>2. HasDeposit(r) /\ Held(r) \subseteq frame[p].rows /\ frame[p].rows \subseteq Payments
    BY <1>0 DEF FramesHold, FrameHolds
  <1>3. HasDeposit(r)' /\ Held(r)' \subseteq Held(r)
    BY <1>0, <1>1, <1>2, DepositStays
  <1>4. ASSUME NEW i \in frame[p].rows PROVE pay'[i].status = "CAPTURED"
    <2>1. i \in PaymentIds
      BY <1>2 DEF Payments
    <2>2. PICK row \in PaymentRow : row = pay[i]
      BY <1>0, <1>2 DEF Payments, TypeOK
    <2>3. pay'[i] = [row EXCEPT !.status = "CAPTURED"]
      BY <2>1, <2>2 DEF SetStatus
    <2>4. QED
      BY <2>2, <2>3 DEF PaymentRow
  <1>5. \A i \in Held(r)' : pay'[i].status = "HELD"
    BY DEF Held
  <1>6. QED
    BY <1>2, <1>3, <1>4, <1>5

LEMMA MatchStep ==
  ASSUME DInv, [Next]_vars PROVE MatchEffect
  <1>0. /\ TypeOK /\ AnnouncedIsTrue /\ FramesHold
        /\ PayEffect
    BY PayStep DEF DInv
  <1>1. ASSUME NEW r \in Registrations, ConfirmFree(r) PROVE MatchEffect
    <2>1. r \notin PaidTier /\ reg' = [reg EXCEPT ![r] = "VERIFIED"] /\ UNCHANGED match
      BY <1>1 DEF ConfirmFree
    <2>2. /\ reg' \in [Registrations -> RegistrationStatus]
          /\ \A q \in Registrations : q # r => reg'[q] = reg[q]
      BY <1>0, <2>1 DEF TypeOK, RegistrationStatus
    <2>3. \A q \in Registrations : RegMoves(q)
      BY <2>1, <2>2 DEF RegMoves, HasDeposit
    <2>4. QED
      BY <1>0, <2>1, <2>2, <2>3, MatchesAtRest DEF MatchEffect
  <1>2. ASSUME NEW p \in Procs, FinalizeCommit(p) PROVE MatchEffect
    <2>1. PICK r \in Registrations :
            /\ At(p, {"return", "webhook"}, "commit") /\ frame[p].who = {r}
            /\ IF frame[p].rows # {}
                 THEN UNCHANGED pay
                 ELSE \E i \in PaymentIds \ Payments :
                        pay' = [pay EXCEPT ![i] =
                                  [intent |-> r, linked |-> TRUE, status |-> "HELD"]]
            /\ reg' = IF reg[r] = "UNVERIFIED" THEN [reg EXCEPT ![r] = "VERIFIED"] ELSE reg
            /\ Leave(p)
      BY <1>2 DEF FinalizeCommit
    <2>2. r \in Charged /\ rowLock[r] = p /\ frame[p].rows = OfIntent(r)
      BY <1>0, <2>1 DEF At, FramesHold, FrameHolds
    <2>3. OfIntent(r)' # {}
      <3>1. CASE frame[p].rows # {}
        BY <2>1, <2>2, <3>1 DEF OfIntent, Payments
      <3>2. CASE frame[p].rows = {}
        <4>1. PICK i \in PaymentIds \ Payments :
                pay' = [pay EXCEPT ![i] = [intent |-> r, linked |-> TRUE, status |-> "HELD"]]
          BY <2>1, <3>2
        <4>2. Recorded(p, r, i)
          BY <1>0, <2>1, <2>2, <3>2, <4>1, LeftFrame DEF Recorded, Payments
        <4>3. QED
          BY <1>0, <4>2, TableGrown
      <3>3. QED
        BY <3>1, <3>2
    <2>4. /\ reg' \in [Registrations -> RegistrationStatus]
          /\ \A q \in Registrations : q # r => reg'[q] = reg[q]
      BY <1>0, <2>1 DEF TypeOK, RegistrationStatus
    <2>5. \A q \in Registrations : RegMoves(q)
      BY <2>3, <2>4 DEF RegMoves, HasDeposit
    <2>6. UNCHANGED match
      BY <1>2 DEF FinalizeCommit
    <2>7. QED
      BY <1>0, <2>4, <2>5, <2>6, MatchesAtRest DEF MatchEffect
  <1>3. ASSUME NEW m \in Pairs, Propose(m) PROVE MatchEffect
    <2>1. /\ reg[m[1]] = "VERIFIED" /\ reg[m[2]] = "VERIFIED" /\ UNCHANGED reg
          /\ match' = [match EXCEPT ![m] = "open"]
      BY <1>3 DEF Propose
    <2>2. match' \in [Pairs -> {"none", "open", "accepted"}] /\ \A n \in Pairs : MatchMoves(n)
      BY <1>0, <2>1 DEF TypeOK, MatchMoves
    <2>3. QED
      BY <1>0, <2>1, <2>2, RegsAtRest DEF MatchEffect
  <1>4. ASSUME NEW m \in Pairs, EndOpen(m) PROVE MatchEffect
    <2>1. UNCHANGED reg /\ match' = [match EXCEPT ![m] = "none"]
      BY <1>4 DEF EndOpen
    <2>2. match' \in [Pairs -> {"none", "open", "accepted"}] /\ \A n \in Pairs : MatchMoves(n)
      BY <1>0, <2>1 DEF TypeOK, MatchMoves
    <2>3. QED
      BY <1>0, <2>1, <2>2, RegsAtRest DEF MatchEffect
  <1>5. ASSUME NEW m \in Pairs, NEW accused \in Registrations, ReportNoShow(m, accused)
        PROVE  MatchEffect
    <2>1. /\ reg' = [reg EXCEPT ![accused] = "SUSPENDED"]
          /\ match' = [match EXCEPT ![m] = "none"]
      BY <1>5 DEF ReportNoShow
    <2>2. match' \in [Pairs -> {"none", "open", "accepted"}] /\ \A n \in Pairs : MatchMoves(n)
      BY <1>0, <2>1 DEF TypeOK, MatchMoves
    <2>3. /\ reg' \in [Registrations -> RegistrationStatus]
          /\ \A r \in Registrations : RegMoves(r)
      BY <1>0, <2>1 DEF TypeOK, RegistrationStatus, RegMoves
    <2>4. QED
      BY <2>2, <2>3 DEF MatchEffect
  <1>6. ASSUME NEW p \in Procs, AcceptCommit(p) PROVE MatchEffect
    <2>1. PICK m \in Pairs :
            /\ frame[p] # Idle /\ frame[p].op = "accept" /\ frame[p].who = {m[1], m[2]}
            /\ \/ UNCHANGED match
               \/ /\ pay' = SetStatus(frame[p].rows, "CAPTURED")
                  /\ match' = [match EXCEPT ![m] = "accepted"]
      BY <1>6 DEF AcceptCommit, At
    <2>2. UNCHANGED reg
      BY <1>6 DEF AcceptCommit
    <2>3. ASSUME pay' = SetStatus(frame[p].rows, "CAPTURED"),
                 match' = [match EXCEPT ![m] = "accepted"]
          PROVE  /\ match' \in [Pairs -> {"none", "open", "accepted"}]
                 /\ \A n \in Pairs : MatchMoves(n)
      <3>1. \A r \in {m[1], m[2]} : HasDeposit(r)' /\ Held(r)' = {}
        BY <1>0, <2>1, <2>3, CaptureSettles
      <3>2. match' \in [Pairs -> {"none", "open", "accepted"}]
        BY <1>0, <2>3 DEF TypeOK
      <3>3. ASSUME NEW n \in Pairs PROVE MatchMoves(n)
        <4>1. CASE n = m
          BY <3>1, <4>1 DEF MatchMoves
        <4>2. CASE n # m
          BY <1>0, <2>3, <4>2 DEF MatchMoves, TypeOK
        <4>3. QED
          BY <4>1, <4>2
      <3>4. QED
        BY <3>2, <3>3
    <2>4. QED
      BY <1>0, <2>1, <2>2, <2>3, RegsAtRest, MatchesAtRest DEF MatchEffect
  <1>7. ASSUME NEW p \in Procs, DeleteCommit(p) PROVE MatchEffect
    <2>1. PICK r \in Registrations :
            /\ reg' = [reg EXCEPT ![r] = "DELETED"]
            /\ match' = [m \in Pairs |-> IF r \in {m[1], m[2]} THEN "none" ELSE match[m]]
      BY <1>7 DEF DeleteCommit
    <2>2. match' \in [Pairs -> {"none", "open", "accepted"}] /\ \A n \in Pairs : MatchMoves(n)
      BY <1>0, <2>1 DEF TypeOK, MatchMoves
    <2>3. /\ reg' \in [Registrations -> RegistrationStatus]
          /\ \A q \in Registrations : RegMoves(q)
      BY <1>0, <2>1 DEF TypeOK, RegistrationStatus, RegMoves
    <2>4. QED
      BY <2>2, <2>3 DEF MatchEffect
  <1>8. ASSUME NEW p \in Procs, SeasonNext(p) \/ DeleteRefund(p) PROVE MatchEffect
    BY <1>0, <1>8, RefundCases, AtRest
  <1>9. ASSUME NEW r \in Registrations,
               \/ StartCheckout(r) \/ Pay(r) \/ StaffPartial(r) \/ StaffRefund(r)
               \/ WebhookUnknown(r) \/ WebhookPartial(r) \/ WebhookRefunded(r)
               \/ \E p \in Procs : WebhookCompleted(p, r) \/ ReturnView(p, r) \/ DeleteFetch(p, r)
        PROVE  MatchEffect
    <2>1. UNCHANGED <<reg, match>>
      BY <1>9 DEF StartCheckout, Pay, StaffPartial, StaffRefund, WebhookUnknown,
        WebhookPartial, WebhookRefunded,
                  WebhookCompleted, ReturnView, DeleteFetch
    <2>2. QED
      BY <1>0, <2>1, AtRest
  <1>10. ASSUME NEW m \in Pairs, NEW p \in Procs, AcceptRead(p, m) PROVE MatchEffect
    <2>1. UNCHANGED <<reg, match>>
      BY <1>10 DEF AcceptRead
    <2>2. QED
      BY <1>0, <2>1, AtRest
  <1>11. ASSUME NEW p \in Procs,
                CloseSeason(p) \/ FinalizeLock(p) \/ RefundCommit(p) \/ Crash(p)
         PROVE  MatchEffect
    <2>1. UNCHANGED <<reg, match>>
      BY <1>11 DEF CloseSeason, FinalizeLock, RefundCommit, Crash
    <2>2. QED
      BY <1>0, <2>1, AtRest
  <1>12. CASE UNCHANGED vars
    BY <1>0, <1>12, AtRest DEF vars
  <1>13. QED
    BY <1>1, <1>2, <1>3, <1>4, <1>5, <1>6, <1>7, <1>8, <1>9, <1>10, <1>11, <1>12
       DEF Next, Webhook, Proceed

LEMMA StaysVerified ==
  ASSUME TypeOK, AnnouncedIsTrue, VerifiedHavePaid, PayEffect, MatchEffect
  PROVE  VerifiedHavePaid'
  <1>1. \A r \in Registrations : HasDeposit(r) => HasDeposit(r)'
    BY DepositStays
  <1>2. \A r \in Registrations : reg'[r] = "VERIFIED" => HasDeposit(r)'
    BY <1>1 DEF MatchEffect, RegMoves, VerifiedHavePaid
  <1>3. ASSUME NEW m \in Pairs, match'[m] # "none" PROVE HasDeposit(m[1])' /\ HasDeposit(m[2])'
    BY <1>1, <1>3, PartiesOf DEF MatchEffect, MatchMoves, VerifiedHavePaid
  <1>4. QED
    BY <1>2, <1>3 DEF VerifiedHavePaid

LEMMA StaysSettled ==
  ASSUME TypeOK, AnnouncedIsTrue, VerifiedHavePaid, AcceptedIsSettled, PayEffect, MatchEffect
  PROVE  AcceptedIsSettled'
  <1> SUFFICES ASSUME NEW m \in Pairs, match'[m] = "accepted"
               PROVE  Held(m[1])' \cup Held(m[2])' = {}
    BY DEF AcceptedIsSettled
  <1>1. CASE match[m] = "accepted"
    <2>1. \A r \in {m[1], m[2]} : r \in Registrations /\ HasDeposit(r) /\ Held(r) = {}
      BY <1>1, PartiesOf DEF VerifiedHavePaid, AcceptedIsSettled
    <2>2. \A r \in {m[1], m[2]} : Held(r)' = {}
      BY <2>1, DepositStays
    <2>3. QED
      BY <2>2
  <1>2. CASE \A r \in {m[1], m[2]} : Held(r)' = {}
    BY <1>2
  <1>3. QED
    BY <1>1, <1>2 DEF MatchEffect, MatchMoves

-----------------------------------------------------------------------------
(* What a process has looked up stays good while the others work *)

PaymentsStay == Payments \subseteq Payments'

LEMMA PaymentsDoStay ==
  ASSUME TypeOK, PayEffect PROVE PaymentsStay
  BY TableKept, TableGrown DEF PayEffect, PaymentsStay

(* The others' steps, and the frame's own that leave it as it is. *)
LEMMA FrameKept ==
  ASSUME DInv, PayEffect, StripeEffect, LockEffect,
         NEW p \in Procs, frame[p] # Idle, frame'[p] = frame[p]
  PROVE  FrameHolds(p)'
  <1>0. TypeOK /\ AnnouncedIsTrue /\ FrameHolds(p)
    BY DEF DInv, FramesHold
  <1>1. frame'[p].rows \subseteq Payments'
    BY <1>0, PaymentsDoStay DEF FrameHolds, PaymentsStay
  <1>2. ASSUME frame[p].op \in {"return", "webhook"}
        PROVE  \E r \in Charged' :
                 /\ frame'[p].who = {r}
                 /\ frame'[p].step = "commit" => rowLock'[r] = p /\ frame'[p].rows = OfIntent(r)'
    <2>1. PICK r \in Charged :
            /\ frame[p].who = {r}
            /\ frame[p].step = "commit" => rowLock[r] = p /\ frame[p].rows = OfIntent(r)
      BY <1>0, <1>2 DEF FrameHolds
    <2>2. r \in Charged' /\ r \in Registrations
      BY StaysCharged DEF Charged
    <2>3. ASSUME frame[p].step = "commit"
          PROVE  rowLock'[r] = p /\ OfIntent(r)' = OfIntent(r)
      <3>1. rowLock[r] = p /\ rowLock'[r] = p
        BY <2>1, <2>2, <2>3 DEF LockEffect, RowLockMoves
      <3>2. CASE NoneRecorded
        BY <2>2, <3>1, <3>2, TableKept
      <3>3. ASSUME NEW q \in Procs, NEW s \in Registrations, NEW i \in PaymentIds,
                   Recorded(q, s, i)
            PROVE  OfIntent(r)' = OfIntent(r)
        <4>1. rowLock[s] = q /\ frame'[q] = Idle
          BY <3>3 DEF Recorded
        <4>2. s # r
          BY <3>1, <4>1
        <4>3. QED
          BY <1>0, <2>2, <3>3, <4>2, TableGrown
      <3>4. QED
        BY <3>1, <3>2, <3>3 DEF PayEffect
    <2>4. QED
      BY <2>1, <2>2, <2>3
  <1>3. ASSUME frame[p].op = "accept", NEW r \in frame[p].who
        PROVE  HasDeposit(r)' /\ Held(r)' \subseteq frame[p].rows
    <2>1. r \in Registrations /\ HasDeposit(r) /\ Held(r) \subseteq frame[p].rows
      BY <1>0, <1>3 DEF TypeOK, Frame, FrameHolds
    <2>2. QED
      BY <1>0, <2>1, DepositStays
  <1>4. QED
    BY <1>1, <1>2, <1>3 DEF FrameHolds

(* A refunding process needs no more than payments that exist. *)
LEMMA NarrowedHolds ==
  ASSUME FramesHold, PaymentsStay, NEW p \in Procs, Narrowed(p)
  PROVE  frame'[p] # Idle => FrameHolds(p)'
  BY DEF FramesHold, FrameHolds, PaymentsStay, Narrowed

FramesMove ==
  /\ frame' \in Frames
  /\ \A q \in Procs : \/ frame'[q] = frame[q]
                      \/ frame'[q] = Idle
                      \/ FrameHolds(q)'

LEMMA FramesAtRest ==
  ASSUME TypeOK, UNCHANGED frame PROVE FramesMove
  BY DEF TypeOK, Frames, FramesMove

LEMMA FrameLeft ==
  ASSUME TypeOK, NEW p \in Procs, Leave(p) PROVE FramesMove
  BY LeftFrame DEF FramesMove

LEMMA PaidEnters ==
  ASSUME TypeOK, NEW p \in Procs, NEW r \in Charged, NEW op \in {"return", "webhook"},
         Enter(p, op, "lock", {r}, {}), UNCHANGED charge
  PROVE  FramesMove
  <1> DEFINE who == {r}
             rows == {}
  <1>1. /\ who \in SUBSET Registrations /\ rows \in SUBSET PaymentIds /\ r \in Charged'
        /\ op \in Ops /\ "lock" \in Steps
        /\ Enter(p, op, "lock", who, rows)
    BY DEF Charged, Ops, Steps
  <1> HIDE DEF who, rows
  <1>2. /\ frame' \in Frames /\ frame'[p].op = op /\ frame'[p].step = "lock"
        /\ frame'[p].who = who /\ frame'[p].rows = rows
        /\ \A q \in Procs : q # p => frame'[q] = frame[q]
    BY <1>1, EnteredFrame
  <1>3. FrameHolds(p)'
    BY <1>1, <1>2 DEF FrameHolds, who, rows
  <1>4. QED
    BY <1>2, <1>3 DEF FramesMove

LEMMA FinalizerLocks ==
  ASSUME TypeOK, FramesHold, NEW p \in Procs, FinalizeLock(p)
  PROVE  FramesMove
  <1>1. PICK r \in Registrations :
          /\ frame[p] # Idle /\ frame[p].op \in {"return", "webhook"} /\ frame[p].who = {r}
          /\ \/ Leave(p)
             \/ rowLock' = [rowLock EXCEPT ![r] = p] /\ Move(p, "commit", OfIntent(r))
    BY DEF FinalizeLock, At
  <1>2. ASSUME rowLock' = [rowLock EXCEPT ![r] = p], Move(p, "commit", OfIntent(r))
        PROVE  FramesMove
    <2>1. OfIntent(r) \in SUBSET PaymentIds
      BY DEF OfIntent, Payments
    <2>2. /\ frame' \in Frames
          /\ frame'[p].op = frame[p].op /\ frame'[p].who = frame[p].who
          /\ frame'[p].step = "commit" /\ frame'[p].rows = OfIntent(r)
          /\ \A q \in Procs : q # p => frame'[q] = frame[q]
      BY <1>1, <1>2, <2>1, MovedFrame
    <2>3. UNCHANGED <<pay, charge>>
      BY DEF FinalizeLock, stripe
    <2>4. /\ OfIntent(r)' = OfIntent(r) /\ OfIntent(r) \subseteq Payments'
          /\ Charged' = Charged
      BY <2>3 DEF OfIntent, Payments, Charged
    <2>5. r \in Charged
      <3>1. \E q \in Charged : frame[p].who = {q}
        BY <1>1 DEF FramesHold, FrameHolds
      <3>2. QED
        BY <1>1, <3>1
    <2>6. rowLock'[r] = p
      BY <1>2 DEF TypeOK
    <2>7. FrameHolds(p)'
      BY <1>1, <2>2, <2>4, <2>5, <2>6 DEF FrameHolds
    <2>8. QED
      BY <2>2, <2>7 DEF FramesMove
  <1>3. QED
    BY <1>1, <1>2, FrameLeft

LEMMA AcceptorLooks ==
  ASSUME TypeOK, OnePaymentPerIntent, VerifiedHavePaid,
         NEW p \in Procs, NEW m \in Pairs, AcceptRead(p, m)
  PROVE  FramesMove
  <1> DEFINE who == {m[1], m[2]}
             rows == Newest(Held(m[1])) \cup Newest(Held(m[2]))
  <1>1. who \in SUBSET Registrations /\ "accept" \in Ops /\ "commit" \in Steps
    BY PartiesOf DEF Ops, Steps
  <1>2. \A r \in who : Newest(Held(r)) = Held(r) /\ Held(r) \subseteq rows /\ HasDeposit(r)
    <2>1. \A r \in who : Held(r) \in SUBSET OfIntent(r)
      BY DEF Held
    <2>2. \A r \in who : Newest(Held(r)) = Held(r)
      BY <1>1, <2>1, NewestIsAll
    <2>3. match[m] # "none"
      BY DEF AcceptRead
    <2>4. QED
      BY <2>2, <2>3 DEF VerifiedHavePaid
  <1>3. rows \subseteq Payments /\ rows \in SUBSET PaymentIds
    BY DEF Newest, Held, OfIntent, Payments
  <1>4. Enter(p, "accept", "commit", who, rows) /\ UNCHANGED pay
    BY DEF AcceptRead
  <1> HIDE DEF who, rows
  <1>5. /\ frame' \in Frames /\ frame'[p].op = "accept"
        /\ frame'[p].who = who /\ frame'[p].rows = rows
        /\ \A q \in Procs : q # p => frame'[q] = frame[q]
    BY <1>1, <1>3, <1>4, EnteredFrame
  <1>6. Payments' = Payments /\ \A r \in who : HasDeposit(r)' = HasDeposit(r) /\ Held(r)' = Held(r)
    BY <1>4 DEF Payments, HasDeposit, Held, OfIntent
  <1>7. FrameHolds(p)'
    BY <1>2, <1>3, <1>5, <1>6 DEF FrameHolds
  <1>8. QED
    BY <1>5, <1>7 DEF FramesMove

(* A list of payments to refund. *)
LEMMA RefunderEnters ==
  ASSUME TypeOK, NEW p \in Procs, NEW op \in {"season", "delete"},
         NEW step \in {"next", "delete"}, NEW who \in SUBSET Registrations,
         NEW rows \in SUBSET Payments, Enter(p, op, step, who, rows), UNCHANGED pay
  PROVE  FramesMove
  <1>1. /\ rows \in SUBSET PaymentIds /\ Payments' = Payments
        /\ op \in Ops /\ step \in Steps
    BY DEF Payments, Ops, Steps
  <1>2. /\ frame' \in Frames /\ frame'[p].op = op /\ frame'[p].rows = rows
        /\ \A q \in Procs : q # p => frame'[q] = frame[q]
    BY <1>1, EnteredFrame
  <1>3. FrameHolds(p)'
    BY <1>1, <1>2 DEF FrameHolds
  <1>4. QED
    BY <1>2, <1>3 DEF FramesMove

LEMMA FrameStep ==
  ASSUME DInv, [Next]_vars PROVE FramesMove
  <1>0. /\ TypeOK /\ OnePaymentPerIntent /\ AnnouncedIsTrue /\ VerifiedHavePaid /\ FramesHold
        /\ PaymentsStay
    BY PayStep, PaymentsDoStay DEF DInv
  <1>1. ASSUME NEW p \in Procs, NEW r \in Registrations, ReturnView(p, r) PROVE FramesMove
    <2>1. r \in Charged /\ Enter(p, "return", "lock", {r}, {}) /\ UNCHANGED charge
      BY <1>1 DEF ReturnView, Verified, Charged, stripe
    <2>2. QED
      BY <1>0, <2>1, PaidEnters
  <1>2. ASSUME NEW p \in Procs, NEW r \in Registrations, WebhookCompleted(p, r) PROVE FramesMove
    <2>1. <<"completed", r>> \in event /\ Enter(p, "webhook", "lock", {r}, {}) /\ UNCHANGED charge
      BY <1>2 DEF WebhookCompleted, stripe
    <2>2. r \in Charged
      BY <1>0, <2>1 DEF AnnouncedIsTrue
    <2>3. QED
      BY <1>0, <2>1, <2>2, PaidEnters
  <1>3. ASSUME NEW p \in Procs, FinalizeLock(p) PROVE FramesMove
    BY <1>0, <1>3, FinalizerLocks
  <1>4. ASSUME NEW p \in Procs, FinalizeCommit(p) \/ AcceptCommit(p) \/ DeleteCommit(p) \/ Crash(p)
        PROVE  FramesMove
    <2>1. Leave(p)
      BY <1>4 DEF FinalizeCommit, AcceptCommit, DeleteCommit, Crash
    <2>2. QED
      BY <1>0, <2>1, FrameLeft
  <1>5. ASSUME NEW p \in Procs, NEW m \in Pairs, AcceptRead(p, m) PROVE FramesMove
    BY <1>0, <1>5, AcceptorLooks
  <1>6. ASSUME NEW p \in Procs, CloseSeason(p) PROVE FramesMove
    <2>1. Enter(p, "season", "next", {}, SeasonCandidates) /\ UNCHANGED pay
      BY <1>6 DEF CloseSeason
    <2>2. SeasonCandidates \in SUBSET Payments /\ {} \in SUBSET Registrations
      BY DEF SeasonCandidates
    <2>3. QED
      BY <1>0, <2>1, <2>2, RefunderEnters
  <1>7. ASSUME NEW p \in Procs, NEW r \in Registrations, DeleteFetch(p, r) PROVE FramesMove
    <2> DEFINE rows == Newest(Held(r))
               who == {r}
    <2>1. PICK step \in {"next", "delete"} : Enter(p, "delete", step, who, rows)
      BY <1>7 DEF DeleteFetch
    <2>2. UNCHANGED pay
      BY <1>7 DEF DeleteFetch
    <2>3. rows \in SUBSET Payments /\ who \in SUBSET Registrations
      BY DEF Newest, Held, OfIntent
    <2> HIDE DEF rows, who
    <2>4. QED
      BY <1>0, <2>1, <2>2, <2>3, RefunderEnters
  <1>8. ASSUME NEW p \in Procs, SeasonNext(p) \/ DeleteRefund(p) \/ RefundCommit(p)
        PROVE  FramesMove
    <2>1. Narrowed(p)
      BY <1>0, <1>8, RefundCases, RefundCommitNarrows
    <2>2. frame'[p] = Idle \/ FrameHolds(p)'
      BY <1>0, <2>1, NarrowedHolds
    <2>3. QED
      BY <2>1, <2>2 DEF FramesMove, Narrowed, Alone
  <1>9. ASSUME NEW r \in Registrations,
               \/ ConfirmFree(r) \/ StartCheckout(r) \/ Pay(r) \/ StaffPartial(r) \/ StaffRefund(r)
               \/ WebhookUnknown(r) \/ WebhookPartial(r) \/ WebhookRefunded(r)
        PROVE  FramesMove
    <2>1. UNCHANGED frame
      BY <1>9 DEF ConfirmFree, StartCheckout, Pay, StaffPartial, StaffRefund, WebhookUnknown,
        WebhookPartial, WebhookRefunded
    <2>2. QED
      BY <1>0, <2>1, FramesAtRest
  <1>10. ASSUME NEW m \in Pairs,
                \/ Propose(m) \/ EndOpen(m)
                \/ \E accused \in Registrations : ReportNoShow(m, accused)
         PROVE  FramesMove
    <2>1. UNCHANGED frame
      BY <1>10 DEF Propose, EndOpen, ReportNoShow
    <2>2. QED
      BY <1>0, <2>1, FramesAtRest
  <1>11. CASE UNCHANGED vars
    BY <1>0, <1>11, FramesAtRest DEF vars
  <1>12. QED
    BY <1>1, <1>2, <1>3, <1>4, <1>5, <1>6, <1>7, <1>8, <1>9, <1>10, <1>11
       DEF Next, Webhook, Proceed

LEMMA StaysLookedUp ==
  ASSUME DInv, PayEffect, StripeEffect, LockEffect, FramesMove PROVE FramesHold'
  <1> SUFFICES ASSUME NEW p \in Procs, frame'[p] # Idle PROVE FrameHolds(p)'
    BY DEF FramesHold
  <1>1. frame'[p] = frame[p] \/ FrameHolds(p)'
    BY DEF FramesMove
  <1>2. QED
    BY <1>1, FrameKept

LEMMA CrashesBounded ==
  ASSUME TypeOK, [Next]_vars PROVE crashes' \in 0..MaxCrashes
  <1>0. crashes \in 0..MaxCrashes /\ MaxCrashes \in Nat
    BY BoundsAssumption DEF TypeOK
  <1>1. ASSUME NEW p \in Procs, Crash(p) PROVE crashes' \in 0..MaxCrashes
    BY <1>0, <1>1 DEF Crash
  <1>2. ASSUME NEW r \in Registrations,
               \/ ConfirmFree(r) \/ StartCheckout(r) \/ Pay(r) \/ StaffPartial(r) \/ StaffRefund(r)
               \/ WebhookUnknown(r) \/ WebhookPartial(r) \/ WebhookRefunded(r)
               \/ \E p \in Procs : WebhookCompleted(p, r) \/ ReturnView(p, r) \/ DeleteFetch(p, r)
        PROVE  crashes' = crashes
    BY <1>2 DEF ConfirmFree, StartCheckout, Pay, StaffPartial, StaffRefund, WebhookUnknown,
        WebhookPartial, WebhookRefunded,
                WebhookCompleted, ReturnView, DeleteFetch
  <1>3. ASSUME NEW m \in Pairs,
               \/ Propose(m) \/ EndOpen(m) \/ \E p \in Procs : AcceptRead(p, m)
               \/ \E accused \in Registrations : ReportNoShow(m, accused)
        PROVE  crashes' = crashes
    BY <1>3 DEF Propose, EndOpen, AcceptRead, ReportNoShow
  <1>4. ASSUME NEW p \in Procs, CloseSeason(p) \/ Proceed(p) PROVE crashes' = crashes
    BY <1>4 DEF CloseSeason, Proceed, FinalizeLock, FinalizeCommit, AcceptCommit, SeasonNext,
                DeleteRefund, RefundCommit, DeleteCommit
  <1>5. CASE UNCHANGED vars
    BY <1>0, <1>5 DEF vars
  <1>6. QED
    BY <1>0, <1>1, <1>2, <1>3, <1>4, <1>5 DEF Next, Webhook

-----------------------------------------------------------------------------
(* The invariant is inductive *)

LEMMA DInvInit == ASSUME Init PROVE DInv
  <1>1. Payments = {} /\ \A r \in Registrations : Held(r) = {}
    BY DEF Init, Payments, OfIntent, Held
  <1>2. TypeOK
    BY BoundsAssumption DEF Init, TypeOK, RegistrationStatus, Charge
  <1>3. AnnouncedIsTrue /\ RefundIsKnown /\ OnePaymentPerIntent
    BY <1>1 DEF Init, AnnouncedIsTrue, RefundIsKnown, OnePaymentPerIntent
  <1>4. LockedIsRefunded /\ VerifiedHavePaid /\ FramesHold /\ AcceptedIsSettled
    BY DEF Init, LockedIsRefunded, VerifiedHavePaid, FramesHold, AcceptedIsSettled
  <1>5. QED
    BY <1>2, <1>3, <1>4 DEF DInv

LEMMA DInvNext == ASSUME DInv, [Next]_vars PROVE DInv'
  <1>1. /\ TypeOK /\ OnePaymentPerIntent /\ AnnouncedIsTrue /\ RefundIsKnown /\ LockedIsRefunded
        /\ VerifiedHavePaid /\ FramesHold /\ AcceptedIsSettled
    BY DEF DInv
  <1>2. PayEffect /\ StripeEffect /\ LockEffect /\ MatchEffect /\ FramesMove
    BY PayStep, StripeStep, LockStep, MatchStep, FrameStep
  <1>3. pay' \in PayTables
    BY <1>1, <1>2, TableKept, TableGrown DEF PayEffect
  <1>4. crashes' \in 0..MaxCrashes
    BY <1>1, CrashesBounded
  <1>5. TypeOK'
    BY <1>2, <1>3, <1>4
       DEF TypeOK, PayTables, Frames, StripeEffect, LockEffect, MatchEffect, FramesMove
  <1>6. OnePaymentPerIntent'
    BY <1>1, <1>2, StaysOnePayment
  <1>7. AnnouncedIsTrue' /\ RefundIsKnown'
    BY <1>1, <1>2, StaysAnnounced, StaysKnown
  <1>8. LockedIsRefunded'
    BY <1>1, <1>2, StaysLocked
  <1>9. VerifiedHavePaid' /\ AcceptedIsSettled'
    BY <1>1, <1>2, StaysVerified, StaysSettled
  <1>10. FramesHold'
    BY <1>2, StaysLookedUp
  <1>11. QED
    BY <1>5, <1>6, <1>7, <1>8, <1>9, <1>10 DEF DInv

(* Every reachable state satisfies the inductive invariant. *)
THEOREM DepositsInductive == Spec => []DInv
  <1>1. Init => DInv
    BY DInvInit
  <1>2. DInv /\ [Next]_vars => DInv'
    BY DInvNext
  <1>3. QED
    BY <1>1, <1>2, PTL DEF Spec

-----------------------------------------------------------------------------
(* The variables keep their types: registrations, the payment table, the row
   locks and what each worker of billing/services has looked up. *)
THEOREM DepositTypes == Spec => []TypeOK
  <1>1. DInv => TypeOK
    BY DEF DInv
  <1>2. QED
    BY <1>1, DepositsInductive, PTL

(* finalize_paid_registration records one payment for one payment intent,
   however often the return view and the webhook run, in any interleaving and
   with any number of crashes. *)
THEOREM OneIntentOnePayment == Spec => []OnePaymentPerIntent
  <1>1. DInv => OnePaymentPerIntent
    BY DEF DInv
  <1>2. QED
    BY <1>1, DepositsInductive, PTL

(* LedgerAgrees: REFUNDED in the table means that Stripe returned all of the
   money; and money returned in full is REFUNDED in the table, or its event is
   still to come, or came before record_payment_refunded could find the row.  A
   partial refund, which handle_charge_refunded leaves alone, changes neither. *)
THEOREM LedgerIsTrue == Spec => []LedgerAgrees
  <1>1. DInv => LedgerAgrees
    <2> SUFFICES ASSUME DInv, NEW i \in Payments
                 PROVE  /\ pay[i].status = "REFUNDED" => charge[pay[i].intent] = "refunded"
                        /\ charge[pay[i].intent] = "refunded" /\ pay[i].status # "REFUNDED" =>
                             \/ <<"refunded", pay[i].intent>> \in event
                             \/ pay[i].intent \in early
      BY DEF LedgerAgrees
    <2>1. /\ pay[i].intent \in Registrations
          /\ pay[i].status = "REFUNDED" => charge[pay[i].intent] = "refunded"
      BY DEF DInv, AnnouncedIsTrue, Charged
    <2>2. i \in OfIntent(pay[i].intent)
      BY DEF OfIntent
    <2>3. QED
      BY <2>1, <2>2 DEF DInv, RefundIsKnown
  <1>2. QED
    BY <1>1, DepositsInductive, PTL

(* record_acceptance leaves neither party a HELD deposit, and nothing makes
   one HELD again: close_season and delete_account find none to refund. *)
THEOREM AcceptedSettled == Spec => []AcceptedIsSettled
  <1>1. DInv => AcceptedIsSettled
    BY DEF DInv
  <1>2. QED
    BY <1>1, DepositsInductive, PTL

(* capture, forfeit and refund settle a deposit once: afterwards its status
   changes only to REFUNDED, and only when Stripe has made the refund. *)
THEOREM SettlesOnce == Spec => SettledOnce
  <1> DEFINE Settles ==
        \A i \in Payments :
          pay[i].status # "HELD" /\ pay'[i].status # pay[i].status =>
            pay'[i].status = "REFUNDED" /\ charge[pay[i].intent] = "refunded"
  <1>1. ASSUME DInv, [Next]_vars PROVE Settles
    <2>1. TypeOK /\ PayEffect
      BY <1>1, PayStep DEF DInv
    <2>2. CASE NoneRecorded
      BY <2>2, TableKept DEF Kept
    <2>3. ASSUME NEW p \in Procs, NEW r \in Registrations, NEW i \in PaymentIds,
                 Recorded(p, r, i)
          PROVE  Settles
      BY <2>1, <2>3, TableGrown
    <2>4. QED
      BY <2>1, <2>2, <2>3 DEF PayEffect
  <1>2. DInv /\ [Next]_vars => [Settles]_vars
    BY <1>1
  <1> HIDE DEF Settles
  <1>3. Spec => [][Settles]_vars
    BY <1>2, DepositsInductive, PTL DEF Spec
  <1>4. QED
    BY <1>3 DEF Settles, SettledOnce

=============================================================================
