------------------------------ MODULE TipsProofs ------------------------------
(***************************************************************************)
(* Theorems about Tips, for any registrations, payment intents, tips and   *)
(* processes.                                                              *)
(***************************************************************************)
EXTENDS Tips, TLAPS

Charged == {"paid", "partly", "refunded"}

(* A tip is a payment that Stripe has taken, of a known giver; it is linked
   exactly as long as the giver has a registration; and it is REFUNDED only if
   Stripe has returned the money. *)
TipHolds(t) ==
  LET i == tip[t].intent
  IN  /\ charge[i] \in Charged
      /\ by[i] \in Registrations
      /\ tip[t].linked <=> by[i] \in registered
      /\ tip[t].status = "REFUNDED" => charge[i] = "refunded"

(* What a process holds in memory: a payment that was taken; or tips of the
   registration it is about to delete. *)
FrameHolds(f) ==
  /\ f \in Recording => charge[f.intent] \in Charged
  /\ f \in Deletion => \A t \in f.rows : t \in Tips /\ by[tip[t].intent] = f.who

(* What Stripe knows and still has to say of a payment intent. *)
IntentHolds(i) ==
  /\ charge[i] # "none" => by[i] \in Registrations
  /\ <<"completed", i>> \in event => charge[i] \in Charged
  /\ <<"refunded", i>> \in event => charge[i] = "refunded"
  /\ charge[i] \in {"paid", "partly"} /\ <<"completed", i>> \notin event =>
       by[i] \notin registered \/ OfIntent(i) # {}
  /\ charge[i] = "refunded" /\ OfIntent(i) = {} =>
       <<"refunded", i>> \in event \/ i \in early

OneEach == \A t, u \in Tips : tip[t].intent = tip[u].intent => t = u

RefundIsComing ==
  \A t \in Tips :
    charge[tip[t].intent] = "refunded" /\ tip[t].status # "REFUNDED" =>
      <<"refunded", tip[t].intent>> \in event \/ tip[t].intent \in early

(* The inductive invariant. *)
TInv ==
  /\ TypeOK
  /\ OneEach
  /\ RefundIsComing
  /\ \A t \in Tips : TipHolds(t)
  /\ \A p \in Procs : FrameHolds(frame[p])
  /\ \A i \in Intents : IntentHolds(i)

-----------------------------------------------------------------------------
(* Types *)

LEMMA FrameKinds ==
  /\ Recording \cap Deletion = {}
  /\ Idle \notin Recording /\ Idle \notin Deletion
  BY NullsAssumption DEF Recording, Deletion

LEMMA RowIsNotNone == None \notin TipRow /\ None \notin Registrations
  BY NullsAssumption

(* What the small steps of a frame write. *)
LEMMA EnterType ==
  ASSUME TypeOK, NEW p \in Procs, NEW i \in Intents,
         NEW op \in {"return", "webhook"}, Enter(p, op, i)
  PROVE  /\ frame' = [frame EXCEPT ![p] = [op |-> op, step |-> "check", intent |-> i]]
         /\ [op |-> op, step |-> "check", intent |-> i] \in Recording
         /\ frame' \in [Procs -> Recording \cup Deletion \cup {Idle}]
  BY DEF TypeOK, Enter, Recording

LEMMA MoveType ==
  ASSUME TypeOK, NEW p \in Procs, frame[p] \in Recording,
         NEW step \in {"insert", "refetch"}, Move(p, step)
  PROVE  /\ frame' \in [Procs -> Recording \cup Deletion \cup {Idle}]
         /\ frame'[p] \in Recording /\ frame'[p].intent = frame[p].intent
         /\ \A q \in Procs : q # p => frame'[q] = frame[q]
  <1>1. [frame[p] EXCEPT !.step = step] \in Recording
    BY DEF Recording
  <1>2. [frame[p] EXCEPT !.step = step].intent = frame[p].intent
    BY DEF Recording
  <1>3. frame' = [frame EXCEPT ![p] = [frame[p] EXCEPT !.step = step]]
    BY DEF Move
  <1>4. QED
    BY <1>1, <1>2, <1>3 DEF TypeOK

LEMMA LeaveType ==
  ASSUME TypeOK, NEW p \in Procs, Leave(p)
  PROVE  /\ frame' \in [Procs -> Recording \cup Deletion \cup {Idle}]
         /\ frame'[p] = Idle
         /\ \A q \in Procs : q # p => frame'[q] = frame[q]
  BY DEF TypeOK, Leave

LEMMA AnswerType ==
  ASSUME TypeOK, NEW p \in Procs, frame[p] \in Recording, Answer(p)
  PROVE  /\ Leave(p)
         /\ event' \in SUBSET Event
         /\ event' \in {event, event \ {<<"completed", frame[p].intent>>}}
  BY DEF TypeOK, Answer, Acknowledge

LEMMA AtType ==
  ASSUME NEW p, NEW step, At(p, step)
  PROVE  frame[p] \in Recording /\ frame[p].intent \in Intents
  BY DEF At, Recording

(* What an insertion writes: the first free row. *)
Inserts(i) ==
  \E t \in TipIds \ Tips :
    tip' = [tip EXCEPT ![t] = [intent |-> i, linked |-> TRUE, status |-> "PAID"]]

LEMMA InsertEffect ==
  ASSUME TypeOK, NEW p \in Procs, Insert(p)
  PROVE  LET i == frame[p].intent
         IN  /\ frame[p] \in Recording /\ i \in Intents
             /\ UNCHANGED <<registered, enabled, crashes, by, charge, early>>
             /\ \/ Move(p, "refetch") /\ UNCHANGED <<tip, event>>
                \/ OfIntent(i) = {} /\ by[i] \in registered /\ Inserts(i) /\ Answer(p)
  BY AtType DEF Insert, Duplicate, Inserts

LEMMA TypeInit ==
  ASSUME Init PROVE TypeOK
  BY BoundsAssumption DEF Init, TypeOK, Charge

LEMMA TypeStep ==
  ASSUME TInv, [Next]_vars PROVE TypeOK'
  <1> USE DEF TInv, TypeOK
  <1>1. ASSUME NEW i \in Intents,
               \/ \E r \in Registrations : TipStart(r, i)
               \/ Pay(i) \/ StaffPartial(i) \/ StaffRefund(i)
               \/ WebhookUnknown(i) \/ WebhookPartial(i)
        PROVE  TypeOK'
    BY <1>1 DEF TipStart, CreateSession, Pay, StaffPartial, StaffRefund, WebhookUnknown,
      WebhookPartial, Acknowledge, Charge, Event
  <1>2. ASSUME NEW i \in Intents, WebhookRefunded(i) PROVE TypeOK'
    <2>1. Refund(Newest(OfIntent(i))) \in [TipIds -> TipRow \cup {None}]
      <3> SUFFICES ASSUME NEW t \in TipIds, t \in Newest(OfIntent(i))
                   PROVE  [tip[t] EXCEPT !.status = "REFUNDED"] \in TipRow
        BY DEF Refund
      <3>1. tip[t] \in TipRow
        BY DEF Newest, OfIntent, Tips
      <3>2. QED
        BY <3>1 DEF TipRow, TipStatus
    <2>2. QED
      BY <1>2, <2>1 DEF WebhookRefunded, Acknowledge
  <1>3. ASSUME NEW i \in Intents, NEW p \in Procs,
               TipReturn(p, i) \/ WebhookCompleted(p, i)
        PROVE  TypeOK'
    BY <1>3, EnterType DEF TipReturn, WebhookCompleted, stripe
  <1>4. ASSUME NEW p \in Procs, Check(p) \/ Refetch(p) PROVE TypeOK'
    <2>1. frame[p] \in Recording
      BY <1>4, AtType DEF Check, Refetch
    <2>2. CASE Answer(p)
      BY <1>4, <2>1, <2>2, AnswerType, LeaveType DEF Check, Refetch
    <2>3. CASE ~Answer(p)
      BY <1>4, <2>1, <2>3, MoveType, LeaveType DEF Check, Refetch
    <2>4. QED
      BY <2>2, <2>3
  <1>5. ASSUME NEW p \in Procs, Insert(p) PROVE TypeOK'
    <2>1. CASE Move(p, "refetch") /\ UNCHANGED <<tip, event>>
      BY <1>5, <2>1, InsertEffect, MoveType
    <2>2. CASE Inserts(frame[p].intent) /\ Answer(p)
      <3>1. frame[p] \in Recording /\ frame[p].intent \in Intents
        BY <1>5, InsertEffect
      <3>2. tip' \in [TipIds -> TipRow \cup {None}]
        BY <2>2, <3>1 DEF Inserts, TipRow, TipStatus
      <3>3. QED
        BY <1>5, <2>2, <3>1, <3>2, InsertEffect, AnswerType, LeaveType
    <2>3. QED
      BY <1>5, <2>1, <2>2, InsertEffect
  <1>6. ASSUME NEW p \in Procs, DeleteCommit(p) PROVE TypeOK'
    <2>1. CASE tip' = tip
      BY <1>6, <2>1, LeaveType DEF DeleteCommit, stripe
    <2>2. CASE tip' = Unlink(frame[p].rows)
      <3>1. \A t \in frame[p].rows : tip[t] \in TipRow
        BY <1>6 DEF DeleteCommit, FrameHolds, Tips
      <3>2. \A t \in frame[p].rows : [tip[t] EXCEPT !.linked = FALSE] \in TipRow
        BY <3>1 DEF TipRow
      <3>3. tip' \in [TipIds -> TipRow \cup {None}]
        BY <2>2, <3>2 DEF Unlink
      <3>4. QED
        BY <1>6, <3>3, LeaveType DEF DeleteCommit, stripe
    <2>3. QED
      BY <1>6, <2>1, <2>2 DEF DeleteCommit
  <1>7. ASSUME NEW p \in Procs, Crash(p) PROVE TypeOK'
    BY <1>7, LeaveType, BoundsAssumption DEF Crash, stripe
  <1>8. ASSUME NEW p \in Procs, NEW r \in Registrations, DeleteUnlink(p, r) PROVE TypeOK'
    BY <1>8 DEF DeleteUnlink, stripe, Deletion, LinkedTo, Tips
  <1>9. CASE Deploy \/ UNCHANGED vars
    BY <1>9 DEF Deploy, vars, stripe
  <1>10. QED
    BY <1>1, <1>2, <1>3, <1>4, <1>5, <1>6, <1>7, <1>8, <1>9 DEF Next, Proceed

-----------------------------------------------------------------------------
(* What no step takes back *)

(* Stripe's record of an intent, the registrations and the tips only move one
   way: an intent that was used stays its giver's, money taken stays taken,
   money returned stays returned, a deleted registration never comes back, and
   a tip is neither deleted nor given to another payment. *)
Onwards ==
  /\ registered' \subseteq registered
  /\ early \subseteq early'
  /\ \A i \in Intents :
       /\ charge[i] # "none" => by'[i] = by[i] /\ charge'[i] # "none"
       /\ charge[i] \in Charged => charge'[i] \in Charged
       /\ charge[i] = "refunded" => charge'[i] = "refunded"
  /\ \A t \in Tips :
       /\ tip'[t] # None /\ tip'[t].intent = tip[t].intent
       /\ tip[t].status = "REFUNDED" => tip'[t].status = "REFUNDED"

(* What an update of some rows leaves as it was. *)
LEMMA RowUpdates ==
  ASSUME TypeOK, NEW rows \in SUBSET Tips
  PROVE  \A t \in Tips :
           /\ tip[t] \in TipRow
           /\ Refund(rows)[t] \in TipRow /\ Unlink(rows)[t] \in TipRow
           /\ Refund(rows)[t].intent = tip[t].intent
           /\ Refund(rows)[t].linked = tip[t].linked
           /\ Refund(rows)[t].status = IF t \in rows THEN "REFUNDED" ELSE tip[t].status
           /\ Unlink(rows)[t].intent = tip[t].intent
           /\ Unlink(rows)[t].linked = (tip[t].linked /\ t \notin rows)
           /\ Unlink(rows)[t].status = tip[t].status
  <1> SUFFICES ASSUME NEW t \in Tips
               PROVE  /\ tip[t] \in TipRow
                      /\ Refund(rows)[t] \in TipRow /\ Unlink(rows)[t] \in TipRow
                      /\ Refund(rows)[t].intent = tip[t].intent
                      /\ Refund(rows)[t].linked = tip[t].linked
                      /\ Refund(rows)[t].status =
                           IF t \in rows THEN "REFUNDED" ELSE tip[t].status
                      /\ Unlink(rows)[t].intent = tip[t].intent
                      /\ Unlink(rows)[t].linked = (tip[t].linked /\ t \notin rows)
                      /\ Unlink(rows)[t].status = tip[t].status
    OBVIOUS
  <1>1. t \in TipIds /\ tip[t] \in TipRow
    BY DEF TypeOK, Tips
  <1>2. PICK row \in TipRow : row = tip[t]
    BY <1>1
  <1>3. Refund(rows)[t] = IF t \in rows THEN [row EXCEPT !.status = "REFUNDED"] ELSE row
    BY <1>1, <1>2 DEF Refund
  <1>4. Unlink(rows)[t] = IF t \in rows THEN [row EXCEPT !.linked = FALSE] ELSE row
    BY <1>1, <1>2 DEF Unlink
  <1>5. CASE t \in rows
    BY <1>2, <1>3, <1>4, <1>5 DEF TipRow, TipStatus
  <1>6. CASE t \notin rows
    BY <1>2, <1>3, <1>4, <1>6 DEF TipRow, TipStatus
  <1>7. QED
    BY <1>5, <1>6

LEMMA InsertKeeps ==
  ASSUME TypeOK, NEW i \in Intents, Inserts(i)
  PROVE  \E n \in TipIds \ Tips :
           /\ tip'[n] = [intent |-> i, linked |-> TRUE, status |-> "PAID"]
           /\ tip'[n] # None
           /\ \A t \in TipIds : t # n => tip'[t] = tip[t]
           /\ Tips' = Tips \cup {n}
  <1>1. PICK n \in TipIds \ Tips :
          tip' = [tip EXCEPT ![n] = [intent |-> i, linked |-> TRUE, status |-> "PAID"]]
    BY DEF Inserts
  <1>2. [intent |-> i, linked |-> TRUE, status |-> "PAID"] \in TipRow
    BY DEF TipRow, TipStatus
  <1>3. /\ tip'[n] = [intent |-> i, linked |-> TRUE, status |-> "PAID"]
        /\ \A t \in TipIds : t # n => tip'[t] = tip[t]
    BY <1>1 DEF TypeOK
  <1>4. QED
    BY <1>2, <1>3, RowIsNotNone DEF Tips

LEMMA GoesOnwards ==
  ASSUME TInv, [Next]_vars PROVE Onwards
  <1> USE DEF TInv, TypeOK
  <1>1. ASSUME UNCHANGED <<registered, tip, early>>, UNCHANGED <<by, charge>>
        PROVE  Onwards
    BY <1>1 DEF Onwards, Tips
  <1>2. ASSUME NEW i \in Intents,
               \/ \E r \in Registrations : TipStart(r, i)
               \/ Pay(i) \/ StaffPartial(i) \/ StaffRefund(i)
        PROVE  Onwards
    <2>1. UNCHANGED <<registered, tip, early>>
      BY <1>2 DEF TipStart, Pay, StaffPartial, StaffRefund
    <2>2. CASE \E r \in Registrations : TipStart(r, i)
      <3>1. charge[i] = "none" /\ charge' = [charge EXCEPT ![i] = "session"]
        BY <2>2 DEF TipStart, CreateSession
      <3>2. \A j \in Intents : j # i => by'[j] = by[j]
        BY <2>2 DEF TipStart, CreateSession
      <3>3. QED
        BY <2>1, <3>1, <3>2 DEF Onwards, Tips, Charged
    <2>3. CASE Pay(i)
      BY <2>1, <2>3 DEF Pay, Onwards, Tips, Charged
    <2>4. CASE StaffPartial(i)
      BY <2>1, <2>4 DEF StaffPartial, Onwards, Tips, Charged
    <2>5. CASE StaffRefund(i)
      BY <2>1, <2>5 DEF StaffRefund, Onwards, Tips, Charged
    <2>6. QED
      BY <1>2, <2>2, <2>3, <2>4, <2>5
  <1>3. ASSUME NEW i \in Intents, WebhookRefunded(i) PROVE Onwards
    <2>1. Newest(OfIntent(i)) \in SUBSET Tips
      BY DEF Newest, OfIntent
    <2>2. \A t \in Tips : /\ tip'[t] \in TipRow /\ tip'[t].intent = tip[t].intent
                          /\ tip[t].status = "REFUNDED" => tip'[t].status = "REFUNDED"
      BY <1>3, <2>1, RowUpdates DEF WebhookRefunded
    <2>3. /\ UNCHANGED <<registered, by, charge>>
          /\ early \subseteq early'
      BY <1>3 DEF WebhookRefunded
    <2>4. QED
      BY <2>2, <2>3, RowIsNotNone DEF Onwards
  <1>4. ASSUME NEW p \in Procs, Insert(p) PROVE Onwards
    <2>1. CASE UNCHANGED <<tip, event>>
      BY <1>1, <1>4, <2>1, InsertEffect
    <2>2. CASE Inserts(frame[p].intent)
      BY <1>4, <2>2, InsertEffect, InsertKeeps DEF Onwards, Tips
    <2>3. QED
      BY <1>4, <2>1, <2>2, InsertEffect
  <1>5. ASSUME NEW p \in Procs, DeleteCommit(p) PROVE Onwards
    <2>1. CASE UNCHANGED <<registered, tip>>
      BY <1>1, <1>5, <2>1 DEF DeleteCommit, stripe
    <2>2. CASE registered' \subseteq registered /\ tip' = Unlink(frame[p].rows)
      <3>1. frame[p].rows \in SUBSET Tips
        BY <1>5 DEF DeleteCommit, FrameHolds
      <3>2. \A t \in Tips : /\ tip'[t] \in TipRow /\ tip'[t].intent = tip[t].intent
                            /\ tip'[t].status = tip[t].status
        BY <2>2, <3>1, RowUpdates
      <3>3. QED
        BY <1>5, <2>2, <3>2, RowIsNotNone DEF DeleteCommit, stripe, Onwards
    <2>3. QED
      BY <1>5, <2>1, <2>2 DEF DeleteCommit
  <1>6. ASSUME NEW p \in Procs,
               \/ Check(p) \/ Refetch(p) \/ Crash(p)
               \/ \E i \in Intents : TipReturn(p, i) \/ WebhookCompleted(p, i)
               \/ \E r \in Registrations : DeleteUnlink(p, r)
        PROVE  Onwards
    BY <1>1, <1>6 DEF Check, Refetch, Crash, TipReturn, WebhookCompleted, DeleteUnlink, stripe
  <1>7. CASE \/ Deploy \/ UNCHANGED vars
             \/ \E i \in Intents : WebhookUnknown(i) \/ WebhookPartial(i)
    BY <1>1, <1>7 DEF Deploy, WebhookUnknown, WebhookPartial, vars, stripe
  <1>8. QED
    BY <1>2, <1>3, <1>4, <1>5, <1>6, <1>7 DEF Next, Proceed

-----------------------------------------------------------------------------
(* Each conjunct is preserved *)

LEMMA OneEachStep ==
  ASSUME TInv, [Next]_vars PROVE OneEach'
  <1>1. Onwards
    BY GoesOnwards
  <1>2. ASSUME Tips' = Tips PROVE OneEach'
    BY <1>1, <1>2 DEF TInv, OneEach, Onwards
  <1>3. ASSUME NEW p \in Procs, Insert(p) PROVE OneEach'
    <2> DEFINE i == frame[p].intent
    <2>1. CASE tip' = tip
      BY <1>2, <2>1 DEF Tips
    <2>2. CASE OfIntent(i) = {} /\ Inserts(i)
      <3>1. PICK n \in TipIds \ Tips :
              /\ tip'[n] = [intent |-> i, linked |-> TRUE, status |-> "PAID"]
              /\ \A t \in TipIds : t # n => tip'[t] = tip[t]
              /\ Tips' = Tips \cup {n}
        BY <1>3, <2>2, InsertEffect, InsertKeeps DEF TInv
      <3>2. \A t \in Tips : tip[t].intent # i
        BY <2>2 DEF OfIntent
      <3>3. QED
        BY <3>1, <3>2 DEF TInv, OneEach, Tips
    <2>3. QED
      BY <1>3, <2>1, <2>2, InsertEffect DEF TInv
  <1>4. ASSUME NEW i \in Intents, WebhookRefunded(i) PROVE Tips' = Tips
    <2>1. \A t \in TipIds \ Tips : t \notin Newest(OfIntent(i))
      BY DEF Newest, OfIntent
    <2>2. \A t \in TipIds \ Tips : tip'[t] = tip[t]
      BY <1>4, <2>1 DEF WebhookRefunded, Refund
    <2>3. QED
      BY <1>1, <2>2 DEF Onwards, Tips
  <1>5. ASSUME NEW p \in Procs, DeleteCommit(p) PROVE Tips' = Tips
    <2>1. frame[p].rows \subseteq Tips
      BY <1>5 DEF DeleteCommit, TInv, FrameHolds
    <2>2. \A t \in TipIds \ Tips : tip'[t] = tip[t]
      BY <1>5, <2>1 DEF DeleteCommit, Unlink
    <2>3. QED
      BY <1>1, <2>2 DEF Onwards, Tips
  <1>6. CASE tip' = tip
    BY <1>2, <1>6 DEF Tips
  <1>7. QED
    BY <1>2, <1>3, <1>4, <1>5, <1>6 DEF Next, Proceed, TipStart, Pay, StaffPartial,
      StaffRefund, WebhookUnknown, WebhookPartial, TipReturn, WebhookCompleted, Check, Refetch, Crash, DeleteUnlink,
      Deploy, vars

(* With one tip to a payment, the newest is the only one. *)
LEMMA NewestIsAll ==
  ASSUME TypeOK, OneEach, NEW i \in Intents PROVE Newest(OfIntent(i)) = OfIntent(i)
  <1>1. ASSUME NEW t \in OfIntent(i), NEW u \in OfIntent(i) PROVE u <= t
    <2>1. u = t /\ t \in TipIds
      BY DEF OneEach, OfIntent, Tips
    <2>2. QED
      BY <2>1, BoundsAssumption
  <1>2. QED
    BY <1>1 DEF Newest

LEMMA TipHoldsStep ==
  ASSUME TInv, [Next]_vars, NEW t \in Tips' PROVE TipHolds(t)'
  <1> USE DEF TInv
  <1>1. Onwards /\ TypeOK'
    BY GoesOnwards, TypeStep
  (* A step that neither deletes, inserts nor refunds leaves the tip as it was. *)
  <1>2. ASSUME t \in Tips, tip'[t].linked = tip[t].linked, registered' = registered,
               tip'[t].status = "REFUNDED" => charge[tip[t].intent] = "refunded"
        PROVE  TipHolds(t)'
    <2> DEFINE i == tip[t].intent
    <2>1. i \in Intents
      BY <1>2 DEF Tips, TypeOK, TipRow
    <2>2. TipHolds(t) /\ tip'[t].intent = i
      BY <1>1, <1>2 DEF Onwards
    <2>3. by'[i] = by[i] /\ charge'[i] \in Charged
      BY <1>1, <2>1, <2>2 DEF Onwards, TipHolds, Charged
    <2>4. charge[i] = "refunded" => charge'[i] = "refunded"
      BY <1>1, <2>1 DEF Onwards
    <2>5. QED
      BY <1>2, <2>2, <2>3, <2>4 DEF TipHolds
  <1>3. ASSUME UNCHANGED <<tip, registered>> PROVE TipHolds(t)'
    BY <1>2, <1>3 DEF Tips, TipHolds
  <1>4. ASSUME NEW i \in Intents, WebhookRefunded(i) PROVE TipHolds(t)'
    <2> DEFINE rows == Newest(OfIntent(i))
    <2>1. rows \in SUBSET Tips /\ \A u \in rows : tip[u].intent = i
      BY DEF Newest, OfIntent
    <2>2. t \in Tips
      BY <1>4, <2>1 DEF WebhookRefunded, Refund, Tips
    <2>3. /\ tip'[t].linked = tip[t].linked
          /\ tip'[t].status = IF t \in rows THEN "REFUNDED" ELSE tip[t].status
      BY <1>4, <2>1, <2>2, RowUpdates DEF WebhookRefunded
    <2>4. charge[i] = "refunded"
      BY <1>4 DEF WebhookRefunded, IntentHolds
    <2>5. QED
      BY <1>2, <1>4, <2>1, <2>2, <2>3, <2>4 DEF WebhookRefunded, TipHolds
  <1>5. ASSUME NEW p \in Procs, Insert(p) PROVE TipHolds(t)'
    <2> DEFINE i == frame[p].intent
    <2>1. CASE by[i] \in registered /\ Inserts(i)
      <3>1. PICK n \in TipIds \ Tips :
              /\ tip'[n] = [intent |-> i, linked |-> TRUE, status |-> "PAID"]
              /\ \A u \in TipIds : u # n => tip'[u] = tip[u]
              /\ Tips' = Tips \cup {n}
        BY <1>5, <2>1, InsertEffect, InsertKeeps
      <3>2. CASE t = n
        <4>1. charge[i] \in Charged
          BY <1>5, InsertEffect DEF FrameHolds
        <4>2. UNCHANGED <<registered, by, charge>>
          BY <1>5, InsertEffect
        <4>3. QED
          BY <2>1, <3>1, <3>2, <4>1, <4>2 DEF TipHolds, TypeOK
      <3>3. CASE t # n
        BY <1>2, <1>5, <3>1, <3>3, InsertEffect DEF TipHolds, Tips
      <3>4. QED
        BY <3>2, <3>3
    <2>2. QED
      BY <1>3, <1>5, <2>1, InsertEffect
  <1>6. ASSUME NEW p \in Procs, DeleteCommit(p),
               LinkedTo(frame[p].who) \subseteq frame[p].rows
        PROVE  TipHolds(t)'
    <2> DEFINE r == frame[p].who
               rows == frame[p].rows
    <2>1. rows \in SUBSET Tips /\ \A u \in rows : by[tip[u].intent] = r
      BY <1>6 DEF DeleteCommit, FrameHolds
    <2>2. /\ tip' = Unlink(rows) /\ registered' = registered \ {r}
          /\ UNCHANGED <<by, charge>>
      BY <1>6 DEF DeleteCommit, stripe
    <2>3. t \in Tips
      BY <2>1, <2>2 DEF Unlink, Tips
    <2>4. /\ tip'[t].linked = (tip[t].linked /\ t \notin rows)
          /\ tip'[t].intent = tip[t].intent /\ tip'[t].status = tip[t].status
      BY <2>1, <2>2, <2>3, RowUpdates
    <2>5. tip[t].linked /\ by[tip[t].intent] = r => t \in rows
      BY <1>6, <2>3 DEF LinkedTo
    <2>6. TipHolds(t)
      BY <2>3
    <2>7. QED
      BY <2>1, <2>2, <2>3, <2>4, <2>5, <2>6 DEF TipHolds
  <1>7. QED
    BY <1>3, <1>4, <1>5, <1>6 DEF Next, Proceed, TipStart, Pay, StaffPartial,
      StaffRefund, WebhookUnknown, WebhookPartial, TipReturn, WebhookCompleted, Check, Refetch, Crash, DeleteUnlink,
      DeleteCommit, Deploy, vars

(* Which events a step takes off the list. *)
LEMMA EventStep ==
  ASSUME TInv, [Next]_vars, NEW i \in Intents
  PROVE  /\ <<"completed", i>> \in event /\ <<"completed", i>> \notin event' =>
              by[i] \notin registered \/ OfIntent(i)' # {}
         /\ <<"refunded", i>> \in event /\ <<"refunded", i>> \notin event' =>
              WebhookRefunded(i)
         /\ <<"completed", i>> \in event' /\ <<"completed", i>> \notin event =>
              charge'[i] = "paid"
         /\ <<"refunded", i>> \in event' /\ <<"refunded", i>> \notin event =>
              charge'[i] = "refunded"
         /\ charge'[i] \in {"paid", "partly"} /\ charge[i] \notin {"paid", "partly"} =>
              <<"completed", i>> \in event'
         /\ charge'[i] = "refunded" /\ charge[i] # "refunded" =>
              <<"refunded", i>> \in event'
  <1> DEFINE Goal ==
         /\ <<"completed", i>> \in event /\ <<"completed", i>> \notin event' =>
              by[i] \notin registered \/ OfIntent(i)' # {}
         /\ <<"refunded", i>> \in event /\ <<"refunded", i>> \notin event' =>
              WebhookRefunded(i)
         /\ <<"completed", i>> \in event' /\ <<"completed", i>> \notin event =>
              charge'[i] = "paid"
         /\ <<"refunded", i>> \in event' /\ <<"refunded", i>> \notin event =>
              charge'[i] = "refunded"
         /\ charge'[i] \in {"paid", "partly"} /\ charge[i] \notin {"paid", "partly"} =>
              <<"completed", i>> \in event'
         /\ charge'[i] = "refunded" /\ charge[i] # "refunded" =>
              <<"refunded", i>> \in event'
  <1>1. TypeOK /\ Onwards
    BY GoesOnwards DEF TInv
  <1>2. ASSUME event' = event, charge' = charge PROVE Goal
    BY <1>2
  <1>3. ASSUME NEW j \in Intents,
               \/ \E r \in Registrations : TipStart(r, j)
               \/ Pay(j) \/ StaffPartial(j) \/ StaffRefund(j)
        PROVE  Goal
    BY <1>1, <1>3 DEF TipStart, CreateSession, Pay, StaffPartial, StaffRefund, TypeOK
  <1>4. ASSUME NEW j \in Intents,
               WebhookUnknown(j) \/ WebhookPartial(j) \/ WebhookRefunded(j)
        PROVE  Goal
    BY <1>4 DEF WebhookUnknown, WebhookPartial, WebhookRefunded, Acknowledge
  <1>5. ASSUME NEW p \in Procs, Check(p) \/ Refetch(p) PROVE Goal
    <2>1. frame[p] \in Recording /\ UNCHANGED <<tip, charge>>
      BY <1>5, AtType DEF Check, Refetch
    <2>2. CASE event' = event
      BY <1>2, <2>1, <2>2
    <2>3. CASE event' # event
      <3>1. OfIntent(frame[p].intent) # {} /\ Answer(p)
        BY <1>5, <2>3 DEF Check, Refetch
      <3>2. PICK t \in Tips : tip[t].intent = frame[p].intent
        BY <3>1 DEF OfIntent
      <3>3. frame'[p] = Idle
        BY <1>1, <2>1, <3>1, AnswerType, LeaveType
      <3>4. event' \in {event, event \ {<<"completed", frame[p].intent>>}}
        BY <1>1, <2>1, <3>1, AnswerType
      <3>5. i = frame[p].intent => t \in OfIntent(i)'
        BY <2>1, <3>2 DEF OfIntent, Tips
      <3>6. QED
        BY <2>1, <3>4, <3>5
    <2>4. QED
      BY <2>2, <2>3
  <1>6. ASSUME NEW p \in Procs, Insert(p) PROVE Goal
    <2> DEFINE k == frame[p].intent
    <2>1. frame[p] \in Recording /\ k \in Intents /\ charge' = charge
      BY <1>1, <1>6, InsertEffect
    <2>2. CASE event' = event
      BY <1>2, <2>1, <2>2
    <2>3. CASE Inserts(k) /\ Answer(p)
      <3>1. PICK n \in TipIds :
              /\ tip'[n] = [intent |-> k, linked |-> TRUE, status |-> "PAID"]
              /\ n \in Tips'
        BY <1>1, <2>1, <2>3, InsertKeeps
      <3>2. i = k => n \in OfIntent(i)'
        BY <3>1 DEF OfIntent
      <3>3. event' \in {event, event \ {<<"completed", k>>}}
        BY <1>1, <2>1, <2>3, AnswerType
      <3>4. QED
        BY <2>1, <3>2, <3>3
    <2>4. QED
      BY <1>1, <1>6, <2>2, <2>3, InsertEffect
  <1>7. QED
    BY <1>2, <1>3, <1>4, <1>5, <1>6 DEF Next, Proceed, TipReturn, WebhookCompleted,
      DeleteCommit, Crash, DeleteUnlink, Deploy, vars, stripe

LEMMA IntentHoldsStep ==
  ASSUME TInv, [Next]_vars, NEW i \in Intents PROVE IntentHolds(i)'
  <1>1. TypeOK /\ TypeOK' /\ Onwards /\ IntentHolds(i)
    BY GoesOnwards, TypeStep DEF TInv
  <1>2. charge'[i] # "none" => by'[i] \in Registrations
    <2>1. CASE charge[i] # "none"
      BY <1>1, <2>1 DEF IntentHolds, Onwards
    <2>2. CASE charge[i] = "none" /\ charge'[i] # "none"
      <3>1. charge' # charge
        BY <2>2
      <3>2. PICK j \in Intents :
              \/ \E r \in Registrations : TipStart(r, j)
              \/ Pay(j) \/ StaffPartial(j) \/ StaffRefund(j)
        BY <3>1 DEF Next, Proceed, WebhookUnknown, WebhookPartial, WebhookRefunded, TipReturn,
          WebhookCompleted, Check, Insert, Refetch, DeleteCommit, Crash, DeleteUnlink,
          Deploy, vars, stripe
      <3>3. i = j /\ \E r \in Registrations : TipStart(r, i)
        BY <1>1, <2>2, <3>2 DEF TipStart, CreateSession, Pay, StaffPartial, StaffRefund,
          TypeOK
      <3>4. QED
        BY <1>1, <3>3 DEF TipStart, CreateSession, TypeOK
    <2>3. QED
      BY <2>1, <2>2
  <1>3. <<"completed", i>> \in event' => charge'[i] \in Charged
    BY <1>1, EventStep DEF IntentHolds, Onwards, Charged
  <1>4. <<"refunded", i>> \in event' => charge'[i] = "refunded"
    BY <1>1, EventStep DEF IntentHolds, Onwards
  <1>5. ASSUME charge'[i] \in {"paid", "partly"}, <<"completed", i>> \notin event'
        PROVE  by'[i] \notin registered' \/ OfIntent(i)' # {}
    <2>1. charge[i] \in {"paid", "partly"}
      BY <1>5, EventStep
    <2>2. by[i] \notin registered \/ OfIntent(i) # {} \/ OfIntent(i)' # {}
      BY <1>1, <1>5, <2>1, EventStep DEF IntentHolds
    <2>3. by'[i] = by[i] /\ registered' \subseteq registered
      BY <1>1, <2>1 DEF Onwards
    <2>4. OfIntent(i) # {} => OfIntent(i)' # {}
      BY <1>1 DEF OfIntent, Onwards, Tips
    <2>5. QED
      BY <2>2, <2>3, <2>4
  <1>6. ASSUME charge'[i] = "refunded", OfIntent(i)' = {}
        PROVE  <<"refunded", i>> \in event' \/ i \in early'
    <2>1. OfIntent(i) = {}
      BY <1>1, <1>6 DEF OfIntent, Onwards, Tips
    <2>2. WebhookRefunded(i) => i \in early'
      BY <2>1 DEF WebhookRefunded, Newest
    <2>3. QED
      BY <1>1, <1>6, <2>1, <2>2, EventStep DEF IntentHolds, Onwards
  <1>7. QED
    BY <1>2, <1>3, <1>4, <1>5, <1>6 DEF IntentHolds

LEMMA FrameHoldsStep ==
  ASSUME TInv, [Next]_vars, NEW p \in Procs PROVE FrameHolds(frame[p])'
  <1>1. TypeOK /\ Onwards /\ FrameHolds(frame[p])
    BY GoesOnwards DEF TInv
  <1>2. \A f \in Recording \cup Deletion : FrameHolds(f) => FrameHolds(f)'
    <2> SUFFICES ASSUME NEW f \in Recording \cup Deletion, FrameHolds(f)
                 PROVE  FrameHolds(f)'
      OBVIOUS
    <2>1. CASE f \in Recording
      BY <1>1, <2>1, FrameKinds DEF FrameHolds, Onwards, Recording
    <2>2. CASE f \in Deletion
      <3>1. ASSUME NEW t \in f.rows PROVE t \in Tips' /\ by'[tip'[t].intent] = f.who
        <4>1. t \in Tips /\ by[tip[t].intent] = f.who
          BY <2>2 DEF FrameHolds
        <4>2. tip[t].intent \in Intents /\ charge[tip[t].intent] # "none"
          BY <1>1, <4>1 DEF TInv, TipHolds, Tips, TypeOK, TipRow, Charged
        <4>3. QED
          BY <1>1, <4>1, <4>2 DEF Onwards, Tips
      <3>2. QED
        BY <2>2, <3>1, FrameKinds DEF FrameHolds
    <2>3. QED
      BY <2>1, <2>2
  <1>3. FrameHolds(Idle)'
    BY FrameKinds DEF FrameHolds
  <1>4. CASE frame'[p] = frame[p]
    BY <1>1, <1>2, <1>3, <1>4 DEF TypeOK, FrameHolds
  <1>5. CASE frame'[p] = Idle
    BY <1>3, <1>5 DEF FrameHolds
  <1>6. ASSUME NEW i \in Intents, TipReturn(p, i) \/ WebhookCompleted(p, i)
        PROVE  FrameHolds(frame[p])'
    <2>1. charge[i] \in Charged /\ UNCHANGED <<tip, by, charge>>
      BY <1>6 DEF TInv, IntentHolds, TipReturn, WebhookCompleted, stripe, Charged
    <2>2. PICK op \in {"return", "webhook"} : Enter(p, op, i)
      BY <1>6 DEF TipReturn, WebhookCompleted
    <2>3. frame'[p] = [op |-> op, step |-> "check", intent |-> i]
      BY <1>1, <2>2 DEF Enter, TypeOK
    <2>4. frame'[p] \in Recording /\ frame'[p].intent = i
      BY <2>3 DEF Recording
    <2>5. QED
      BY <2>1, <2>4, FrameKinds DEF FrameHolds
  <1>7. ASSUME NEW r \in Registrations, DeleteUnlink(p, r) PROVE FrameHolds(frame[p])'
    <2>1. PICK f \in Deletion : f = [op |-> "delete", who |-> r, rows |-> LinkedTo(r)]
      BY <1>1 DEF Deletion, LinkedTo, Tips
    <2>2. frame'[p] = f /\ UNCHANGED <<tip, by, charge>>
      BY <1>1, <1>7, <2>1 DEF DeleteUnlink, stripe, TypeOK
    <2>3. \A t \in f.rows : t \in Tips /\ by[tip[t].intent] = f.who
      BY <2>1 DEF LinkedTo
    <2>4. QED
      BY <2>2, <2>3, FrameKinds DEF FrameHolds, Tips
  <1>8. ASSUME frame[p] \in Recording, NEW step \in {"insert", "refetch"}, Move(p, step)
        PROVE  FrameHolds(frame[p])'
    <2>1. frame'[p] \in Recording /\ frame'[p].intent = frame[p].intent
      BY <1>1, <1>8, MoveType
    <2>2. charge'[frame[p].intent] \in Charged
      BY <1>1, <1>8 DEF FrameHolds, Onwards, Recording
    <2>3. QED
      BY <2>1, <2>2, FrameKinds DEF FrameHolds
  (* Each process writes its own frame. *)
  <1>9. ASSUME NEW q \in Procs, q # p, frame' = [frame EXCEPT ![q] = frame'[q]]
        PROVE  FrameHolds(frame[p])'
    BY <1>1, <1>4, <1>9 DEF TypeOK
  <1>10. ASSUME NEW q \in Procs, Check(q) \/ Insert(q) \/ Refetch(q)
         PROVE  FrameHolds(frame[p])'
    <2>1. frame[q] \in Recording
      BY <1>10, AtType DEF Check, Insert, Refetch
    <2>2. Leave(q) \/ \E step \in {"insert", "refetch"} : Move(q, step)
      BY <1>10 DEF Check, Insert, Refetch, Answer
    <2>3. CASE q = p
      BY <1>1, <1>5, <1>8, <2>1, <2>2, <2>3, LeaveType
    <2>4. CASE q # p
      BY <1>1, <1>4, <2>1, <2>2, <2>4, LeaveType, MoveType
    <2>5. QED
      BY <2>3, <2>4
  <1>11. ASSUME NEW q \in Procs, DeleteCommit(q) \/ Crash(q) PROVE FrameHolds(frame[p])'
    <2>1. Leave(q)
      BY <1>11 DEF DeleteCommit, Crash
    <2>2. QED
      BY <1>1, <1>4, <1>5, <2>1, LeaveType
  <1>12. ASSUME NEW q \in Procs, q # p,
                \/ \E i \in Intents : TipReturn(q, i) \/ WebhookCompleted(q, i)
                \/ \E r \in Registrations : DeleteUnlink(q, r)
         PROVE  FrameHolds(frame[p])'
    BY <1>1, <1>4, <1>12 DEF TipReturn, WebhookCompleted, DeleteUnlink, Enter, TypeOK
  <1>13. QED
    BY <1>4, <1>6, <1>7, <1>10, <1>11, <1>12 DEF Next, Proceed, TipStart, Pay,
      StaffPartial, StaffRefund, WebhookUnknown, WebhookPartial, WebhookRefunded, Deploy, vars

(* A tip of returned money is REFUNDED, or its event is under way, or came early. *)
LEMMA RefundStep ==
  ASSUME TInv, [Next]_vars PROVE RefundIsComing'
  <1> SUFFICES ASSUME NEW t \in Tips', charge'[tip'[t].intent] = "refunded",
                      tip'[t].status # "REFUNDED"
               PROVE  \/ <<"refunded", tip'[t].intent>> \in event'
                      \/ tip'[t].intent \in early'
    BY DEF RefundIsComing
  <1> DEFINE i == tip'[t].intent
  <1>1. TypeOK /\ TypeOK' /\ Onwards /\ TipHolds(t)'
    BY GoesOnwards, TypeStep, TipHoldsStep DEF TInv
  <1>2. i \in Intents
    BY <1>1 DEF TypeOK, Tips, TipRow
  <1>3. CASE t \in Tips
    <2>1. tip[t].intent = i /\ tip[t].status # "REFUNDED"
      BY <1>1, <1>3 DEF Onwards
    <2>2. charge[i] = "refunded" => <<"refunded", i>> \in event \/ i \in early
      BY <1>3, <2>1 DEF TInv, RefundIsComing
    <2>3. CASE WebhookRefunded(i)
      <3>1. t \in Newest(OfIntent(i))
        BY <1>2, <1>3, <2>1, NewestIsAll DEF TInv, OfIntent
      <3>2. Newest(OfIntent(i)) \in SUBSET Tips
        BY DEF Newest, OfIntent
      <3>3. tip'[t].status = "REFUNDED"
        BY <1>1, <1>3, <2>3, <3>1, <3>2, RowUpdates DEF WebhookRefunded
      <3>4. QED
        BY <3>3
    <2>4. QED
      BY <1>1, <1>2, <2>2, <2>3, EventStep DEF Onwards
  <1>4. CASE t \notin Tips
    <2>1. PICK p \in Procs : Insert(p)
      <3>1. ASSUME NEW j \in Intents, WebhookRefunded(j) PROVE FALSE
        BY <1>4, <3>1 DEF WebhookRefunded, Refund, Newest, OfIntent, Tips
      <3>2. ASSUME NEW p \in Procs, DeleteCommit(p) PROVE FALSE
        BY <1>4, <3>2 DEF DeleteCommit, Unlink, Tips, TInv, FrameHolds
      <3>3. ASSUME tip' = tip PROVE FALSE
        BY <1>4, <3>3 DEF Tips
      <3>4. QED
        BY <3>1, <3>2, <3>3 DEF Next, Proceed, TipStart, Pay, StaffPartial, StaffRefund,
          WebhookUnknown, WebhookPartial, TipReturn, WebhookCompleted, Check, Refetch, Crash, DeleteUnlink, Deploy, vars
    <2> DEFINE k == frame[p].intent
    <2>2. /\ k \in Intents /\ frame[p] \in Recording /\ UNCHANGED <<charge, early>>
          /\ OfIntent(k) = {} /\ by[k] \in registered /\ Inserts(k) /\ Answer(p)
      BY <1>1, <1>4, <2>1, InsertEffect DEF Tips
    <2>3. i = k
      <3>1. PICK n \in TipIds \ Tips :
              /\ tip'[n] = [intent |-> k, linked |-> TRUE, status |-> "PAID"]
              /\ Tips' = Tips \cup {n}
        BY <1>1, <2>2, InsertKeeps
      <3>2. t = n
        BY <1>4, <3>1
      <3>3. QED
        BY <3>1, <3>2
    <2>4. <<"refunded", k>> \in event => <<"refunded", k>> \in event'
      BY <1>1, <2>2, AnswerType
    <2>5. charge[k] = "refunded"
      BY <2>2, <2>3
    <2>6. <<"refunded", k>> \in event \/ k \in early
      BY <2>2, <2>5 DEF TInv, IntentHolds
    <2>7. QED
      BY <2>2, <2>3, <2>4, <2>6
  <1>5. QED
    BY <1>3, <1>4

LEMMA TipsInit ==
  ASSUME Init PROVE TInv
  <1>1. TypeOK
    BY TypeInit
  <1>2. Tips = {}
    BY DEF Init, Tips
  <1>3. OneEach /\ RefundIsComing /\ \A t \in Tips : TipHolds(t)
    BY <1>2 DEF OneEach, RefundIsComing
  <1>4. \A p \in Procs : FrameHolds(frame[p])
    BY FrameKinds DEF Init, FrameHolds
  <1>5. \A i \in Intents : IntentHolds(i)
    BY DEF Init, IntentHolds
  <1>6. QED
    BY <1>1, <1>3, <1>4, <1>5 DEF TInv

(* Every reachable state satisfies the inductive invariant. *)
THEOREM TipsInvariance == Spec => []TInv
  <1>1. Init => TInv
    BY TipsInit
  <1>2. TInv /\ [Next]_vars => TInv'
    <2> SUFFICES ASSUME TInv, [Next]_vars PROVE TInv'
      OBVIOUS
    <2>1. TypeOK' /\ OneEach' /\ RefundIsComing'
      BY TypeStep, OneEachStep, RefundStep
    <2>2. \A t \in Tips' : TipHolds(t)'
      BY TipHoldsStep
    <2>3. \A p \in Procs : FrameHolds(frame[p])'
      BY FrameHoldsStep
    <2>4. \A i \in Intents : IntentHolds(i)'
      BY IntentHoldsStep
    <2>5. QED
      BY <2>1, <2>2, <2>3, <2>4 DEF TInv
  <1>3. QED
    BY <1>1, <1>2, PTL DEF Spec

-----------------------------------------------------------------------------
(* The tables keep their types, the sequence of primary keys included. *)
THEOREM TipsTypes == Spec => []TypeOK
  <1>1. TInv => TypeOK
    BY DEF TInv
  <1>2. QED
    BY <1>1, TipsInvariance, PTL

(* Whatever the return view, deliveries, deletions and crashes do at the same
   time, and though nothing is locked: a payment has one tip; a tip is REFUNDED
   only if Stripe has returned all of its money, and if Stripe has, it is or will
   be, unless the event came early (a part that was returned leaves the tip as it
   is); and the match page does not ask who has paid again, once the payment's
   event is handled. *)
THEOREM TipsAreTrue == Spec => []TipsAgree
  <1>1. ASSUME TInv PROVE TipsAgree
    <2>1. \A t, u \in Tips : tip[t].intent = tip[u].intent => t = u
      BY <1>1 DEF TInv, OneEach
    <2>2. \A t \in Tips :
            /\ tip[t].status = "REFUNDED" => charge[tip[t].intent] = "refunded"
            /\ charge[tip[t].intent] = "refunded" /\ tip[t].status # "REFUNDED" =>
                 \/ <<"refunded", tip[t].intent>> \in event
                 \/ tip[t].intent \in early
      BY <1>1 DEF TInv, TipHolds, RefundIsComing
    <2>3. ASSUME NEW i \in Intents, charge[i] \in {"paid", "partly"},
                 <<"completed", i>> \notin event, ShowsTipPanel(by[i])
          PROVE  FALSE
      <3>1. by[i] \in registered
        BY <2>3 DEF ShowsTipPanel, MayTip
      <3>2. PICK t \in Tips : tip[t].intent = i
        BY <1>1, <2>3, <3>1 DEF TInv, IntentHolds, OfIntent
      <3>3. tip[t].linked /\ tip[t].status # "REFUNDED"
        BY <1>1, <2>3, <3>1, <3>2 DEF TInv, TipHolds
      <3>4. tip[t].status = "PAID"
        BY <1>1, <3>3 DEF TInv, TypeOK, Tips, TipRow, TipStatus
      <3>5. t \in LinkedTo(by[i])
        BY <3>2, <3>3 DEF LinkedTo
      <3>6. QED
        BY <2>3, <3>4, <3>5 DEF ShowsTipPanel
    <2>4. QED
      BY <2>1, <2>2, <2>3 DEF TipsAgree
  <1>2. QED
    BY <1>1, TipsInvariance, PTL

=============================================================================
