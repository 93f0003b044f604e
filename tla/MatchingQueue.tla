----------------------------- MODULE MatchingQueue -----------------------------
(***************************************************************************)
(* The read-only side of the matching engine: a participant's place in the *)
(* queue, the picture of the pool and the status card drawn from it        *)
(* (matching/services.py, matching/models.py, matching/selectors.py), the  *)
(* match page (public/views/match.py) and the dry run of run_matching.  It *)
(* adds no state: every operator is a query over the tables of Matching,   *)
(* and the properties relate what the pages promise to one another and to  *)
(* what the engine then does.                                              *)
(***************************************************************************)
EXTENDS Matching, FiniteSets

CONSTANTS
  MaxIcons,  \* _QUEUE_MAX_ICONS: slots of a waiting column
  MaxPairs   \* _QUEUE_MAX_PAIRS: slots of the matched column

ASSUME PoolAssumption == IsFiniteSet(Registrations)
ASSUME GridAssumption == MaxIcons \in Nat \ {0} /\ MaxPairs \in Nat \ {0}

NoPlace == 0   \* queue_position None: places are numbered from 1
NoGlyph == -1  \* you_index or you_glyph None: glyphs are numbered from 0

-----------------------------------------------------------------------------
(* Places in the queue *)

SameRole(r) == IF r \in Ambassadors THEN Ambassadors ELSE Referees

(* eligible_ambassadors and eligible_referees *)
Pool(regs, ms, r) == {d \in SameRole(r) : Eligible(regs, ms, d)}

\* mutant: a tie in priority is counted for both
AheadOrTied(regs, ms, r) ==
  {d \in Pool(regs, ms, r) \ {r} : regs[d].priority >= regs[r].priority}
Ahead(regs, ms, r) ==
  {d \in Pool(regs, ms, r) :
     \/ regs[d].priority > regs[r].priority
     \/ regs[d].priority = regs[r].priority /\ CreatedAt[d] < CreatedAt[r]}

QueuePosition(regs, ms, r) ==
  IF r \in Pool(regs, ms, r) THEN Cardinality(Ahead(regs, ms, r)) + 1 ELSE NoPlace

(* is_eligible_pair, the rule as the code states it for reference. *)
IsEligiblePair(regs, a, r) ==
  /\ a \in Ambassadors /\ r \in Referees
  /\ regs[a].status = "VERIFIED" /\ regs[r].status = "VERIFIED"
  /\ {a, r} \subseteq ValidPass

ActiveMatches == {m \in Created : IsActive(match[m])}

(* A registration holds one active match; matches are created in the order of
   their primary keys. *)
MatchedPairIndex(r) ==
  IF ActiveFor(match, r) = {} THEN NoGlyph
  ELSE LET own == CHOOSE m \in ActiveFor(match, r) : TRUE
       IN  Cardinality({m \in ActiveMatches : m < own})

(* VERIFIED registrations of a role without an active match, whatever their
   pass: what a waiting column counts. *)
Unmatched(role) ==
  {r \in role : reg[r].status = "VERIFIED" /\ ActiveFor(match, r) = {}}
VerifiedOf(role) == {r \in role : reg[r].status = "VERIFIED"}

\* mutant: the matched column counts the VERIFIED total
SnapshotTotals(role) ==
  [unmatched |-> Cardinality(Unmatched(role)),
   matched   |-> Cardinality(VerifiedOf(role))]
Snapshot(role) ==
  [unmatched |-> Cardinality(Unmatched(role)),
   matched   |-> Cardinality(VerifiedOf(role)) - Cardinality(Unmatched(role))]

-----------------------------------------------------------------------------
(* The status card *)

(* MatchQuerySet.active_at: a match that is due is no longer shown, though the
   sweep has not closed it yet. *)
ShownFor(r) ==
  {m \in ActiveFor(match, r) : match[m].status = "ACCEPTED" \/ m \notin Due}

(* account_match: the match whose page opens from the account page, the first
   in the default order. *)
AccountMatch(r) == {m \in ShownFor(r) : \A n \in ShownFor(r) : n <= m}

(* match_status_context *)
MatchState(r) ==
  IF ShownFor(r) = {} THEN "none"
  ELSE CASE match[CHOOSE m \in ShownFor(r) : TRUE].status = "ACCEPTED" -> "accepted"
         [] match[CHOOSE m \in ShownFor(r) : TRUE].status = "PENDING" -> "pending"
         [] OTHER -> "proposed"

StatusCard(r) ==
  LET alone == ShownFor(r) = {}
  IN  [match_state |-> MatchState(r),
       partner_accepted |->
         \E m \in ShownFor(r) : OtherParty(match[m], r) \in match[m].accepted,
       queue_position |-> IF alone THEN QueuePosition(reg, match, r) ELSE NoPlace,
       can_rejoin |-> reg[r].status = "PAUSED" /\ alone]

(* status_pill_for *)
StatusPill(r) ==
  IF MatchState(r) \in {"proposed", "pending"} THEN "Pending"
  ELSE IF MatchState(r) = "accepted" THEN "Accepted"
  ELSE IF reg[r].status = "VERIFIED" THEN "Queued"
  ELSE reg[r].status

-----------------------------------------------------------------------------
(* The picture *)

(* queue_you_for: which column holds the viewer, and at which index.  The place
   is the one the caller has in hand. *)
YouFor(r, place) ==
  IF reg[r].status # "VERIFIED" THEN [column |-> "", index |-> NoGlyph]
  ELSE IF place # NoPlace
    THEN [column |-> IF r \in Ambassadors THEN "ambassadors" ELSE "referees",
          index |-> place - 1]
  ELSE IF ActiveFor(match, r) # {}
    THEN [column |-> "matches", index |-> MatchedPairIndex(r)]
  ELSE [column |-> "", index |-> NoGlyph]

(* _capped: beyond the cap the last slot is the ellipsis. *)
Glyphs(count, cap) == IF count <= cap THEN count ELSE cap - 1
Truncated(count, cap) == count > cap

Column(count, cap, index) ==
  [count |-> count, glyphs |-> Glyphs(count, cap),
   truncated |-> Truncated(count, cap),
   you |-> IF index \in 0..(Glyphs(count, cap) - 1) THEN index ELSE NoGlyph]

(* instant_match_role *)
\* mutant: promised before matching opens
InstantMatchEarly(ambassadors, referees) ==
  CASE referees = 0 /\ ambassadors > 0 -> "referee"
    [] ambassadors = 0 /\ referees > 0 -> "ambassador"
    [] OTHER -> ""
InstantMatchRole(ambassadors, referees) ==
  CASE open /\ referees = 0 /\ ambassadors > 0 -> "referee"
    [] open /\ ambassadors = 0 /\ referees > 0 -> "ambassador"
    [] OTHER -> ""

(* queue_snapshot_context and build_queue_context, for a viewer who is at you. *)
Picture(you) ==
  LET ambassadors == Snapshot(Ambassadors)
      referees == Snapshot(Referees)
      index(column) == IF you.column = column THEN you.index ELSE NoGlyph
  IN  [ambassadors |-> Column(ambassadors.unmatched, MaxIcons, index("ambassadors")),
       referees |-> Column(referees.unmatched, MaxIcons, index("referees")),
       matches |-> Column(ambassadors.matched, MaxPairs, index("matches")),
       instant |-> InstantMatchRole(ambassadors.unmatched, referees.unmatched)]

-----------------------------------------------------------------------------
(* The account page and the page staff see *)

\* mutant: the page does not hand the place on to the picture
AccountPageWithoutPlace(r) ==
  LET you == YouFor(r, NoPlace)
  IN  [card |-> StatusCard(r), pill |-> StatusPill(r),
       you |-> you, picture |-> Picture(you)]
(* account_detail: the picture is drawn from the place on the card. *)
AccountPage(r) ==
  LET card == StatusCard(r)
      you == YouFor(r, card.queue_position)
  IN  [card |-> card, pill |-> StatusPill(r),
       you |-> you, picture |-> Picture(you)]

(* queue_standing: the reason staff read when there is no place. *)
Standing(r) ==
  IF QueuePosition(reg, match, r) # NoPlace THEN "waiting"
  ELSE IF reg[r].status # "VERIFIED" THEN "standing"
  ELSE IF ActiveFor(match, r) # {} THEN "in a match"
  ELSE "prior pass"

(* RegistrationAdmin: the column of the list and the line of the form. *)
StaffPage(r) ==
  [place |-> QueuePosition(reg, match, r), standing |-> Standing(r)]

-----------------------------------------------------------------------------
(* The match page *)

(* MatchDisplay.view_key for the viewer r.  Which side declined, or reported, is
   not kept in the model. *)
ViewKey(m, r) ==
  LET row == match[m]
      other == OtherParty(row, r)
  IN  IF row.status = "ACCEPTED" THEN "confirmed"
      ELSE IF row.status \in {"DECLINED", "CANCELLED"} THEN "closed"
      ELSE IF row.status = "EXPIRED" \/ m \in Over THEN "expired"
      ELSE IF r \in row.accepted THEN "you_accepted"
      ELSE IF other \in row.accepted THEN "partner_accepted"
      ELSE "proposed"

(* MatchDisplay.side_status, the pill of party r in the roster.  Which side
   declined is not kept, so that the pill "declined" of a DECLINED match is
   "pending" here. *)
SideStatus(m, r) ==
  IF match[m].status = "ACCEPTED" \/ r \in match[m].accepted THEN "accepted"
  ELSE IF match[m].status = "EXPIRED" \/ m \in OpenMatches \cap Over THEN "no_response"
  ELSE "pending"

(* _match_context: the counterpart, with e-mail address and phone. *)
ShowsContacts(m) == match[m].status = "ACCEPTED"

(* match_actions.html: the buttons of each view. *)
\* mutant: the deadline is over, but the buttons are still there
OffersAfterDeadline(m, r) ==
  IF IsOpen(match[m])
    THEN IF r \in match[m].accepted THEN {"withdraw"} ELSE {"accept", "decline"}
    ELSE IF ShowsContacts(m) THEN {"report"} ELSE {}
Offers(m, r) ==
  CASE ViewKey(m, r) \in {"proposed", "partner_accepted"} -> {"accept", "decline"}
    [] ViewKey(m, r) = "you_accepted"                     -> {"withdraw"}
    [] ViewKey(m, r) = "confirmed"                        -> {"report"}
    [] OTHER                                              -> {}

-----------------------------------------------------------------------------
(* The dry runs of the two crons: run_matching and expire_matches *)

\* mutant: a referee is not consumed by the ambassador it is paired with
FreeRefereesUnconsumed(consumed) == {r \in Referees : Eligible(reg, match, r)}
FreeReferees(consumed) ==
  {r \in Referees : Eligible(reg, match, r)} \ consumed

BestReferee(a, consumed) ==
  CHOOSE r \in FreeReferees(consumed) :
    \A s \in FreeReferees(consumed) \ {r} : RanksBefore(reg, a, r, s)

(* _simulate_run_matching: takes the eligible ambassadors in queue order. *)
DryRun ==
  LET pool == {a \in Ambassadors : Eligible(reg, match, a)}
      at(n) == CHOOSE a \in pool : QueuePosition(reg, match, a) = n
      from[n \in 1..(Cardinality(pool) + 1), consumed \in SUBSET Referees] ==
        IF n > Cardinality(pool) \/ FreeReferees(consumed) = {} THEN 0
        ELSE 1 + from[n + 1, consumed \cup {BestReferee(at(n), consumed)}]
  IN  from[1, {}]

(* expire_matches without --commit: the matches it lists, and what it says of
   each party. *)
WouldExpire == OpenMatches \cap Due
\* mutant: both sides share the fate of a PENDING match
FateOfMatch(m, r) == IF match[m].status = "PENDING" THEN "VERIFIED" ELSE "PAUSED"
Fate(m, r) == IF r \in match[m].accepted THEN "VERIFIED" ELSE "PAUSED"

-----------------------------------------------------------------------------
(* Properties *)

(* A page is rendered by a process that is in no handler. *)
Renders == \E p \in Procs : req[p] = Idle

(* Handlers one after the other: the picture is true.  There are as many
   matched ambassadors as matched referees as active matches; a VERIFIED
   registration with a valid pass is at exactly one place, within the counted
   part of its column, and sees its own glyph unless the column overruns its
   grid; two registrations never share a waiting place, the two
   parties of a match share theirs, and so does no other pair; and the status
   card tells somebody who waits for nothing only when a match that is due is
   not swept yet. *)
PictureIsTrue ==
  Renders =>
    /\ Snapshot(Ambassadors).matched = Cardinality(ActiveMatches)
    /\ Snapshot(Referees).matched = Cardinality(ActiveMatches)
    /\ \A r \in ValidPass : reg[r].status = "VERIFIED" =>
         LET page == AccountPage(r)
             own == CASE page.you.column = "ambassadors" -> page.picture.ambassadors
                      [] page.you.column = "referees" -> page.picture.referees
                      [] OTHER -> page.picture.matches
         IN  /\ page.you.index \in 0..(own.count - 1)
             /\ own.you = NoGlyph => own.truncated
             /\ page.pill = "Queued" /\ page.card.queue_position = NoPlace =>
                  ActiveFor(match, r) # {} /\ ActiveFor(match, r) \subseteq Due
    /\ LET seen == {<<r, YouFor(r, StatusCard(r).queue_position)>> : r \in ValidPass}
       IN  \A x, y \in seen : x # y /\ x[2] = y[2] /\ x[2].column # "" =>
             \E m \in ActiveMatches : {x[1], y[1]} = Parties(match[m])

(* Handlers one after the other: the pages about a match and about a place,
   each computed by code of its own, say the same.  Every button of the match page is one the
   handler behind it accepts, and what a handler accepts has its button; the
   contacts are there exactly when both pills of the roster say "accepted"; the
   account page shows a match exactly while its page offers something, except at
   the very instant of the deadline, when it already hides an open match whose
   page still offers its buttons; it says that the partner has accepted when the
   match page does, and offers the way back into the queue to whoever is paused;
   and staff read the place, or the reason why there is none, that the
   participant sees. *)
PagesAgree ==
  Renders => \A r \in Registrations :
    LET card == StatusCard(r)
        staff == StaffPage(r) IN
    /\ \A m \in Created : r \in Parties(match[m]) =>
         LET offers == Offers(m, r)
             view == ViewKey(m, r) IN
         /\ "accept" \in offers <=> Actionable(m, r)
         /\ "decline" \in offers <=> Actionable(m, r)
         /\ "withdraw" \in offers <=> Waiting(m, r)
         /\ "report" \in offers <=> ShowsContacts(m) /\ ~match[m].reported
         /\ IsActive(match[m]) =>
              (ShowsContacts(m) <=>
                 \A s \in Parties(match[m]) : SideStatus(m, s) = "accepted")
         /\ m \in AccountMatch(r) <=> offers # {} /\ m \notin WouldExpire
         /\ offers # {} /\ m \in WouldExpire => deadline[m] = "now"
         /\ m \in ShownFor(r) =>
              /\ card.match_state = "accepted" <=> view = "confirmed"
              /\ card.match_state = "proposed" <=> view = "proposed"
              /\ card.partner_accepted <=>
                   view \in {"partner_accepted", "confirmed"}
    /\ card.can_rejoin <=> reg[r].status = "PAUSED"
    /\ staff.place = card.queue_position
    /\ staff.standing = "in a match" <=>
         YouFor(r, card.queue_position).column = "matches"

(* Whom a step proposes for: the caller of propose_match in each handler. *)
ProposedFor ==
  {r \in Registrations :
     \/ \E p \in Procs :
          /\ req[p] # Idle /\ req'[p] = Idle
          /\ \/ req[p].op \in RegistrationOps \cup {"report"} /\ r = req[p].who
             \/ req[p].op = "decline" /\ r = OtherParty(req[p].row, req[p].who)
             \/ /\ req[p].op = "expire"
                /\ r \in Parties(req[p].row) \cap req[p].row.accepted
     \/ req' = req /\ reg[r].status = "UNVERIFIED" /\ reg'[r].status # "UNVERIFIED"}

(* Handlers one after the other: a pair that is proposed is one that
   is_eligible_pair admits, though nothing calls it, and one of the two is the
   registration the step proposes for.  Its counterpart is never further back
   in the queue than somebody of the same role who is passed over, except when
   the counterpart shares the proposer's location and the other does not.  The
   places are those of the moment of the proposal: after the re-queue or rejoin
   that goes with it. *)
QueueOrderKept ==
  [][\A m \in MatchIds : match[m] = NoMatch /\ match'[m] # NoMatch =>
       LET before == [match' EXCEPT ![m] = NoMatch]
           place(r) == QueuePosition(reg', before, r)
           near(r, s) == Location[r] = Location[s]
       IN  /\ IsEligiblePair(reg', match'[m].amb, match'[m].ref)
           /\ Parties(match'[m]) \cap ProposedFor # {}
           /\ \A r \in ProposedFor :
                LET c == OtherParty(match'[m], r)
                IN  \A d \in Pool(reg', before, c) :
                      place(d) < place(c) => near(c, r) /\ ~near(d, r)]_vars

(* Handlers one after the other: when the page says that the next ambassador
   (or referee) is matched at once, the next one to come in is, provided that
   somebody who waits holds a pass valid for the role. *)
InstantMatchIsKept ==
  [][\A r \in ValidPass :
       /\ reg[r].status # "VERIFIED" /\ reg'[r].status = "VERIFIED"
       /\ AccountPage(r).picture.instant = IF r \in Ambassadors THEN "ambassador" ELSE "referee"
       /\ Unmatched(Counterparts(r)) \cap ValidPass # {}
       /\ FreeIds(match) # {}
       => ActiveFor(match', r) # {}]_vars

(* Handlers one after the other: what the dry run of expire_matches announces is
   what the sweep then does, by code of its own.  It expires no match that was
   not listed, and leaves each party re-queued or paused as was said. *)
SweepAsAnnounced ==
  [][\A p \in Procs : InHandler(p, "expire") /\ match' # match =>
       LET m == req[p].id
       IN  /\ m \in WouldExpire
           /\ \A r \in Parties(match[m]) : reg'[r].status = Fate(m, r)]_vars

(* Handlers one after the other: what the dry run of run_matching counts is what
   the drain then makes.  Matching open, the drain takes the ambassador at the
   head of the queue; it makes a match exactly if the dry run counted one, and
   the count goes down by that one. *)
DrainAsAnnounced ==
  [][\A p \in Procs :
       /\ InHandler(p, "propose") /\ req'[p] = Idle
       /\ open /\ FreeIds(match) # {}
       /\ QueuePosition(reg, match, req[p].who) = 1
       => IF DryRun = 0 THEN match' = match
          ELSE match' # match /\ DryRun' = DryRun - 1]_vars

=============================================================================
