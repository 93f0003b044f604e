# TLA+ models of the Ambassadeurs matching service

The service pairs season-pass *ambassadors* with *referees* so that both get a
referral advantage. A participant registers, confirms an e-mail address (and in
a paid tier pays a deposit through Stripe), waits in a pool, is matched with one
counterpart, and both say yes or no inside a contact window. Django views, three
cron commands and Stripe's webhook change the same rows of one Postgres
database, in several gunicorn processes, at READ COMMITTED and without
transactions around requests (`src/config/settings/base.py`, `src/render.yaml`).
This directory models that: how one signs up; the protocol of matches and
registrations, what it promises and what its locks do and do not ensure; what
the pages, the dry runs and the mails say of it; and the deposits and tips with
Stripe on the other side.

Contents: [inventory](#inventory), [the modules](#the-modules),
[runs](#runs-what-is-checked), [proofs](#proofs), [findings](#findings),
[what is not modelled](#what-is-not-modelled), [plan](#plan).

## Inventory

| component | state it keeps | operations | talks to |
|---|---|---|---|
| Matching engine (`src/matching/services.py`) | none of its own; the rows below | `propose_match`, `run_matching`, `expire_lapsed_matches`, `decline_match`, `report_no_show`, `rejoin_queue`, `close_season` | row models, deposits, log, e-mails |
| Registration (`src/matching/models.py`) | `status` (UNVERIFIED, VERIFIED, PAUSED, SUSPENDED), `priority`, pass and location, fee | `pause`, `requeue`, `suspend`, confirm | engine |
| Match (`src/matching/models.py`) | two parties, `status`, two `*_accepted_at`, `declined_by`, `no_show_reported_by`, `expires_at` | `accept`, `withdraw`, `decline`, `expire`, `cancel` | engine, match pages |
| Match pages (`src/public/views/match.py`) | signed token in the link, the row in memory | accept, withdraw, decline, report | engine |
| Deposits (`src/billing/`) | `Payment.status` (HELD, CAPTURED, FORFEITED, REFUNDED), payment intent | checkout, `finalize_paid_registration`, `capture`, `forfeit`, `refund`, webhook | Stripe, engine |
| Tips (`src/billing/services/tips.py`) | `Tip` per payment intent | ask, checkout, record, refund | Stripe, accounts |
| Enrolment (`src/public/services.py`, `src/public/views/registration.py`) | user and UNVERIFIED registration | register or resend, confirmation link | engine, e-mails |
| Accounts (`src/accounts/`) | users, sign-in links, passkeys, session challenges | sign in, rejoin, delete account | engine, enrolment, deposits, tips |
| Impersonation (`src/core/impersonation.py`) | `last_login` as the spent mark of a token | hand-off between two hosts | accounts |
| Queue queries (`src/matching/selectors.py`, `services.py`, `models.py`) | none | place, snapshot, picture, status card, staff page, dry runs | row models |
| Log (`src/core/services.py`) | `StateTransitionLog` rows | `record_transition` | everyone who changes a status |
| E-mails (`src/matching/side_effects.py`) | none | handlers run after commit | engine |
| Fees and dates (`src/matching/pricing_config.py`) | settings | fee of a role, open dates | enrolment, engine |

The rest (pages, content, forms, the read-only staff endpoint, debug tools,
deployment) keeps no state a property could be about.

**How they interact.** Calls are synchronous; what makes the system hard is that
different processes hold rows of the same table in memory. A view loads a match
with its two registrations, decides on what it loaded, then calls a service that
saves a few columns in a transaction. ADR 0018 dropped the row locks from those
transitions, so that nothing is read again. The one place with locks is
`propose_match`, which every handler that frees a party calls in its own
transaction.

**What is hard**, and which correctness properties follow, per component:

- *Match transitions.* Two answers, an answer and the sweep, two reports of one
  match: each decides from its own copy. Promises: a registration has one active
  match; a terminal match stays so; contacts are shown only when both agreed and
  neither took it back; the party that kept faith is never the one paused; a
  suspension is final; the log ends in the status the row has.
- *Pool.* Parties of an active match are VERIFIED (pause and suspend rely on
  it: otherwise the sweep fails on that match for ever); nobody is matched
  before the two gates; a match nobody answers is closed.
- *Proposal.* Two SELECT ... FOR UPDATE per call, row locks taken in different
  orders by different callers: one match per proposer, a counterpart that is
  still available, no wait for ever.
- *Deposits.* Captured exactly for those who agreed, never lost between capture,
  forfeit, refund and delivery of Stripe's events in any order.
- *Enrolment and accounts.* Anybody may submit the form with anybody's address,
  twice at once; the lookup locks nothing while there is no row. One registration
  per address, a working link for whoever is answered, nobody in another's account
  although links outlive the accounts they were mailed for.
- *Tips.* No row to lock: check, insert, unique constraint. One tip per payment,
  recorded whatever happens to the browser, the flag or the process.
- *Queue queries and pages.* Six pieces of code derive what a participant is told
  from the same rows: they must agree with one another, with the handlers behind
  the buttons, and with what the engine does next.
- *Mails.* Sent after the commit from rows in memory: true, to the right party, and
  to everybody whom another's step has moved.

`PROJECT.json` lists every hazard at its line with the properties that cover it.

## The modules

### Matching (with MCMatching, MatchingProofs, MatchingSerialProofs)

State: the tables `reg`, `match`, `deposit`; the clock as `open` (matching has
opened) and `deadline` (where now stands to each `expires_at`); `logged`, the last transition
of each match in the audit log; `req`, what each process holds in memory;
`consent`, a history variable with the parties whose last committed answer is
yes (no action reads it).

Every handler is split where the code is: a **fetch** action (load the rows,
check the page's guard on them) and a **commit** action (one database
transaction, computed from the rows in `req`, which by then may be stale; only
the columns in the code's `update_fields` are saved). `Rollback` is the commit
that fails because `pause()` or `suspend()` refuses the row in memory: nothing
remains of the transaction. With `Procs` a single process, handlers run one
after the other; with two, they interleave in every way.

| code | actions |
|---|---|
| `match_accept` / `record_acceptance`, with `capture` of both deposits on mutual acceptance | `ViewAccept`, `CommitAccept` |
| `match_withdraw` / `withdraw_acceptance` | `ViewWithdraw`, `CommitWithdraw` |
| `match_decline` / `decline_match` with `record_decline`, pause, re-queue and the proposal for the other party | `ViewDecline`, `CommitDecline`, `Rollback` |
| `match_report_no_show` / `report_no_show` with suspension, forfeit, re-queue and proposal | `ViewReport`, `CommitReport`, `Rollback` |
| cron `expire_matches` / `expire_lapsed_matches`, `expire_match`, `handle_lapsed_participant` | `SweepFetch`, `CommitExpire`, `Rollback` |
| `register_confirm` / `confirm_registration` (free tier) | `ViewConfirm`, `CommitConfirm` |
| `finalize_paid_registration` (paid tier; holds the row lock, so one step) | `FinalizePaid` |
| `account_rejoin_queue` / `rejoin_queue` | `ViewRejoin`, `CommitRejoin` |
| cron `run_matching` | `DrainFetch`, `CommitDrain` |
| `record_payment_refunded` (staff refund in Stripe), `refund` by `close_season` | `Refund` |
| passing of time | `OpenMatching`, `Lapse` |

`propose_match` is the operator `Propose`, one step here; `Candidates`,
`RanksBefore` and `BestCandidates` are its query and its order (same location,
then priority, then first come).

The code compares `expires_at` in two ways: the sweep, its dry run and
`MatchQuerySet.active_at` take `expires_at <= now` (`Due`), the match page and its
buttons `now > expires_at` (`Over`). `deadline` is therefore `ahead`, `now` or
`over`, and at the instant `now` the two differ.

Refunds reach matched and matchable parties and change nothing but the payment: a
registration whose deposit was paid back stays VERIFIED, may be matched and
accepted, and a captured deposit of an accepted match may be paid back too.

Abstractions: a registration has one deposit (Deposits shows that it has one row);
`fee_chf > 0` is membership of `PaidTier`; the pass rules are membership of
`ValidPass`; times are reduced to "opened" and the three positions of a deadline,
which may move on at any moment, also between a fetch and its commit. Confirmation and rejoin of one and the same registration
by two processes at once are included, as any other pair.

### Pairing and MatchingRefinement (with MatchingRefinementProofs)

`Pairing` is the abstract specification: who stands where (`standing`), who is
coupled with whom (`pairs`), who has said yes, who has paid, whether matching has
opened. No tables, rows in memory, priorities, clock or log; one action for each
thing a participant, staff or a cron can see happen (`Join`, `Pay`, `Rejoin`,
`Drain`, `SayYes`, `TakeBack`, `Refuse`, `Lapse`, `Accuse`, `Open`). A couple
breaks up with those who did not keep faith standing PAUSED or SUSPENDED and the
other waiting again, who may be paired at once. Whom one is paired with is not
promised here (QueueOrderKept says that).

`MatchingRefinement` maps the tables of Matching to it: the couples are the
active matches, `yes` their stored acceptances, `paid` whoever has a deposit.
`ImplementsPairing` is `Pairing!PSpec` under that mapping. Fetches, rollbacks, the
lapse of a deadline and repeated calls are stutters; each commit is one visible
event. It holds with one process; the Race runs say how it fails with two.

### MatchingQueue (proofs in MatchingViewsProofs)

The read side of the engine, as operators over the tables of Matching (it has no
variables of its own).

| code | operators |
|---|---|
| `RegistrationQuerySet.eligible_*`, `with_queue_position`, `queue_position`, `is_eligible_pair` | `Pool`, `Ahead`, `QueuePosition`, `IsEligiblePair` |
| `queue_snapshot`, `matched_pair_index`, `MatchQuerySet.active` | `Unmatched`, `Snapshot`, `MatchedPairIndex`, `ActiveMatches` |
| `queue_you_for`, `_capped`, `_waiting_column`, `instant_match_role`, `queue_snapshot_context` | `YouFor`, `Glyphs`, `Truncated`, `Column`, `InstantMatchRole`, `Picture` |
| `MatchQuerySet.active_at`, `match_status_context`, `status_pill_for`, `account_match`, `account_detail` | `ShownFor`, `MatchState`, `StatusCard`, `StatusPill`, `AccountMatch`, `AccountPage` |
| `queue_standing`, `RegistrationAdmin` | `Standing`, `StaffPage` |
| `MatchDisplay`, `_match_context`, `match_actions.html` | `ViewKey`, `SideStatus`, `ShowsContacts`, `Offers` |
| `_simulate_run_matching`, `expire_matches` without `--commit` | `DryRun`, `WouldExpire`, `Fate` |

Its properties say: the picture shows everybody at one place and the counts are
those of the matches (`PictureIsTrue`); match page, roster, account page, staff
page and handlers agree, but at the instant of the deadline, when the account page
already hides what the match page still offers (`PagesAgree`); the counterpart of
whoever a step proposes for is not further back than another of its role, unless it
is nearer and the other is not (`QueueOrderKept`); "matched immediately" is
kept (`InstantMatchIsKept`); the crons do what their dry runs announced
(`SweepAsAnnounced`, `DrainAsAnnounced`). Which side declined or reported is not kept in the model, so
that the views of a match closed by a decline or a report are one. A page is rendered by
a process that is in no handler (`Renders`), from the tables of one instant.

### MatchingNotices (proofs in MatchingViewsProofs)

The mails of `src/matching/side_effects.py`, as the set `Mails(p)` of the step in
which process `p` commits: a transaction that is rolled back sends nothing. Each
handler computes its recipient and message from the request, as the code does
from the match in memory; `Truthful` reads the tables after the step.

### ProposeLocks (with MCProposeLocks, ProposeLocksProofs)

`propose_match` statement by statement, as Postgres runs it at READ COMMITTED,
with the row locks of the transaction it runs in. A SELECT ... FOR UPDATE LIMIT 1
works on the rows of its snapshot, waits for the holder of the first of them,
then checks the row's own columns again but not the NOT EXISTS subquery about
matches. Three callers that differ in the rows they lock are modelled:
`confirm_registration`, `run_matching` and `decline_match`. `Abort` is the
deadlock detector of Postgres (external to the repository), enabled exactly when
a set of transactions wait for one another.

| code | actions |
|---|---|
| the callers | `Confirm`, `Drain`, `Decline` |
| the caller's UPDATEs and the lock on the proposer's own row | `LockNext` |
| "already has an active match" | `CheckActive` |
| `candidates.exists()` | `SelectExists`, `LockExisting` |
| `_rank_candidates(...).first()` | `SelectRanked`, `LockRanked` |
| create the match and commit | `Create` |
| deadlock | `Abort` |

The two modules overlap on purpose: Matching shows what happens when proposals
are atomic and everything else is not, ProposeLocks what happens inside a
proposal. They share the definitions of an active match and of the pool in
meaning, not by EXTENDS, because the tables are projected differently.

### Deposits (with MCDeposits, DepositsProofs)

The deposit of a paid-tier registration. State: the table `pay` (payment intent,
link to the registration, status), `reg` and `match` as far as deposits depend on
them, the row locks `rowLock` and `payLock`, what each process is doing (`frame`:
the step it is at and the payments it has looked up), and Stripe's side: `charge`,
`byApp` (refunds made under the app's idempotency key), `event` (events still to
be delivered). `early` is a history variable.

| code | actions |
|---|---|
| `register_confirm` of the free tier | `ConfirmFree` |
| `register_payment_start`, `create_checkout_session` | `StartCheckout` |
| `register_payment_return` | `ReturnView`, then `FinalizeLock`, `FinalizeCommit` |
| `stripe_webhook`, `handle_checkout_completed` | `WebhookCompleted`, then `FinalizeLock`, `FinalizeCommit`; `WebhookUnknown` |
| `finalize_paid_registration`: the lock and the lookup; record, confirm, commit | `FinalizeLock`; `FinalizeCommit` |
| `record_acceptance`: the lookups; `capture` under the payments' locks | `AcceptRead`; `AcceptCommit` |
| `report_no_show` with `forfeit` | `ReportNoShow` |
| `close_season`: the list; one payment; `refund` after Stripe's answer | `CloseSeason`; `SeasonNext`; `RefundCommit` |
| `delete_account`: the lookup; `refund`; the deletion | `DeleteFetch`; `DeleteRefund`, `RefundCommit`; `DeleteCommit` |
| `handle_charge_refunded` of a partial refund; of a full one, with `record_payment_refunded` | `WebhookPartial`; `WebhookRefunded` |
| Stripe, its dashboard, the end of a process | `Pay`, `StaffPartial`, `StaffRefund`, `Crash` |

A partial refund is deliberately not reconciled (`src/billing/services/checkout.py`,
274-297): its event is answered and the row stays as it is. Hence `LedgerAgrees`
speaks of full refunds: REFUNDED only if all was returned, and if all was, then
REFUNDED, or the event is still to come, or it came too early. The handler of
`checkout.session.completed` never looks at `payment_status`: both Stripe models
assume, as the code does, that a session that is completed is paid.

`refund()` is split where it is dangerous: `CallStripe` takes the row's lock,
finds it HELD and moves the money; `RefundCommit` saves the row. `Crash` between
the two releases the lock and leaves HELD a deposit that was paid back.

Abstractions. A registration has one payment intent, named by it: the session is
created under the idempotency key `checkout-registration-<pk>`, and Stripe keeps
the key as long as the session can be paid (24 hours), so that a second one would
come after the first expired. Matches are none, open or accepted: how they come
and go is `Propose` and `EndOpen`, which allow whatever Matching allows. PAUSED
counts as VERIFIED (deposits do not tell them apart). The unlocked lookups of the
two deposits are one step, and so are their two captures: each row is locked while
it is captured, and the transaction is rolled back as a whole. While an acceptance
is under way its match row is locked, so that the match does not end and its
parties are not deleted.

### Enrolment (with MCEnrolment, EnrolmentProofs)

Signing up, in an abstraction where addresses, users and registrations are rows
with primary keys taken from sequences. State: `user`, `reg`, `lastPk` (the
sequences), `inbox` (the links mailed to an address that have not expired),
`session` (whom the owner of an address is signed in as), `today`, `frame` (what
each process is doing), `crashes`; `undone` is history. Anybody may submit the form
for any address; only its owner opens what is in its mailbox.

| code | actions |
|---|---|
| `register_form`, `register_or_resend_participant`: enrolled already; the UNVERIFIED row, locked; `get_or_create` of the user; the inserts; the mail on commit; `except IntegrityError` | `Submit`; `Lookup`; `Pending`; `GetUser`; `Insert`; `MailNew`; `Rescue` |
| `register_confirm`, `confirm_registration`; `finalize_paid_registration` | `OpenConfirm`, `SaveConfirmed`; `PayDeposit` |
| `login_request`, `login_verify`, `logout_view`, `account_resend_confirmation` | `RequestLogin`, `OpenLogin`, `Logout`, `Resend` |
| `account_delete`, a deletion in the admin | `Delete`, `StaffDelete` |
| expiry of tokens, days, the end of a process | `LinkExpires`, `DayPasses`, `Crash` |

`FeeFor` is `fee_chf_for`, `IsRegistrationOpen` the window. A token is its purpose
and a primary key, as in `src/accounts/tokens.py`. What follows the confirmation is
Matching: here every later status counts as VERIFIED. The user name is taken to be
the address, as `register_participant` makes it. The gaps a rolled-back transaction
leaves in the sequences are left out; that a key is never used twice is kept.

### Tips (with MCTips, TipsProofs)

State: `tip` (payment intent, link to the registration, status), `registered`,
`enabled` (the kill switch), `frame`, `crashes`, and Stripe's side `by`, `charge`,
`event`; `early` is history, as in Deposits.

| code | actions |
|---|---|
| `tip_start`, `create_tip_checkout_session`; the panel of the confirmed match page | `TipStart`; operator `ShowsTipPanel` |
| `tip_return`; `stripe_webhook`, `handle_checkout_completed` | `TipReturn`; `WebhookCompleted`, `WebhookUnknown` |
| `record_tip_paid`: the lookup, the insert, `except IntegrityError` | `Check`, `Insert`, `Refetch` |
| `handle_charge_refunded` of a partial refund; of a full one, with `record_tip_refunded` | `WebhookPartial`; `WebhookRefunded` |
| `delete_account`: `SET_NULL`, then the deletion, one transaction | `DeleteUnlink`, `DeleteCommit` |
| Stripe, its dashboard, a deployment, the end of a process | `Pay`, `StaffPartial`, `StaffRefund`, `Deploy`, `Crash` |

"Not asked again" is said of the panel on the confirmed match page, which looks for
a paid tip (`_tip_mount_context`). The page of its own, `tip_page`, asks whoever may
tip: its docstring says that nothing links to it, but
`src/templates/public/tip_cancelled.html:17` does.

## Runs: what is checked

| run | instance | checks |
|---|---|---|
| MatchingSerial | 3 ambassadors (one with a pass that admits nobody), 2 referees, one of them paid; 2 matches, re-queues from a priority below 1 and rejoins from above -1, picture of 2 and 1 slots; 1 process | when handlers do not interleave: the refinement of Pairing, the promises of the engine, and the truth of pages, picture, dry runs and mails |
| MatchingConcurrent | 1 ambassador, 1 referee, both paid; 1 match, priority as above; 2 processes | what survives every interleaving and refund, and `ConcurrentInv` |
| MatchingSweep | 1 ambassador, 1 referee, free; 1 match, priority as above; 2 processes, fairness | a match that is due is closed, with one exception |
| ProposeLocks | 2 ambassadors, 2 referees, 3 matches, 2 processes, fairness | one match per proposer, counterpart VERIFIED when the match is committed, every transaction that proposes ends |
| RaceOneActive, RaceConsent | 2 ambassadors, 1 referee; 2 processes | each one a promise that holds serially and that interleaving breaks: see the findings |
| NoShowForfeits | 1 process | the documented forfeit of a no-show never happens |
| ProposeTwice | 2 transactions in `propose_match` | the documented effect of the lock does not hold |
| Deposits | 1 free ambassador, 1 paid referee, 2 payments, 2 processes, 1 crash, fairness | one payment per intent, settled once, table and Stripe agree on full refunds, an accepted pair has nothing HELD, what is paid is recorded |
| DeleteUnsettled | as Deposits, no crash | a deposit that is recorded while its account is deleted stays HELD |
| Enrolment | 2 addresses, 2 users, 2 registrations, 2 processes, 1 crash, 3 days (free, paid, closed) | one registration per address, a working link for whoever was answered, nobody in another's account |
| Tips | 1 registration, 1 payment, 2 tips, 3 processes, 1 crash, fairness | one tip per payment, in agreement with Stripe on full refunds, recorded, and not asked for twice on the match page |

Every property of a passing run has a *mutant* in `PROJECT.json`: a plausible bug
in one definition, written beside it and marked `mutant:`, under which TLC finds
the property violated in the same run.

**Bounds.** `MatchIds` bounds the matches ever created, `MaxPriority` the
priorities that handlers start from; both are only in guards (`Propose`,
`RequeueRoom`, `RejoinRoom`, `Start`). Two matches are enough for the
interesting cases of handlers that run one after the other: a match ends, and its
party is matched anew in the same transaction or later. With two processes one match
is what TLC finishes in time: its row is stale in one process while the other
accepts, withdraws, declines, expires or revives it. That a late handler still holds
the row of a match while its party has another is what the Race runs show with two
matches, and the theorems of MatchingProofs hold for any number. A priority that a
re-queue raises from 0 to 1, or a rejoin lowers to -1, decides between candidates
before location and date are compared again; every side can be re-queued once and
rejoin once. Two processes are enough because each race is between
one stale copy and one commit. Two candidates on each side make the ranking
matter; the third ambassador is VERIFIED, counted as waiting and never matched, so
that places, counts and promises can differ. A picture of two and one slots is
overrun by three ambassadors and two matches. In Deposits two payment rows let a second one be recorded if the lock did
not prevent it, one crash can fall between Stripe's refund and the commit, and the
paid party is the one that `record_acceptance` looks up second. In Enrolment two keys of each kind let an
account be deleted and its address register again, two processes are two
submissions or a submission and a confirmation, and the day may change between the
two. In Tips payments do not interact (rows are looked up by intent), so that one
is enough; three processes are the return view, a delivery of the event and the
deletion of the account; a second primary key lets a second tip be inserted if the
constraint did not prevent it. In MatchingSweep a match that is due but whose sweep the bound on
priorities keeps out is excepted by the last disjunct of `LapsedIsSwept`. Deposits has
one paid party: the captures of both are one transaction, and with two paid parties
TLC does not finish in time. In ProposeLocks a transaction starts only while a match id is left for
it, so that no transaction fails for the bound.

`SYMMETRY` permutes processes, and in Enrolment addresses, which nothing orders;
it is used in runs of safety properties only.
`VIEW ModuloHistory` in MatchingConcurrent drops `consent`, which no action and
none of that run's properties read. `CHECK_DEADLOCK FALSE` everywhere: the
system may really stop, when all match ids are used and nobody acts.

**Fairness.** `Commit` is weakly fair: a request that has loaded its rows goes on
to its end, whatever others do, since nothing in it waits. `SweepFetch(m)` is
strongly fair: the hourly cron takes up every match that is due
(`src/render.yaml`), but a process may be busy, or the match taken by another
handler, in between. With the two processes of MatchingSweep a stale save can revive
a match whose parties were paused, or match somebody who was paused meanwhile; then
`pause()` refuses the party and the sweep rolls back, at every run until the party has
rejoined. `LapsedIsSwept` excepts that state (`Unpausable`) and no other. The instance
reaches it through the revival; the other way, `run_matching` for an ambassador paused
since it was loaded, takes a second match and leads to the same state.
Nothing is assumed of the users. In ProposeLocks the statements of a transaction
are strongly fair: Postgres queues the waiters of a row, so that a waiter is not
overtaken for ever; `Abort` is included since the deadlock detector always runs.
In Deposits the delivery of `checkout.session.completed` is strongly fair (Stripe
repeats an event until it is answered, and not every attempt finds a worker that
is free), and so is each process that has begun (locks are queued). Neither is
assumed of payers, staff, the season's end or crashes. In Tips the same two are
assumed, for the same reasons; nothing makes the payer come back.

## Proofs

Each theorem holds for every value of the constants that their assumptions admit:
any number of registrations, matches, payments, processes, crashes. Every
inductive invariant was first checked by TLC on the instance of its component's
run (and is an ordinary definition: it can be put there again).

| theorem | property | module |
|---|---|---|
| `TypeCorrect`, `StatusIsDerived`, `LogIsComplete`, `NothingLeftHeld`, `OnlyConfirmedMatched`, `HandlersRelyOn` | `TypeOK`, `StatusFollowsAcceptances`, `AuditTrail`, `NothingHeldOnceAccepted`, `MatchedAreConfirmed`, `ConcurrentInv` | MatchingProofs |
| `AtMostOneMatch`, `PartiesAreVerified`, `RevealNeedsConsent`, `TerminalStays`, `SuspensionIsFinal`, `CaptureIsConsented` | `OneActiveMatch`, `ActivePartiesVerified`, `MutualConsent`, `TerminalIsFinal`, `SuspendedStays`, `CaptureNeedsConsent` | MatchingSerialProofs |
| `PairingIsImplemented` | `ImplementsPairing` | MatchingRefinementProofs |
| `PictureTellsTheTruth`, `PagesSayTheSame`, `NobodyIsPassedOver`, `InstantPromiseKept`, `SweepIsAnnounced`; `NoMailLies`, `EverybodyIsTold` | `PictureIsTrue`, `PagesAgree`, `QueueOrderKept`, `InstantMatchIsKept`, `SweepAsAnnounced`; `MailsAreTrue`, `NobodyIsLeftUnaware` | MatchingViewsProofs |
| `LocksTypes`, `OneMatchPerProposer`, `CounterpartStaysVerified` | `TypeOK`, `ProposerOnce`, `CounterpartVerified` | ProposeLocksProofs |
| `DepositTypes`, `OneIntentOnePayment`, `LedgerIsTrue`, `AcceptedSettled`, `SettlesOnce` | `TypeOK`, `OnePaymentPerIntent`, `LedgerAgrees`, `AcceptedIsSettled`, `SettledOnce` | DepositsProofs |
| `EnrolmentTypes`, `OneForAnAddress`, `SessionsAreOwn`, `AnswersHaveALink` | `TypeOK`, `OneRegistrationPerAddress`, `SessionIsOwn`, `AnsweredWithALink` | EnrolmentProofs |
| `TipsTypes`, `TipsAreTrue` | `TypeOK`, `TipsAgree` | TipsProofs |

**Matching, handlers interleaved** (MatchingProofs). The invariant `IInv` (theorem
`Invariance`) is the five properties together with `ConcurrentInv`. A commit is
computed from a row that may be stale, so the properties alone say nothing about
what it writes. `RequestsHold` says what stays true of a row in memory: the match
still exists with the same parties; the row was active, and its status was derived
from its acceptances; an acceptance is of someone who had not accepted in that row;
the deposits of a reported match are captured or paid back, and never HELD again.
`DepositsInHand` says who has paid; it also shows that FORFEITED is unreachable.

**Matching, one handler at a time** (MatchingSerialProofs, which assumes
`OneAtATime`, a single process). `SInv` adds `SerialInv`: the rows in memory are the
rows of the table, and the stored acceptances of an active match are its parties'
last answers. The lemmas describe a handler by what it does to the tables: it ends
or changes one match, and may then propose one more. The Race runs show that the
assumption cannot be dropped: the theorems say exactly what running one handler at
a time would buy.

**The refinement** (MatchingRefinementProofs). `RInv` adds that a stored acceptance
is of a party and that who is about to decline has not accepted. Under it initial
states map to initial states, a fetch, a rollback and a lapse of time to stutters,
and each commit to one event of `Pairing`: the breaking up of a couple and the
proposal that follows it in the same transaction are one event there as here.

**Pages and mails** (MatchingViewsProofs, one handler at a time). The mails follow
from `SInv` and from what each commit writes. For the pages `VInv` adds that a
report cancels the match; for the dry run of the sweep, `SweptIsDue` that what the
sweep has fetched is due. The picture needs counting: the active matches are in
bijection with the matched registrations of each role, and those ahead of somebody
who is ahead are ahead, so that places differ. That the ranking has a best candidate
is the well-foundedness of the naturals (`LeastOf`, `BestExists`). The conditions of
the match page, its roster and the picture are IF ... ELSE IF chains, in the order of
the code's `if`/`elif`: an ACCEPTED match past its deadline is "confirmed", not
"expired". A CASE with overlapping guards would leave that open in the logic, though
TLC tries its arms in order.

**Locks** (ProposeLocksProofs). The invariant `LInv` is about what a transaction
holds: the rows it has updated; its own row from the moment it may look for a match
of its own, so that nobody else can make one for it; and, once the ranked SELECT has
returned, a candidate that stays VERIFIED because changing its status needs its
row. What the locks do not give, one match per *counterpart*, is ProposeTwice.

**Deposits** (DepositsProofs). `DInv`: what Stripe announces has happened
(`AnnouncedIsTrue`); a full refund is in the table, on its way, or came too early
(`RefundIsKnown`); a row is locked across a call of Stripe only, which has refunded
it (`LockedIsRefunded`); who has been VERIFIED in a paid tier has a payment
(`VerifiedHavePaid`); and `FramesHold`: what a process looked up under the row's
lock is still so, while the deposits an acceptance looked up without a lock can only
have stopped being HELD. The last is why `capture` settles whatever is HELD when
it gets the locks, and why a crash between refund and commit loses nothing.

**Enrolment** (EnrolmentProofs). `EInv`: sequences are ahead of the tables
(`KeysAreUsed`), so that a deleted account's keys never come back and a link leads
to the account it was mailed for or nowhere (`LinksLead`); the unique constraints
(`OneEach`); and what a submission has read or written is still there unless the
account was deleted meanwhile (`SubmissionsKnow`), which is what makes the answer
after the losing of a race true.

**Tips** (TipsProofs). `TInv`: a tip is a payment that Stripe has taken, linked as
long as its giver has a registration; a payment of a registered giver is recorded or
its event is still to come (`IntentHolds`); a process that records holds a payment
that was taken (`FrameHolds`). No lock is involved: the unique constraint is
`OneEach`.

Assumptions on the constants: the roles are disjoint (`RolesDisjoint`), creation
times differ and are naturals (`CreatedAtOrders`), keys, bounds, days and fees are
naturals (`BoundsAssumption`, `PksAssumption`, `DaysAssumption`, and two fee tiers
begin on different days), the orders of ProposeLocks are naturals
(`OrdersAssumption`), its rows of two tables differ (`RowsAssumption`), the paid tier
and the valid passes are of registrations (`PaidTierAssumption`,
`SubsetsOfRegistrations`), null values differ from rows (`NullsAssumption`), the table
of registrations is finite (`PoolAssumption`, for the places and counts) and the
columns have a slot (`GridAssumption`).

Model-checked only: liveness (`LapsedIsSwept`, `EveryCallEnds`, `PaidIsRecorded`,
`PaidTipIsRecorded`), which the prover does not reach; and `DrainAsAnnounced`, whose
dry run is a recursive function over the pool: that it returns 0 exactly
when the drain makes no match, and one less after it, needs induction over data.

## Findings

Each is a run with `expect: violation`, and an entry of `PROJECT.json` that
quotes the sentence it contradicts.

- *RaceOneActive*: ADR 0018 and the comments say the state guard
  stops the second of two handlers. The guard reads the row in memory; an accept
  loaded before a decline saves over it, and the DECLINED match comes back after
  both parties were matched anew.
- *RaceConsent*: a withdrawal that commits between the load and the save of the
  other party's acceptance is overwritten: contacts are shown, deposits captured.
- *NoShowForfeits*: deposits are captured at mutual acceptance, so that the
  forfeit of a later no-show finds none held.
- *ProposeTwice*: the row waited for by the second SELECT ... FOR UPDATE is
  matched by the holder and matched again by the waiter.
- *DeleteUnsettled*: `delete_account` finds no deposit, the webhook records one,
  the user is deleted: the row is HELD, linked to nobody, and refunded by nobody.

Observations that no run of its own records:

- With two processes `ActivePartiesVerified` and `SuspendedStays` fail as well (the
  instance of RaceConsent shows it with either put in the place of its invariant).
  `run_matching` proposes for an ambassador that was paused since it was loaded
  (`src/matching/services.py:1102`), and that match can then be neither swept nor
  declined, since `pause()` refuses a party that is not VERIFIED. Of two no-show
  reports that read the match at the same time, the second suspends the first
  reporter and brings its own, suspended side back to the pool
  (`src/matching/services.py:1334`).
- With two processes the sweep can pause, as silent, a party whose acceptance was
  committed after the sweep read the match, and two ends of one match re-queue the
  other party twice.
- `src/matching/models.py:499-502` says that `active_at` keeps the account page
  consistent with the match page. At `expires_at` itself it does not: the account page
  hides the match (`<=`), the match page still offers its buttons (`>`). `PagesAgree`
  states that this is the only instant.
- The code accepts that a `charge.refunded` that comes before the payment, or the
  tip, is recorded is dropped (`LedgerAgrees` and `TipsAgree` except it through
  `early`), that a partial refund is left to a human, and that a registration whose
  deposit was refunded stays VERIFIED, is matched and accepted.
- `src/billing/services/tips.py:160-163` says that `get()` cannot raise. An insert
  also fails when the registration was deleted meanwhile; `get()` then raises, the
  webhook answers 500, and the event, delivered again, is dropped as unknown.
- An ambassador whose `prior_pass` is empty (the field is optional in the form, the
  page offers no blank) is confirmed, counted as waiting and never matched:
  `InstantMatchIsKept` and `PictureIsTrue` are stated for valid passes.
- Enrolment's fee tiers and closing date decide which requests are possible (free or
  paid, submission or none); no property is about the amounts or the dates. That keys
  are not used again is Postgres' doing, and the mutant of `SessionIsOwn` takes it away:
  no code of the repository stands between a link and another's account but the key.
- `is_eligible_pair` is called by nothing; every pair that is proposed satisfies it.
- The dry run of `run_matching` looks at no opening date: before it, it counts
  matches that the run would not make. `DrainAsAnnounced` is stated once open.
- A signed-in party that opens the link mailed to the other one sees its own side,
  with buttons that carry the link's token and act for the other
  (`src/public/views/match.py:448-456`). The model has the two sides of a match act
  for themselves.
- A passkey challenge, and a hand-off token of staff, is used once by requests that
  do not overlap.

## What is not modelled

- *Passkeys, staff impersonation, sessions.* One visitor's or one superuser's own
  rows, with the checks done by libraries (WebAuthn, signing, Django's sessions);
  whom a session belongs to is modelled in Enrolment.
- *Staff edits in the admin* of a registration's status or pass, and of matches: any
  value may be set there, past every guard, so that nothing could be promised.
- *Deletion of an account in the middle of a match* is in Deposits, with matches
  reduced, not in Matching.
- *Data.* Names, phones, languages, nationalities, locations beyond equality, amounts
  and messages of tips, survey answers, marketing and geolocation, rate limits;
  analytics events; which side declined.
- *Pages, forms, content, sitemaps, the read-only staff endpoint, debug tools, seed
  commands, deployment scripts, browser tests*: they change no state of these
  protocols.

Stripe, Postgres and the mail provider are external; of Postgres, READ COMMITTED
snapshots, row locks and the deadlock detector are modelled in ProposeLocks, unique
constraints, foreign keys and sequences in Enrolment and Tips.

## Plan

What is modelled is what the code has of protocol, and every property of the runs
is proved but those under "Model-checked only". Of those, the drain
half of the dry runs could be brought within reach by unfolding it once: that the
first pair that it counts is the one the drain proposes is a statement without
recursion.
