---------------------------- MODULE MatchingNotices ----------------------------
(***************************************************************************)
(* The e-mails of matching/side_effects.py.  Each handler there is bound   *)
(* to one transition and runs when its transaction commits (a transaction  *)
(* that is rolled back sends nothing); it derives its recipient and its    *)
(* wording from the match in memory.  Here the mails of a step are sets    *)
(* computed from the request that commits.  Delivery (core/emails.py, a    *)
(* thread and an SMTP server) is external: a mail is what is handed over.  *)
(***************************************************************************)
EXTENDS Matching

(* The render helpers: one kind of message each, to one recipient.  The link
   in a message is about that match and that recipient alone. *)
Mail(kind, to, m) == [kind |-> kind, to |-> to, match |-> m]

NewMatches == {m \in MatchIds : match[m] = NoMatch /\ match'[m] # NoMatch}

\* mutant: only the ambassador is told of a proposal
ProposalMailsToAmbassador ==
  {Mail("match_proposed", match'[m].amb, m) : m \in NewMatches}
(* propose_match returned a match: a mail to each side. *)
ProposalMails ==
  {Mail("match_proposed", match'[m].amb, m) : m \in NewMatches}
    \cup {Mail("match_proposed", match'[m].ref, m) : m \in NewMatches}

\* mutant: the nudge goes to the party that has just accepted
AcceptMailsToAccepter(q) ==
  LET status == DerivedStatus(q.row, q.row.accepted \cup {q.who})
  IN  CASE status = "PENDING" -> {Mail("partner_accepted", q.who, q.id)}
        [] status = "ACCEPTED" ->
             {Mail("match_confirmed", r, q.id) : r \in Parties(q.row)}
        [] OTHER -> {}
(* The three handlers of record_acceptance: all run, each guards on the
   status in memory. *)
AcceptMails(q) ==
  LET status == DerivedStatus(q.row, q.row.accepted \cup {q.who})
  IN  CASE status = "PENDING" ->
             {Mail("partner_accepted", OtherParty(q.row, q.who), q.id)}
        [] status = "ACCEPTED" ->
             {Mail("match_confirmed", r, q.id) : r \in Parties(q.row)}
        [] OTHER -> {}

(* record_decline: the side opposite declined_by. *)
DeclineMails(q) == {Mail("requeued", OtherParty(q.row, q.who), q.id)}

\* mutant: whoever was silent is told of the re-queue, and the other way round
ExpiryMailsSwapped(q) ==
  {Mail(IF r \in q.row.accepted THEN "window_expired" ELSE "requeued", r, q.id) :
     r \in Parties(q.row)}
(* expire_match: each side from its own *_accepted_at. *)
ExpiryMails(q) ==
  {Mail(IF r \in q.row.accepted THEN "requeued" ELSE "window_expired", r, q.id) :
     r \in Parties(q.row)}

(* report_no_show: the accused and the reporter. *)
ReportMails(q) ==
  {Mail("no_show", OtherParty(q.row, q.who), q.id), Mail("requeued", q.who, q.id)}

(* send_templated_email registers delivery with on_commit: the mails of the
   transaction that process p commits in this step. *)
Mails(p) ==
  LET q == req[p]
  IN  ProposalMails \cup
      CASE CommitAccept(p)  -> AcceptMails(q)
        [] CommitDecline(p) -> DeclineMails(q)
        [] CommitExpire(p)  -> ExpiryMails(q)
        [] CommitReport(p)  -> ReportMails(q)
        [] OTHER            -> {}

-----------------------------------------------------------------------------
(* What a mail tells its recipient, in the state its transaction leaves. *)
Truthful(mail) ==
  LET row == match'[mail.match]
      standing == reg'[mail.to].status
  IN  /\ mail.to \in Parties(row)
      /\ CASE mail.kind = "match_proposed"   -> row.status = "PROPOSED"
           [] mail.kind = "partner_accepted" ->
                row.status = "PENDING" /\ mail.to \notin row.accepted
           [] mail.kind = "match_confirmed"  -> row.status = "ACCEPTED"
           [] mail.kind = "requeued"         ->
                ~IsActive(row) /\ standing = "VERIFIED"
           [] mail.kind = "window_expired"   ->
                row.status = "EXPIRED" /\ standing = "PAUSED"
           [] mail.kind = "no_show"          ->
                row.status = "CANCELLED" /\ standing = "SUSPENDED"

(* Handlers one after the other: every mail of matching/side_effects.py is true
   of the state that the transaction it announces has left, though the handler
   reads the match in memory: nobody is told of a re-queue and finds the
   registration paused, or gets contacts of a match that is not accepted. *)
MailsAreTrue ==
  [][\A p \in Procs : \A mail \in Mails(p) : Truthful(mail)]_vars

(* Handlers one after the other: nobody is left to find out alone.  Whoever is
   paused, suspended or re-queued by a step that another party or a cron took,
   and the other party of a match that ends, gets a mail in that step; both
   parties get one when a match is proposed or becomes mutual. *)
NobodyIsLeftUnaware ==
  [][\A p \in Procs, r \in Registrations :
       LET mails == {n \in Mails(p) : n.to = r}
           told(m) == \E n \in mails : n.match = m
           byOther == req[p] # Idle /\ (req[p].op = "expire" \/ req[p].who # r)
       IN  /\ byOther /\ reg'[r] # reg[r] => mails # {}
           /\ \A m \in MatchIds : match'[m] # match[m] /\ r \in Parties(match'[m]) =>
                /\ match[m] = NoMatch => told(m)
                /\ match'[m].status = "ACCEPTED" => told(m)
                /\ byOther /\ ~IsActive(match'[m]) => told(m)]_vars

=============================================================================
