-------------------------------- MODULE Pairing --------------------------------
(***************************************************************************)
(* What the matching service promises, without tables, rows in memory,     *)
(* ranking or mails: who stands where, who is paired with whom, and who    *)
(* has said yes.  Each action is one thing a participant, staff or a cron  *)
(* may see happen.  MatchingRefinement shows that Matching implements it   *)
(* when handlers run one after the other.                                  *)
(***************************************************************************)
CONSTANTS
  Ambassadors,
  Referees,
  ValidPass,  \* those a pairing may be proposed to
  PaidTier    \* those who pay a deposit before they are let in

People == Ambassadors \cup Referees

VARIABLES
  standing,  \* [People -> where the registration stands]
  pairs,     \* the couples matched at present: a partial matching
  yes,       \* the people in a couple who have said yes
  paid,      \* those whose deposit has been received
  opened     \* matching has opened

pvars == <<standing, pairs, yes, paid, opened>>

Standing == {"UNVERIFIED", "VERIFIED", "PAUSED", "SUSPENDED"}

InPair(ps, r) == \E pair \in ps : r \in {pair[1], pair[2]}
Couple(r, s) == IF r \in Ambassadors THEN <<r, s>> ELSE <<s, r>>
Agreed(pair) == {pair[1], pair[2]} \subseteq yes

(* r, who stands VERIFIED in st and is in no couple of ps, may be paired at
   once with somebody who waits: VERIFIED, alone, admissible, of the other
   role.  Whether somebody is there, and who comes first, is not promised
   here. *)
MayPair(r, st, ps) ==
  \/ pairs' = ps
  \/ /\ opened
     /\ r \in ValidPass
     /\ \E s \in ValidPass :
          /\ (r \in Ambassadors) # (s \in Ambassadors)
          /\ st[s] = "VERIFIED" /\ ~InPair(ps, s) /\ ~InPair(ps, r)
          /\ pairs' = ps \cup {Couple(r, s)}

Enter(r, st) == standing' = st /\ MayPair(r, st, pairs) /\ UNCHANGED <<yes, opened>>

Join(r) ==
  /\ standing[r] = "UNVERIFIED" /\ r \notin PaidTier
  /\ Enter(r, [standing EXCEPT ![r] = "VERIFIED"])
  /\ UNCHANGED paid

Pay(r) ==
  /\ standing[r] = "UNVERIFIED" /\ r \in PaidTier \ paid
  /\ paid' = paid \cup {r}
  /\ Enter(r, [standing EXCEPT ![r] = "VERIFIED"])

Rejoin(r) ==
  /\ standing[r] = "PAUSED" /\ ~InPair(pairs, r)
  /\ Enter(r, [standing EXCEPT ![r] = "VERIFIED"])
  /\ UNCHANGED paid

Drain(r) ==
  /\ standing[r] = "VERIFIED"
  /\ Enter(r, standing)
  /\ UNCHANGED paid

SayYes(r) ==
  /\ InPair(pairs, r) /\ r \notin yes
  /\ yes' = yes \cup {r}
  /\ UNCHANGED <<standing, pairs, paid, opened>>

TakeBack(pair, r) ==
  /\ pair \in pairs /\ r \in {pair[1], pair[2]} \cap yes
  /\ ~Agreed(pair)
  /\ yes' = yes \ {r}
  /\ UNCHANGED <<standing, pairs, paid, opened>>

(* A couple breaks up: those in out leave with the standing given, and the one
   who kept faith, if any, waits again and may be paired at once. *)
BreakUp(pair, out, status) ==
  LET people == {pair[1], pair[2]}
      st == [r \in People |-> IF r \in out THEN status ELSE standing[r]]
  IN  /\ pair \in pairs
      /\ standing' = st
      /\ yes' = yes \ people
      /\ \/ pairs' = pairs \ {pair}
         \/ \E r \in people \ out : MayPair(r, st, pairs \ {pair})
      /\ UNCHANGED <<paid, opened>>

Refuse(pair, r) ==
  ~Agreed(pair) /\ r \in {pair[1], pair[2]} \ yes /\ BreakUp(pair, {r}, "PAUSED")
Lapse(pair) == ~Agreed(pair) /\ BreakUp(pair, {pair[1], pair[2]} \ yes, "PAUSED")
Accuse(pair, r) ==
  Agreed(pair) /\ r \in {pair[1], pair[2]} /\ BreakUp(pair, {r}, "SUSPENDED")

Open == ~opened /\ opened' = TRUE /\ UNCHANGED <<standing, pairs, yes, paid>>

PInit ==
  /\ standing = [r \in People |-> "UNVERIFIED"]
  /\ pairs = {} /\ yes = {} /\ paid = {} /\ opened = FALSE

PNext ==
  \/ \E r \in People : Join(r) \/ Pay(r) \/ Rejoin(r) \/ Drain(r) \/ SayYes(r)
  \/ \E pair \in pairs :
       \/ \E r \in People : TakeBack(pair, r) \/ Refuse(pair, r) \/ Accuse(pair, r)
       \/ Lapse(pair)
  \/ Open

PSpec == PInit /\ [][PNext]_pvars

=============================================================================
