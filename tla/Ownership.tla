----------------------------- MODULE Ownership -----------------------------
(***************************************************************************)
(* What a transfer of ownership promises (FR-089, schema.prisma 367-370):  *)
(* an Organization has one owner; ownership passes only to the member it   *)
(* was offered to, only while the offer stands and only if the one who     *)
(* made it owns the Organization at that moment.  Nothing is promised      *)
(* about who makes an offer: the code lets an owner whose request was      *)
(* admitted before he lost the Organization make one too late.             *)
(***************************************************************************)
CONSTANTS Member, NoOffer

VARIABLES owner, offer

vars == <<owner, offer>>

TypeOK ==
  /\ owner \in Member
  /\ offer \in [by : Member, to : Member] \cup {NoOffer}

Init == owner \in Member /\ offer = NoOffer

Make ==
  /\ offer = NoOffer
  /\ offer' \in [by : Member, to : Member]
  /\ UNCHANGED owner

\* Only the owner withdraws, and only an offer of his own.
Withdraw ==
  /\ offer # NoOffer /\ offer.by = owner
  /\ offer' = NoOffer
  /\ UNCHANGED owner

HandOver ==
  /\ offer # NoOffer /\ offer.by = owner
  /\ owner' = offer.to
  /\ offer' = NoOffer

Next == Make \/ Withdraw \/ HandOver

Spec == Init /\ [][Next]_vars
===========================================================================
