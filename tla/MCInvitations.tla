--------------------------- MODULE MCInvitations ---------------------------
(* A small instance of Invitations for TLC. *)
EXTENDS Invitations, TLC

CONSTANTS o1, o2, e1, t1, t2, t3, r1, r2

TwoOrgs == {o1, o2}
OneEmail == {e1}
TwoTokens == {t1, t2}
ThreeTokens == {t1, t2, t3}
TwoRequests == {r1, r2}
Nobody == {}

\* Organizations, tokens and requests are interchangeable.
Symmetry == Permutations(TwoOrgs)
              \cup Permutations(ThreeTokens) \cup Permutations(TwoRequests)
===========================================================================
