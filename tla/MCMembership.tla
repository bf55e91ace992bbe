--------------------------- MODULE MCMembership ---------------------------
(* Small instances of Membership for TLC. *)
EXTENDS Membership, TLC

CONSTANTS m1, m2, r1, r2, p1, p2

TwoMembers == {m1, m2}
TwoRequests == {r1, r2}
OneProposal == {p1}
TwoProposals == {p1, p2}

\* Members, requests and proposals are interchangeable.
Symmetry == Permutations(TwoMembers) \cup Permutations(TwoRequests)
              \cup Permutations(TwoProposals)

\* What a run lets clients call.
EveryOperation == AllOperations
NoInvitations == AllOperations \ {"join"}
===========================================================================
