-------------------------- MODULE MCOrganizations --------------------------
(* A small instance of Organizations for TLC. *)
EXTENDS Organizations, TLC

CONSTANTS o1, o2, n1, e1, e2, r1, r2

TwoOrgs == {o1, o2}
OneName == {n1}
TwoEmails == {e1, e2}
TwoRequests == {r1, r2}
Demo == {"DEMO"}

Symmetry == Permutations(TwoOrgs) \cup Permutations(TwoEmails)
              \cup Permutations(TwoRequests)
===========================================================================
