----------------------------- MODULE MCTenants -----------------------------
(* A small instance of the parts of Services about what Organizations keep. *)
EXTENDS Services, TLC

CONSTANTS x1, x2, x3, y1, y2, z1, z2, r1, r2

Three == {x1, x2, x3}
Two == {y1, y2}
OtherTwo == {z1, z2}
TwoRequests == {r1, r2}

ASSUME ServicesConstants

\* Organizations, connections, tokens, addresses, Business Scopes, names and
\* requests are interchangeable.
Symmetry ==
  Permutations(Three) \cup Permutations(Two) \cup Permutations(OtherTwo)
    \cup Permutations(TwoRequests)
===========================================================================
