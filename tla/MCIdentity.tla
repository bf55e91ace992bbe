----------------------------- MODULE MCIdentity -----------------------------
(* A small instance of the parts of Services about sessions and logins. *)
EXTENDS Services, TLC

CONSTANTS s1, s2, t1, t2, t3, r1, r2

TwoSessions == {s1, s2}
ThreeTokens == {t1, t2, t3}
TwoRequests == {r1, r2}

ASSUME ServicesConstants

\* Sessions (accounts, tabs), tokens (failures, the sessions of a browser) and
\* requests (calls) are interchangeable.
Symmetry == Permutations(TwoSessions) \cup Permutations(ThreeTokens)
              \cup Permutations(TwoRequests)
=============================================================================
