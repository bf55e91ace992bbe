---------------------------- MODULE MCStructure ----------------------------
(* Small instances of Structure for TLC. *)
EXTENDS Structure, TLC

CONSTANTS c1, s1, s2, n1, n2, r1, r2

OneCompany == {c1}
OneScope == {s1}
TwoScopes == {s1, s2}
TwoNames == {n1, n2}
OneName == {n1}
TwoRequests == {r1, r2}

Symmetry == Permutations(TwoScopes)
              \cup Permutations(TwoNames) \cup Permutations(TwoRequests)
===========================================================================
