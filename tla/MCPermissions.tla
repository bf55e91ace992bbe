--------------------------- MODULE MCPermissions ---------------------------
(* A small instance of Permissions for TLC. *)
EXTENDS Permissions, TLC

CONSTANTS c1, s1, k1, r1, r2

OneCompany == {c1}
OneScope == {s1}
OneCapability == {k1}
TwoRequests == {r1, r2}

\* A grant of two targets with a capability, or a grant of each target without:
\* one to the other reduces what the member may do, either way.
Both == [company |-> c1, scope |-> s1]
CompanyOnly == [company |-> c1, scope |-> Nothing]
ScopeOnly == [company |-> Nothing, scope |-> s1]
SomePermissions ==
  {[capabilities |-> {k1}, grants |-> {Both}],
   [capabilities |-> {}, grants |-> {CompanyOnly, ScopeOnly}]}

Symmetry == Permutations(TwoRequests)
===========================================================================
