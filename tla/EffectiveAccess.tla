--------------------------- MODULE EffectiveAccess ---------------------------
(***************************************************************************)
(* What a User may see and change by the scope grants of the membership    *)
(* (effective-access.service.ts), and which grants of an invitation are    *)
(* still live (filterLiveGrants).  A grant names a Company, a Business     *)
(* Scope, or both (membership_scope_grants_target_check).                  *)
(***************************************************************************)
CONSTANTS Company, Scope, Nothing

ASSUME NothingIsNoTarget == Nothing \notin Company \cup Scope

Grant ==
  [company : Company \cup {Nothing}, scope : Scope \cup {Nothing}]
    \ {[company |-> Nothing, scope |-> Nothing]}

GrantedCompanies(grants) == {g.company : g \in grants} \ {Nothing}
GrantedScopes(grants) == {g.scope : g \in grants} \ {Nothing}

\* companyOf gives the Company of each existing Business Scope.
VisibleCompanyIds(grants, companyOf) ==
  GrantedCompanies(grants)
    \cup {companyOf[s] : s \in GrantedScopes(grants) \cap DOMAIN companyOf}

VisibleBusinessScopeIds(grants, companyOf) ==
  GrantedScopes(grants)
    \cup {s \in DOMAIN companyOf : companyOf[s] \in GrantedCompanies(grants)}

HasDirectCompanyGrant(grants, c) == c \in GrantedCompanies(grants)

\* A grant of both is kept, whole, while either is live.
FilterLiveGrants(grants, companies, scopes) ==
  {g \in grants : g.company \in companies \/ g.scope \in scopes}
=============================================================================
