------------------------------ MODULE Structure ------------------------------
(***************************************************************************)
(* The Companies and Business Scopes of one Organization, changed by its   *)
(* Administrators and by a User within the scope grants of the membership  *)
(* (apps/api/src/organization-admin).                                      *)
(*                                                                         *)
(* A request is one transaction at READ COMMITTED: each statement sees     *)
(* what is committed when it runs.  The reads of a check are one step, the *)
(* write is one step with COMMIT; between the two, others commit.  No read *)
(* takes a lock.  INSERT of a Business Scope takes a KEY SHARE lock on its *)
(* Company, which an UPDATE of the Company's status does not conflict      *)
(* with.  A name stands for the unique key: a Company's normalized name, a *)
(* Business Scope's type and normalized name.                              *)
(***************************************************************************)
EXTENDS EffectiveAccess, Naturals, FiniteSets

CONSTANTS
  Name, Request,
  MaxGrants  \* bound: how many grants the User may have at a time

\* Of the constants.
MaxGrantsIsNatural == MaxGrants \in Nat

VARIABLES
  company,  \* companies
  scope,    \* business_scopes
  grants,   \* membership_scope_grants of the User
  pc, job

rows == <<company, scope, grants>>
vars == <<company, scope, grants, pc, job>>

Actor == {"ADMINISTRATOR", "USER"}
Status == {"NONE", "ACTIVE", "INACTIVE"}
Operation ==
  {"none", "createCompany", "update", "deactivate", "create", "deactivateScope"}
Label == {"idle", "check", "scopes", "write"}
\* "granted" only serves a property: the grants that the check found.
Job ==
  [op : Operation, actor : Actor, company : Company \cup {Nothing},
   scope : Scope \cup {Nothing}, name : Name \cup {Nothing},
   granted : SUBSET Grant]

NoJob == [op |-> "none", actor |-> "ADMINISTRATOR", company |-> Nothing,
          scope |-> Nothing, name |-> Nothing, granted |-> {}]

Companies == {c \in Company : company[c].status # "NONE"}
Scopes == {s \in Scope : scope[s].status # "NONE"}
CompanyOf == [s \in Scopes |-> scope[s].company]
ActiveScopes(c) ==
  {s \in Scopes : scope[s].company = c /\ scope[s].status = "ACTIVE"}
At(r, ops, label) == pc[r] = label /\ job[r].op \in ops

Init ==
  /\ company = [c \in Company |-> [status |-> "NONE", name |-> Nothing]]
  /\ scope = [s \in Scope |-> [status |-> "NONE", name |-> Nothing,
                               company |-> Nothing]]
  /\ grants = {}
  /\ pc = [r \in Request |-> "idle"]
  /\ job = [r \in Request |-> NoJob]

---------------------------------------------------------------------------
Admit(r, j) ==
  /\ pc[r] = "idle"
  /\ pc' = [pc EXCEPT ![r] = "check"]
  /\ job' = [job EXCEPT ![r] = j]
  /\ UNCHANGED rows

\* Creating a Company asks for no grant.  The other requests may name any id,
\* also of a row that is not there.
Arrive(r) ==
  \/ \E n \in Name :
       Admit(r, [NoJob EXCEPT !.op = "createCompany", !.name = n])
  \/ \E a \in Actor :
    \/ \E c \in Company, n \in Name, o \in {"update", "create"} :
         Admit(r, [NoJob EXCEPT !.op = o, !.actor = a, !.company = c, !.name = n])
    \/ \E c \in Company :
         Admit(r, [NoJob EXCEPT !.op = "deactivate", !.actor = a, !.company = c])
    \/ \E s \in Scope :
         Admit(r, [NoJob EXCEPT !.op = "deactivateScope", !.actor = a, !.scope = s])

Answer(r) ==
  /\ pc' = [pc EXCEPT ![r] = "idle"]
  /\ job' = [job EXCEPT ![r] = NoJob]
Refuse(r) == Answer(r) /\ UNCHANGED rows

\* The check passed; the request goes on with what it found.
Passed(r, label) ==
  /\ pc' = [pc EXCEPT ![r] = label]
  /\ job' = [job EXCEPT ![r].granted = IF job[r].actor = "USER" THEN grants ELSE {}]
  /\ UNCHANGED rows

MayChangeCompany(r) ==
  job[r].actor = "USER" => HasDirectCompanyGrant(grants, job[r].company)
MayChangeScope(r) ==
  job[r].actor = "USER"
    => job[r].scope \in VisibleBusinessScopeIds(grants, CompanyOf)

\* The unique indexes, and the reads that ask for the same before the write.
CompanyNameTaken(n, but) ==
  \E c \in Companies \ {but} : company[c].name = n
ScopeNameTaken(n, c) ==
  \E s \in Scopes : scope[s].company = c /\ scope[s].name = n

---------------------------------------------------------------------------
(* CompaniesService *)

CreateCompanyCheck(r) ==
  /\ At(r, {"createCompany"}, "check")
  /\ \/ CompanyNameTaken(job[r].name, Nothing) /\ Refuse(r)
     \/ ~CompanyNameTaken(job[r].name, Nothing) /\ Passed(r, "write")

CreateCompany(r) ==
  /\ At(r, {"createCompany"}, "write")
  /\ \/ CompanyNameTaken(job[r].name, Nothing) /\ Refuse(r)
     \/ /\ ~CompanyNameTaken(job[r].name, Nothing)
        /\ \E c \in Company \ Companies :
             company' = [company EXCEPT ![c] =
                           [status |-> "ACTIVE", name |-> job[r].name]]
        /\ Answer(r) /\ UNCHANGED <<scope, grants>>

UpdateCheck(r) ==
  LET ok == /\ MayChangeCompany(r)
            /\ job[r].company \in Companies
            /\ ~CompanyNameTaken(job[r].name, job[r].company) IN
  /\ At(r, {"update"}, "check")
  /\ \/ ~ok /\ Refuse(r)
     \/ ok /\ Passed(r, "write")

Update(r) ==
  LET taken == CompanyNameTaken(job[r].name, job[r].company) IN
  /\ At(r, {"update"}, "write")
  /\ \/ taken /\ Refuse(r)
     \/ /\ ~taken
        /\ company' = [company EXCEPT ![job[r].company].name = job[r].name]
        /\ Answer(r) /\ UNCHANGED <<scope, grants>>

\* Mutant: a Company that is merely visible may be deactivated.
DeactivateCheckVisible(r) ==
  LET ok == /\ job[r].actor = "USER" =>
                 job[r].company \in VisibleCompanyIds(grants, CompanyOf)
            /\ company[job[r].company].status = "ACTIVE" IN
  /\ At(r, {"deactivate"}, "check")
  /\ \/ ~ok /\ Refuse(r)
     \/ ok /\ Passed(r, "scopes")

\* An inactive Company is answered as it is.
DeactivateCheck(r) ==
  LET ok == MayChangeCompany(r) /\ company[job[r].company].status = "ACTIVE" IN
  /\ At(r, {"deactivate"}, "check")
  /\ \/ ~ok /\ Refuse(r)
     \/ ok /\ Passed(r, "scopes")

DeactivateScopes(r) ==
  LET blocking == ActiveScopes(job[r].company) IN
  /\ At(r, {"deactivate"}, "scopes")
  /\ \/ blocking # {} /\ Refuse(r)
     \/ /\ blocking = {}
        /\ pc' = [pc EXCEPT ![r] = "write"] /\ UNCHANGED <<rows, job>>

Deactivate(r) ==
  /\ At(r, {"deactivate"}, "write")
  /\ company' = [company EXCEPT ![job[r].company].status = "INACTIVE"]
  /\ Answer(r) /\ UNCHANGED <<scope, grants>>

---------------------------------------------------------------------------
(* BusinessScopesService *)

CreateCheck(r) ==
  LET ok == /\ MayChangeCompany(r)
            /\ company[job[r].company].status = "ACTIVE"
            /\ ~ScopeNameTaken(job[r].name, job[r].company) IN
  /\ At(r, {"create"}, "check")
  /\ \/ ~ok /\ Refuse(r)
     \/ ok /\ Passed(r, "write")

\* Mutant: no unique index on the name of Business Scopes.
CreateAnyway(r) ==
  /\ At(r, {"create"}, "write")
  /\ \E s \in Scope \ Scopes :
       scope' = [scope EXCEPT ![s] =
                   [status |-> "ACTIVE", name |-> job[r].name,
                    company |-> job[r].company]]
  /\ Answer(r) /\ UNCHANGED <<company, grants>>

Create(r) ==
  LET taken == ScopeNameTaken(job[r].name, job[r].company) IN
  /\ At(r, {"create"}, "write")
  /\ \/ taken /\ Refuse(r)
     \/ /\ ~taken
        /\ \E s \in Scope \ Scopes :
             scope' = [scope EXCEPT ![s] =
                         [status |-> "ACTIVE", name |-> job[r].name,
                          company |-> job[r].company]]
        /\ Answer(r) /\ UNCHANGED <<company, grants>>

DeactivateScopeCheck(r) ==
  LET ok == MayChangeScope(r) /\ scope[job[r].scope].status = "ACTIVE" IN
  /\ At(r, {"deactivateScope"}, "check")
  /\ \/ ~ok /\ Refuse(r)
     \/ ok /\ Passed(r, "write")

DeactivateScope(r) ==
  /\ At(r, {"deactivateScope"}, "write")
  /\ scope' = [scope EXCEPT ![job[r].scope].status = "INACTIVE"]
  /\ Answer(r) /\ UNCHANGED <<company, grants>>

---------------------------------------------------------------------------
\* Module Permissions: an Administrator replaces the User's grants by grants
\* on rows of this Organization (assertGrantsBelongToOrg).
ReplaceGrants ==
  /\ \E g \in SUBSET {h \in Grant : /\ h.company \in Companies \cup {Nothing}
                                    /\ h.scope \in Scopes \cup {Nothing}} :
       Cardinality(g) <= MaxGrants /\ grants' = g
  /\ UNCHANGED <<company, scope, pc, job>>

\* The transaction is lost.
Lose(r) == pc[r] # "idle" /\ Refuse(r)

Serve(r) ==
  \/ CreateCompanyCheck(r) \/ CreateCompany(r) \/ UpdateCheck(r) \/ Update(r)
  \/ DeactivateCheck(r) \/ DeactivateScopes(r) \/ Deactivate(r)
  \/ CreateCheck(r) \/ Create(r) \/ DeactivateScopeCheck(r) \/ DeactivateScope(r)

Next ==
  \/ \E r \in Request : Arrive(r) \/ Serve(r) \/ Lose(r)
  \/ ReplaceGrants

Spec == Init /\ [][Next]_vars

---------------------------------------------------------------------------
(* Properties *)

\* The types, and names: "two concurrent identical scope creations produce
\* exactly one scope" (companies-and-scopes.test.ts 53), and so for Companies,
\* also when one is renamed while another is created.
TypeOK ==
  /\ company \in [Company -> [status : Status, name : Name \cup {Nothing}]]
  /\ scope \in [Scope -> [status : Status, name : Name \cup {Nothing},
                          company : Company \cup {Nothing}]]
  /\ \A s \in Scopes : scope[s].company \in Companies
  /\ \A c, d \in Companies : company[c].name = company[d].name => c = d
  /\ \A s, t \in Scopes :
       scope[s].company = scope[t].company /\ scope[s].name = scope[t].name
         => s = t
  /\ grants \subseteq Grant
  /\ pc \in [Request -> Label]
  /\ job \in [Request -> Job]

\* FR-116 for writes: a User changes a Company, or adds a Business Scope to
\* it, only with a grant on that very Company, and a Business Scope with one
\* on it or its Company: a grant on a Business Scope gives no power over its
\* Company or its siblings.
UserWrite ==
  \A c \in Company, s \in Scope :
    /\ company'[c] # company[c] /\ company[c].status # "NONE" =>
         \E r \in Request :
           /\ pc[r] = "write" /\ job[r].company = c
           /\ job[r].actor = "USER" => \E g \in job[r].granted : g.company = c
    /\ scope'[s] # scope[s] =>
         \E r \in Request :
           /\ pc[r] = "write"
           /\ job[r].actor = "USER" =>
                \E g \in job[r].granted :
                  \/ g.company = scope'[s].company
                  \/ g.scope = s
UserWritesWithinGrants == [][UserWrite]_vars

\* "a Company with an active Business Scope cannot be deactivated"
\* (companies-and-scopes.test.ts 77, companies.service.ts 134-136), nor is an
\* active Business Scope created in an inactive Company.
NoActiveScopeInInactiveCompany ==
  \A c \in Companies : company[c].status = "INACTIVE" => ActiveScopes(c) = {}
=============================================================================
