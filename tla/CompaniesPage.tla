---------------------------- MODULE CompaniesPage ----------------------------
(***************************************************************************)
(* The Companies and Business Scopes of an Organization as one of its      *)
(* Administrators sees and changes them, and the wizard that adds a        *)
(* Business Scope (apps/web/src/app/org/companies/page.tsx).               *)
(*                                                                         *)
(* Business Scopes are listed per Company and kept; expanding a Company    *)
(* again does not list them again.  A wizard that is left keeps awaiting;  *)
(* the answer to its creation then closes the wizard that is open by then. *)
(* The API is as in Structure, each request in one step.                   *)
(***************************************************************************)
EXTENDS PageRequests, Naturals, FiniteSets

CONSTANTS
  Company, Scope,
  Key,       \* the unique key of a Business Scope: its type and its name
  MaxChange  \* bound: how many changes are ever made

\* Of the constants.
NothingIsNothing == Nothing \notin Company \cup Scope \cup Key \cup Flow
ViewsAreListed == View = {"companies"} \cup Company
ChangesAreCounted == MaxChange \in Nat

VARIABLES
  company, scope,  \* companies and business_scopes
  changes,         \* made so far
  companies, scopesByCompany, expanded, selectedScope, loading,
  wizardCompany,   \* these and the last: state of CompaniesPage
  wizard           \* of CreateScopeWizard: its step, the key entered, the
                   \* notice, and the flows that it is checking and submitting

rows == <<company, scope, changes>>
lists == <<companies, scopesByCompany, expanded, selectedScope, loading>>
vars == <<requests, rows, lists, wizardCompany, wizard>>

Status == {"NONE", "ACTIVE", "INACTIVE"}
NoScope == [status |-> "NONE", company |-> Nothing, key |-> Nothing]
Companies == {c \in Company : company[c] # "NONE"}
ScopesOf(c) == {s \in Scope : scope[s].status # "NONE" /\ scope[s].company = c}
KeyTaken(c, k) == \E s \in ScopesOf(c) : scope[s].key = k

Call == [op : {"companies", "scopes", "createCompany", "deactivateCompany",
               "deactivateScope", "check", "create"},
         company : Company \cup {Nothing}, scope : Scope \cup {Nothing},
         key : Key \cup {Nothing}, after : {"none", "created", "deactivated"}]
NoCall == [op |-> "companies", company |-> Nothing, scope |-> Nothing,
           key |-> Nothing, after |-> "none"]
ScopesCall(c, after) ==
  [NoCall EXCEPT !.op = "scopes", !.company = c, !.after = after]

NoWizard == [step |-> 0, key |-> Nothing, duplicate |-> FALSE,
             checking |-> Nothing, submitting |-> Nothing]
FirstStep == [NoWizard EXCEPT !.step = 1]
WizardShown == wizardCompany \in DOMAIN companies

\* The Business Scope whose details are shown.
Holder == {c \in Company : /\ scopesByCompany[c] # Nothing
                           /\ selectedScope \in DOMAIN scopesByCompany[c]}

\* The page is opened with what there is of Companies.
Init ==
  /\ company \in [Company -> {"NONE", "ACTIVE"}]
  /\ scope = [s \in Scope |-> NoScope]
  /\ changes = 0
  /\ companies = <<>> /\ scopesByCompany = [c \in Company |-> Nothing]
  /\ expanded = Nothing /\ selectedScope = Nothing /\ loading = TRUE
  /\ wizardCompany = Nothing /\ wizard = NoWizard
  /\ \E f \in Flow :
       flow = [g \in Flow |->
         IF g = f THEN Asked(NoCall, {"companies"}, {}) ELSE NoFlow]
  /\ unseen = {} /\ excused = {}

---------------------------------------------------------------------------
(* The list of Companies *)

\* A Company's row is there.
Clickable(c) == ~WizardShown /\ ~loading /\ c \in DOMAIN companies
Open(c) == Clickable(c) /\ expanded = c /\ companies[c] = "ACTIVE"

Fold(c) ==
  /\ Clickable(c) /\ expanded = c
  /\ expanded' = Nothing
  /\ UNCHANGED <<requests, rows, companies, scopesByCompany, selectedScope,
                 loading, wizardCompany, wizard>>

\* Its Business Scopes are listed unless they were listed before.
Expand(f, c) ==
  /\ Clickable(c) /\ expanded # c
  /\ expanded' = c
  /\ IF scopesByCompany[c] = Nothing THEN Ask(f, ScopesCall(c, "none"), {c}, {})
     ELSE UNCHANGED requests
  /\ UNCHANGED <<rows, companies, scopesByCompany, selectedScope, loading,
                 wizardCompany, wizard>>

SelectScope(c) ==
  /\ Clickable(c) /\ expanded = c /\ scopesByCompany[c] # Nothing
  /\ \E s \in DOMAIN scopesByCompany[c] : selectedScope' = s
  /\ UNCHANGED <<requests, rows, companies, scopesByCompany, expanded, loading,
                 wizardCompany, wizard>>

OnCreateCompany(f) ==
  /\ ~WizardShown
  /\ Ask(f, [NoCall EXCEPT !.op = "createCompany"], {}, {"companies"})
  /\ UNCHANGED <<rows, lists, wizardCompany, wizard>>

OnDeactivateCompany(f, c) ==
  /\ Open(c)
  /\ Ask(f, [NoCall EXCEPT !.op = "deactivateCompany", !.company = c],
         {}, {"companies"})
  /\ UNCHANGED <<rows, lists, wizardCompany, wizard>>

\* From the details; it needs the row of the Company as well.
OnDeactivateScope(f) == \E c \in Holder \cap DOMAIN companies :
  /\ ~WizardShown
  /\ scopesByCompany[c][selectedScope] = "ACTIVE"
  /\ Ask(f, [NoCall EXCEPT !.op = "deactivateScope", !.company = c,
                           !.scope = selectedScope], {}, {c})
  /\ UNCHANGED <<rows, lists, wizardCompany, wizard>>

\* refresh
Refresh(f) == Then(f, NoCall, {"companies"}) /\ loading' = TRUE

CompanyDone(f) ==
  /\ Comes(f, "createCompany") \/ Comes(f, "deactivateCompany")
  /\ \/ flow[f].ok /\ Refresh(f)
     \/ ~flow[f].ok /\ End(f) /\ UNCHANGED loading
  /\ UNCHANGED <<rows, companies, scopesByCompany, expanded, selectedScope,
                 wizardCompany, wizard>>

ScopeDeactivated(f) ==
  LET c == flow[f].call.company IN
  /\ Comes(f, "deactivateScope")
  /\ \/ flow[f].ok /\ Then(f, ScopesCall(c, "deactivated"), {c})
     \/ ~flow[f].ok /\ End(f)
  /\ UNCHANGED <<rows, lists, wizardCompany, wizard>>

\* The wizard is mounted while the row of its Company is listed: an older list
\* that comes late unmounts it, the next one shows it anew.
CompaniesCome(f) ==
  /\ Comes(f, "companies")
  /\ flow' = [flow EXCEPT ![f] = NoFlow]
  /\ \/ flow[f].ok /\ Showing(f) /\ companies' = flow[f].answer
     \/ ~flow[f].ok /\ NotShowing(f) /\ UNCHANGED companies
  /\ loading' = FALSE
  /\ wizard' = IF wizardCompany \notin DOMAIN companies' THEN NoWizard
               ELSE IF WizardShown THEN wizard ELSE FirstStep
  /\ UNCHANGED <<rows, scopesByCompany, expanded, selectedScope, wizardCompany>>

\* After a change the Companies follow, unless this list fails: nobody
\* catches that.
ScopesCome(f) ==
  LET call == flow[f].call IN
  /\ Comes(f, "scopes")
  /\ \/ /\ flow[f].ok
        /\ Showing(f)
        /\ scopesByCompany' =
             [scopesByCompany EXCEPT ![call.company] = flow[f].answer]
        /\ expanded' = IF call.after = "created" THEN call.company ELSE expanded
        /\ flow' = [flow EXCEPT ![f] =
             IF call.after = "none" THEN NoFlow
             ELSE Asked(NoCall, {"companies"}, {})]
        /\ loading' = (loading \/ call.after # "none")
     \/ /\ ~flow[f].ok
        /\ NotShowing(f)
        /\ flow' = [flow EXCEPT ![f] = NoFlow]
        /\ UNCHANGED <<scopesByCompany, expanded, loading>>
  /\ UNCHANGED <<rows, companies, selectedScope, wizardCompany, wizard>>

---------------------------------------------------------------------------
(* CreateScopeWizard *)

OpenWizard(c) ==
  /\ Open(c)
  /\ wizardCompany' = c
  /\ wizard' = FirstStep
  /\ UNCHANGED <<requests, rows, lists>>

OnCancel ==
  /\ WizardShown
  /\ wizardCompany' = Nothing /\ wizard' = NoWizard
  /\ UNCHANGED <<requests, rows, lists>>

InWizard(next) ==
  /\ WizardShown
  /\ wizard' = next
  /\ UNCHANGED <<requests, rows, lists, wizardCompany>>

\* The type is chosen at step 1, the name entered at step 2.
Edit == \E k \in Key : wizard.step \in {1, 2} /\ InWizard([wizard EXCEPT !.key = k])
Continue == wizard.step = 1 /\ InWizard([wizard EXCEPT !.step = 2])
Back == wizard.step \in {2, 3} /\ InWizard([wizard EXCEPT !.step = @ - 1])

GoToReview(f) ==
  /\ WizardShown /\ wizard.step = 2
  /\ wizard.checking = Nothing /\ wizard.key # Nothing
  /\ Ask(f, [NoCall EXCEPT !.op = "check", !.company = wizardCompany,
                           !.key = wizard.key], {}, {})
  /\ wizard' = [wizard EXCEPT !.checking = f]
  /\ UNCHANGED <<rows, lists, wizardCompany>>

ConfirmCreate(f) ==
  /\ WizardShown /\ wizard.step = 3
  /\ wizard.submitting = Nothing /\ ~wizard.duplicate
  /\ Ask(f, [NoCall EXCEPT !.op = "create", !.company = wizardCompany,
                           !.key = wizard.key], {}, {wizardCompany})
  /\ wizard' = [wizard EXCEPT !.submitting = f]
  /\ UNCHANGED <<rows, lists, wizardCompany>>

\* The answer moves the wizard that asked, wherever it is by now.
Checked(f) ==
  /\ Comes(f, "check")
  /\ End(f)
  /\ wizard' = IF wizard.checking # f THEN wizard
               ELSE IF ~flow[f].ok THEN [wizard EXCEPT !.checking = Nothing]
               ELSE [wizard EXCEPT !.checking = Nothing, !.step = 3,
                                   !.duplicate = flow[f].answer]
  /\ UNCHANGED <<rows, lists, wizardCompany>>

\* Mutant: onCreated does not list the Business Scopes.
CreatedUnlisted(f) ==
  /\ Comes(f, "create")
  /\ End(f)
  /\ wizardCompany' = Nothing /\ wizard' = NoWizard
  /\ UNCHANGED <<rows, lists>>

\* onCreated closes the wizard that is open.
Created(f) ==
  LET c == flow[f].call.company IN
  /\ Comes(f, "create")
  /\ \/ /\ flow[f].ok /\ Then(f, ScopesCall(c, "created"), {c})
        /\ wizardCompany' = Nothing /\ wizard' = NoWizard
     \/ /\ ~flow[f].ok /\ End(f)
        /\ wizard' = IF wizard.submitting # f THEN wizard
                     ELSE [wizard EXCEPT !.submitting = Nothing]
        /\ UNCHANGED wizardCompany
  /\ UNCHANGED <<rows, lists>>

---------------------------------------------------------------------------
(* The API, and other administrators. *)

Counted == changes < MaxChange /\ changes' = changes + 1

NewCompany == \E c \in Company \ Companies :
  company' = [company EXCEPT ![c] = "ACTIVE"] /\ UNCHANGED scope
EndCompany(c) ==
  /\ company[c] = "ACTIVE" /\ \A s \in ScopesOf(c) : scope[s].status # "ACTIVE"
  /\ company' = [company EXCEPT ![c] = "INACTIVE"] /\ UNCHANGED scope
NewScope(c, k) == \E s \in Scope :
  /\ company[c] = "ACTIVE" /\ ~KeyTaken(c, k) /\ scope[s] = NoScope
  /\ scope' = [scope EXCEPT ![s] = [status |-> "ACTIVE", company |-> c, key |-> k]]
  /\ UNCHANGED company
EndScope(s) ==
  /\ scope[s].status = "ACTIVE"
  /\ scope' = [scope EXCEPT ![s].status = "INACTIVE"] /\ UNCHANGED company

Effect(call) ==
  \/ call.op = "createCompany" /\ NewCompany
  \/ call.op = "deactivateCompany" /\ EndCompany(call.company)
  \/ call.op = "create" /\ NewScope(call.company, call.key)
  \/ call.op = "deactivateScope" /\ EndScope(call.scope)

Serve(f) ==
  LET call == flow[f].call IN
  /\ flow[f].stage = "asked"
  /\ \/ /\ UNCHANGED rows
        /\ \/ Refuse(f)
           \/ call.op = "companies" /\ Tell(f, [c \in Companies |-> company[c]])
           \/ /\ call.op = "scopes"
              /\ Tell(f, [s \in ScopesOf(call.company) |-> scope[s].status])
           \/ call.op = "check" /\ Tell(f, KeyTaken(call.company, call.key))
     \/ Counted /\ Effect(call) /\ Change(f, Nothing)
  /\ UNCHANGED <<lists, wizardCompany, wizard>>

LoseAnswer(f) == Drop(f) /\ UNCHANGED <<rows, lists, wizardCompany, wizard>>

Others ==
  /\ Counted
  /\ \/ NewCompany
     \/ \E c \in Company : EndCompany(c) \/ \E k \in Key : NewScope(c, k)
     \/ \E s \in Scope : EndScope(s)
  /\ UNCHANGED <<requests, lists, wizardCompany, wizard>>

Next ==
  \/ \E f \in Flow :
       \/ OnCreateCompany(f) \/ OnDeactivateScope(f) \/ CompanyDone(f)
       \/ ScopeDeactivated(f) \/ CompaniesCome(f) \/ ScopesCome(f)
       \/ GoToReview(f) \/ ConfirmCreate(f) \/ Checked(f) \/ Created(f)
       \/ Serve(f) \/ LoseAnswer(f)
       \/ \E c \in Company : Expand(f, c) \/ OnDeactivateCompany(f, c)
  \/ \E c \in Company : Fold(c) \/ SelectScope(c) \/ OpenWizard(c)
  \/ OnCancel \/ Edit \/ Continue \/ Back \/ Others

Spec == Init /\ [][Next]_vars

---------------------------------------------------------------------------
(* Properties *)

\* The types; there is a wizard just when its Company's row is there, and a
\* Business Scope is kept under one Company.
TypeOK ==
  /\ company \in [Company -> Status]
  /\ scope \in [Scope -> [status : Status, company : Company \cup {Nothing},
                          key : Key \cup {Nothing}]]
  /\ changes \in 0..MaxChange
  /\ DOMAIN companies \subseteq Company
  /\ \A c \in Company : scopesByCompany[c] # Nothing =>
       \A s \in DOMAIN scopesByCompany[c] : scope[s].company = c
  /\ {expanded, wizardCompany} \subseteq Company \cup {Nothing}
  /\ selectedScope \in Scope \cup {Nothing}
  /\ loading \in BOOLEAN
  /\ wizard \in [step : 0..3, key : Key \cup {Nothing}, duplicate : BOOLEAN,
                 checking : Flow \cup {Nothing}, submitting : Flow \cup {Nothing}]
  /\ WizardShown <=> wizard # NoWizard
  /\ \A f \in Flow : flow[f] # NoFlow => flow[f].call \in Call
=============================================================================
