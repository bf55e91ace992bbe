---------------------------- MODULE TenantContext ----------------------------
(***************************************************************************)
(* How a transaction is confined to what the server resolved for it:       *)
(* withTenantContext puts the context into the settings of a pooled        *)
(* connection with SET LOCAL, and the row-level security policies of the   *)
(* migrations compare the rows of every statement with these settings.     *)
(*                                                                         *)
(* Tables keep no rows here: every Organization that exists is taken to    *)
(* have rows in every table, the outbox and the evidence also rows of no   *)
(* Organization.  What matters is which of them a statement may touch.     *)
(* "companies" stands for all tables that only know tenant_isolation.      *)
(***************************************************************************)
EXTENDS Naturals, Sequences

CONSTANTS
  Org,         \* Organizations, existing or not
  Connection,  \* the pool of the one PrismaClient
  Request,
  Nothing

\* Of the constants.
NothingIsNothing == Nothing \notin Org \cup Connection

\* Tables with rows of no Organization.
Operational == {"email_outbox", "admin_evidence"}
Table == {"organizations", "memberships", "companies", "invitations"}
           \cup Operational
\* "lock" is SELECT ... FOR UPDATE.
Command == {"select", "lock", "insert", "update", "delete"}
Context == [org : Org \cup {Nothing}, isPlatformAdmin : BOOLEAN,
            isSystem : BOOLEAN]
NoContext == [org |-> Nothing, isPlatformAdmin |-> FALSE, isSystem |-> FALSE]

VARIABLES
  created,  \* the Organizations that exist
  setting,  \* what current_setting says on each connection
  conn,     \* the connection of each running transaction
  pc,       \* its next statement
  job       \* its flow, the Organization it is about, and its context

vars == <<created, setting, conn, pc, job>>

---------------------------------------------------------------------------
(* The policies, as the last migration leaves them. *)

Current(o, s) == o # Nothing /\ o = s.org
Broad(s) == s.isPlatformAdmin \/ s.isSystem

\* Mutant: organizations_update as it was before migration 20260815215000.
UpdatesOrganizationAsAdministrator(o, s) == s.isPlatformAdmin /\ Current(o, s)

\* Mutant: a Platform Administrator or the system updates any Organization.
UpdatesAnyOrganization(o, s) == Broad(s)

UpdatesOrganization(o, s) == Broad(s) /\ Current(o, s)

OrganizationPolicy(c, o, s) ==
  \/ c = "select" /\ (Broad(s) \/ Current(o, s))
  \/ c = "insert" /\ s.isPlatformAdmin
  \/ c = "update" /\ UpdatesOrganization(o, s)

\* tenant_isolation, FOR ALL.
CompanyPolicy(o, s) == Current(o, s)

MembershipPolicy(c, o, s) == Current(o, s) \/ (c = "select" /\ Broad(s))

InvitationPolicy(c, o, s) ==
  \/ Current(o, s) \/ s.isPlatformAdmin
  \/ c = "select" /\ s.isSystem

OutboxPolicy(o, s) == Broad(s) \/ Current(o, s)

\* An append-only ledger: nothing lets it be updated or deleted.
EvidencePolicy(c, o, s) ==
  \/ c = "select" /\ (s.isPlatformAdmin \/ Current(o, s))
  \/ c = "insert" /\ (Broad(s) \/ Current(o, s))

Policy(c, t, o, s) ==
  CASE t = "organizations" -> OrganizationPolicy(c, o, s)
    [] t = "companies" -> CompanyPolicy(o, s)
    [] t = "memberships" -> MembershipPolicy(c, o, s)
    [] t = "invitations" -> InvitationPolicy(c, o, s)
    [] t = "email_outbox" -> OutboxPolicy(o, s)
    [] t = "admin_evidence" -> EvidencePolicy(c, o, s)

\* A lock asks for what an UPDATE finds, which for the system's look-up of an
\* invitation is more than what it may leave behind.
Reaches(c, t, o, s) ==
  \/ c # "lock" /\ Policy(c, t, o, s)
  \/ c = "lock" /\ Policy("update", t, o, s)
  \/ c = "lock" /\ t = "invitations" /\ s.isSystem

\* The statements of Prisma also have to see the row, in their WHERE or because
\* they return what they have written.
Permitted(c, t, o, s) == Reaches(c, t, o, s) /\ Policy("select", t, o, s)

---------------------------------------------------------------------------
(* The transactions of the services: the context each is opened with, and  *)
(* its statements on tables under row-level security, in order.  "scope"   *)
(* sets app.org_id within the transaction.                                 *)

S(c, t) == [command |-> c, table |-> t]
Scope == S("scope", "organizations")

\* What the services of an Organization's members do, table by table.
Member ==
  <<S("select", "organizations"), S("lock", "memberships"),
    S("update", "memberships"), S("delete", "companies"),
    S("insert", "companies"), S("insert", "invitations"),
    S("update", "invitations"), S("insert", "email_outbox"),
    S("insert", "admin_evidence")>>
InviteOwner ==
  <<S("select", "invitations"), S("insert", "invitations"),
    S("insert", "email_outbox"), S("insert", "admin_evidence")>>
Transition ==
  <<S("lock", "organizations"), S("update", "organizations"),
    S("insert", "admin_evidence")>>
Register ==
  <<S("insert", "organizations"), S("insert", "admin_evidence"), Scope,
    S("insert", "memberships"), S("insert", "admin_evidence")>>
Accept ==
  <<S("lock", "invitations"), Scope, S("select", "memberships"),
    S("update", "memberships"), S("insert", "memberships"),
    S("delete", "companies"), S("insert", "companies"),
    S("update", "invitations"), S("update", "organizations"),
    S("insert", "admin_evidence")>>

Statements ==
  [guard |-> <<S("select", "memberships")>>,
   member |-> Member,
   create |-> <<S("insert", "organizations"), S("insert", "admin_evidence")>>,
   list |-> <<S("select", "organizations")>>,
   inviteOwner |-> InviteOwner,
   transition |-> Transition,
   register |-> Register,
   accept |-> Accept,
   myOrganization |-> <<S("select", "memberships"), S("select", "organizations")>>,
   dispatch |-> <<S("lock", "email_outbox"), S("update", "email_outbox")>>,
   requestReset |-> <<S("insert", "email_outbox")>>]
Flow == DOMAIN Statements

ContextOf(f, o) ==
  [org |-> IF f \in {"guard", "member", "inviteOwner", "transition"} THEN o
           ELSE Nothing,
   isPlatformAdmin |->
     f \in {"create", "list", "inviteOwner", "transition", "register"},
   isSystem |-> f \in {"accept", "myOrganization", "dispatch", "requestReset"}]

\* Whose rows a flow is about: a new Organization's, those of no Organization,
\* or those of one that exists.
About(f) ==
  CASE f \in {"create", "register"} ->
         Org \ (created \cup {job[r].org : r \in Request})
    [] f = "requestReset" -> {Nothing}
    [] f = "dispatch" -> created \cup {Nothing}
    [] OTHER -> created

NoJob == [flow |-> "list", org |-> Nothing, context |-> NoContext]

Init ==
  /\ created \in SUBSET Org
  /\ setting = [c \in Connection |-> NoContext]
  /\ conn = [r \in Request |-> Nothing]
  /\ pc = [r \in Request |-> 0]
  /\ job = [r \in Request |-> NoJob]

---------------------------------------------------------------------------
Idle(c) == \A r \in Request : conn[r] # c
Running(r) == conn[r] # Nothing /\ pc[r] > 0
Settings(r) == setting[conn[r]]
Ended(r) == pc[r] > Len(Statements[job[r].flow])
Statement(r) == Statements[job[r].flow][pc[r]]
Allowed(r) == Permitted(Statement(r).command, Statement(r).table, job[r].org,
                        Settings(r))

\* Mutant: a transaction on a connection that is in use.
BeginAnywhere(r) ==
  /\ conn[r] = Nothing
  /\ \E c \in Connection, f \in Flow :
       \E o \in About(f) :
         /\ conn' = [conn EXCEPT ![r] = c]
         /\ job' = [job EXCEPT ![r] = [flow |-> f, org |-> o,
                                       context |-> ContextOf(f, o)]]
  /\ UNCHANGED <<created, setting, pc>>

\* $transaction takes a connection, whoever had it before.
Begin(r) ==
  /\ conn[r] = Nothing
  /\ \E c \in Connection, f \in Flow :
       \E o \in About(f) :
         /\ Idle(c)
         /\ conn' = [conn EXCEPT ![r] = c]
         /\ job' = [job EXCEPT ![r] = [flow |-> f, org |-> o,
                                       context |-> ContextOf(f, o)]]
  /\ UNCHANGED <<created, setting, pc>>

\* SET LOCAL for each field that is given; the others are left alone.
Apply(r) ==
  LET given == job[r].context IN
  /\ conn[r] # Nothing /\ pc[r] = 0
  /\ setting' = [setting EXCEPT ![conn[r]] =
       [org |-> IF given.org = Nothing THEN @.org ELSE given.org,
        isPlatformAdmin |-> @.isPlatformAdmin \/ given.isPlatformAdmin,
        isSystem |-> @.isSystem \/ given.isSystem]]
  /\ pc' = [pc EXCEPT ![r] = 1]
  /\ UNCHANGED <<created, conn, job>>

Finish(r) ==
  /\ conn' = [conn EXCEPT ![r] = Nothing]
  /\ pc' = [pc EXCEPT ![r] = 0]
  /\ job' = [job EXCEPT ![r] = NoJob]

\* Mutant: SET instead of SET LOCAL.
ReleaseKeepingContext(r) ==
  /\ Finish(r)
  /\ UNCHANGED setting

\* The transaction is over: what SET LOCAL has set is as before it.
Release(r) ==
  /\ Finish(r)
  /\ setting' = [setting EXCEPT ![conn[r]] = NoContext]

\* A statement of the flow, on the rows it is about.
Step(r) ==
  /\ Running(r) /\ ~Ended(r) /\ Statement(r) # Scope /\ Allowed(r)
  /\ pc' = [pc EXCEPT ![r] = @ + 1]
  /\ UNCHANGED <<created, setting, conn, job>>

\* acceptCore and register scope the rest of the transaction.
ScopeTo(r) ==
  /\ Running(r) /\ ~Ended(r) /\ Statement(r) = Scope
  /\ setting' = [setting EXCEPT ![conn[r]].org = job[r].org]
  /\ pc' = [pc EXCEPT ![r] = @ + 1]
  /\ UNCHANGED <<created, conn, job>>

\* The rows that are there for a transaction: also those it has inserted.
Existing(r) ==
  created \cup (IF job[r].flow \in {"create", "register"} THEN {job[r].org}
                ELSE {})

Commit(r) ==
  /\ Running(r) /\ Ended(r)
  /\ created' = created \cup Existing(r)
  /\ Release(r)

\* A statement the policies refuse or leave without a row, any other error,
\* or the service throws.
Rollback(r) ==
  /\ conn[r] # Nothing
  /\ Release(r)
  /\ UNCHANGED created

Next ==
  \E r \in Request :
    Begin(r) \/ Apply(r) \/ Step(r) \/ ScopeTo(r) \/ Commit(r) \/ Rollback(r)

Spec == Init /\ [][Next]_vars

---------------------------------------------------------------------------
(* Properties *)

\* The variables have their types, and no two transactions share a
\* connection of the pool.
TypeOK ==
  /\ created \in SUBSET Org
  /\ setting \in [Connection -> Context]
  /\ conn \in [Request -> Connection \cup {Nothing}]
  /\ pc \in [Request -> Nat]
  /\ job \in [Request -> [flow : Flow, org : Org \cup {Nothing},
                          context : Context]]
  /\ \A r \in Request : job[r].flow \in {"create", "register"} => job[r].org \in Org
  /\ \A r, q \in Request : conn[r] = conn[q] /\ conn[r] # Nothing => r = q

\* The settings of a transaction are those of the context it was opened with,
\* scoped since to nothing but the Organization it is about; and only flows of
\* a Platform Administrator or the system are scoped so late.
OwnSettings(r) ==
  LET given == job[r].context IN
  /\ given = ContextOf(job[r].flow, job[r].org)
  /\ pc[r] = 0 => Settings(r) = NoContext
  /\ pc[r] > 0 => /\ Settings(r).org \in {given.org, job[r].org}
                 /\ Settings(r).isPlatformAdmin = given.isPlatformAdmin
                 /\ Settings(r).isSystem = given.isSystem

\* SEC-02: a connection carries settings only for the transaction on it.  This
\* is what makes the isolation inductive.
SettingsAreOwn ==
  /\ \A k \in Connection : Idle(k) => setting[k] = NoContext
  /\ \A r \in Request : IF conn[r] = Nothing THEN pc[r] = 0 ELSE OwnSettings(r)

\* The rows any statement could touch in the transaction of r, whether or
\* not a service contains it and whatever its WHERE says.
Touched(r, c, t) ==
  {o \in Existing(r) \cup (IF t \in Operational THEN {Nothing} ELSE {}) :
     Reaches(c, t, o, Settings(r))}

\* SEC-01, SEC-03, SEC-05, SEC-10: row-level security is the backstop behind
\* the services.  Whatever connection a transaction gets, no statement in it
\* touches a row of another Organization than the one the server resolved,
\* unless it runs for a Platform Administrator or the system; and these too
\* change members, Companies and Organizations of only the one Organization
\* they have scoped themselves to.
TenantIsolation ==
  \A r \in Request, c \in Command, t \in Table :
    Running(r) =>
      /\ ~Broad(job[r].context) => Touched(r, c, t) \subseteq {job[r].context.org}
      /\ t = "companies" \/ (t \in {"organizations", "memberships"}
                              /\ c \in {"lock", "update", "delete"})
           => Touched(r, c, t) \subseteq {job[r].org}

\* Fail-closed policies must not stop the services themselves: no flow has a
\* statement the policies refuse at that point of its transaction, the
\* activation of an Organization by its owner's acceptance and the lookup of
\* an invitation by its token among them.
FlowsArePermitted ==
  \A r \in Request :
    Running(r) /\ ~Ended(r) /\ Statement(r) # Scope => Allowed(r)
=============================================================================
