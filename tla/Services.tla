------------------------------ MODULE Services ------------------------------
(***************************************************************************)
(* The services that share no tables, side by side: TenantContext,         *)
(* Organizations, Invitations, Structure, Sessions, Throttle, and the      *)
(* browser's CsrfClient.  A behaviour is one of them, the part in focus,   *)
(* chosen at the start; the variables of the others are Absent.            *)
(***************************************************************************)
CONSTANTS
  Part,    \* the parts there are to choose from
  Absent,
  Worker,  \* requests the API serves concurrently
  \* TenantContext
  Tenant, Connection,
  \* Organizations
  Organization, OrganizationName, OwnerEmail, CommercialStatus,
  \* Invitations
  Inviting, InvitedEmail, InvitationToken, Known,
  \* Structure
  Company, BusinessScope, RowName, MaxGrants,
  \* Sessions
  Session, ResetToken,
  \* Throttle
  Account, Source, Failure, FreeAttempts, MaxDelay,
  \* CsrfClient
  Tab, BrowserCall, BrowserSession

VARIABLES
  focus,
  created, setting, conn, ctxPc, ctxJob,
  org, orgInvitation, orgIdentity, orgMember, owner, orgSession, lost,
  orgLocks, orgPc, orgJob,
  invitation, identity, member, issued, invLocks, invPc, invJob,
  company, scope, grants, strPc, strJob,
  password, session, resetToken, sesLocks, sesPc, sesJob,
  failure, login,
  status, cookie, cached, clientPc, call, effects, disturbed

ctxVars == <<created, setting, conn, ctxPc, ctxJob>>
orgVars ==
  <<org, orgInvitation, orgIdentity, orgMember, owner, orgSession, lost,
    orgLocks, orgPc, orgJob>>
invVars == <<invitation, identity, member, issued, invLocks, invPc, invJob>>
strVars == <<company, scope, grants, strPc, strJob>>
sesVars == <<password, session, resetToken, sesLocks, sesPc, sesJob>>
thrVars == <<failure, login>>
clientVars == <<status, cookie, cached, clientPc, call, effects, disturbed>>
servicesVars ==
  <<focus, ctxVars, orgVars, invVars, strVars, sesVars, thrVars, clientVars>>

Ctx == INSTANCE TenantContext WITH
  Org <- Tenant, Request <- Worker, Nothing <- Absent,
  pc <- ctxPc, job <- ctxJob

O == INSTANCE Organizations WITH
  Org <- Organization, Name <- OrganizationName, Email <- OwnerEmail,
  Request <- Worker, Nothing <- Absent,
  invitation <- orgInvitation, identity <- orgIdentity, member <- orgMember,
  session <- orgSession,
  locks <- orgLocks, pc <- orgPc, job <- orgJob

I == INSTANCE Invitations WITH
  Org <- Inviting, Email <- InvitedEmail, Token <- InvitationToken,
  Request <- Worker, Nothing <- Absent,
  locks <- invLocks, pc <- invPc, job <- invJob

Str == INSTANCE Structure WITH
  Scope <- BusinessScope, Name <- RowName, Request <- Worker, Nothing <- Absent,
  pc <- strPc, job <- strJob

Ses == INSTANCE Sessions WITH
  Token <- ResetToken, Request <- Worker, Nothing <- Absent,
  locks <- sesLocks, pc <- sesPc, job <- sesJob

Thr == INSTANCE Throttle WITH
  Email <- Account, Ip <- Source, Attempt <- Failure, Request <- Worker,
  Nothing <- Absent

Web == INSTANCE CsrfClient WITH
  Call <- BrowserCall, Session <- BrowserSession, Nothing <- Absent,
  pc <- clientPc

\* Of the constants.
ServicesConstants ==
  /\ Ctx!NothingIsNothing
  /\ O!NothingIsNothing /\ O!DemoIsCommercial
  /\ I!NothingIsNothing /\ I!KnownAreEmails
  /\ Str!MaxGrantsIsNatural
  /\ Absent \notin Company \cup BusinessScope \cup RowName
  /\ Ses!NothingIsNothing
  /\ Thr!NothingIsNothing /\ Thr!DelaysAreNumbers
  /\ Web!NothingIsNothing

---------------------------------------------------------------------------
NoContext ==
  /\ created = Absent /\ setting = Absent /\ conn = Absent
  /\ ctxPc = Absent /\ ctxJob = Absent
NoOrganizations ==
  /\ org = Absent /\ orgInvitation = Absent /\ orgIdentity = Absent
  /\ orgMember = Absent /\ owner = Absent /\ orgSession = Absent
  /\ lost = Absent /\ orgLocks = Absent /\ orgPc = Absent /\ orgJob = Absent
NoInvitations ==
  /\ invitation = Absent /\ identity = Absent /\ member = Absent
  /\ issued = Absent /\ invLocks = Absent /\ invPc = Absent /\ invJob = Absent
NoStructure ==
  /\ company = Absent /\ scope = Absent /\ grants = Absent
  /\ strPc = Absent /\ strJob = Absent
NoSessions ==
  /\ password = Absent /\ session = Absent /\ resetToken = Absent
  /\ sesLocks = Absent /\ sesPc = Absent /\ sesJob = Absent
NoThrottle == failure = Absent /\ login = Absent
NoClient ==
  /\ status = Absent /\ cookie = Absent /\ cached = Absent /\ clientPc = Absent
  /\ call = Absent /\ effects = Absent /\ disturbed = Absent

ServicesInit ==
  /\ focus \in Part
  /\ IF focus = "context" THEN Ctx!Init ELSE NoContext
  /\ IF focus = "organizations" THEN O!Init ELSE NoOrganizations
  /\ IF focus = "invitations" THEN I!Init ELSE NoInvitations
  /\ IF focus = "structure" THEN Str!Init ELSE NoStructure
  /\ IF focus = "sessions" THEN Ses!Init ELSE NoSessions
  /\ IF focus = "throttle" THEN Thr!Init ELSE NoThrottle
  /\ IF focus = "client" THEN Web!Init ELSE NoClient

ServicesNext ==
  /\ UNCHANGED focus
  /\ \/ /\ focus = "context" /\ Ctx!Next
        /\ UNCHANGED <<orgVars, invVars, strVars, sesVars,
                       thrVars, clientVars>>
     \/ /\ focus = "organizations" /\ O!Next
        /\ UNCHANGED <<ctxVars, invVars, strVars, sesVars,
                       thrVars, clientVars>>
     \/ /\ focus = "invitations" /\ I!Next
        /\ UNCHANGED <<ctxVars, orgVars, strVars, sesVars,
                       thrVars, clientVars>>
     \/ /\ focus = "structure" /\ Str!Next
        /\ UNCHANGED <<ctxVars, orgVars, invVars, sesVars,
                       thrVars, clientVars>>
     \/ /\ focus = "sessions" /\ Ses!Next
        /\ UNCHANGED <<ctxVars, orgVars, invVars, strVars,
                       thrVars, clientVars>>
     \/ /\ focus = "throttle" /\ Thr!Next
        /\ UNCHANGED <<ctxVars, orgVars, invVars, strVars,
                       sesVars, clientVars>>
     \/ /\ focus = "client" /\ Web!Next
        /\ UNCHANGED <<ctxVars, orgVars, invVars, strVars,
                       sesVars, thrVars>>

ServicesSpec == ServicesInit /\ [][ServicesNext]_servicesVars

---------------------------------------------------------------------------
(* The properties of the parts *)

\* The types of each part.
PartsTyped ==
  /\ focus = "context" => Ctx!TypeOK
  /\ focus = "organizations" => O!TypeOK
  /\ focus = "invitations" => I!TypeOK
  /\ focus = "structure" => Str!TypeOK
  /\ focus = "sessions" => Ses!TypeOK
  /\ focus = "throttle" => Thr!TypeOK
  /\ focus = "client" => Web!TypeOK

\* SEC-02, withTenantContext: a connection carries settings only for the
\* transaction on it.
SettingsAreOwn == focus = "context" => Ctx!SettingsAreOwn

\* SEC-01, SEC-03: row-level security confines every transaction to the
\* Organization the server resolved.
TenantIsolation == focus = "context" => Ctx!TenantIsolation

\* The policies refuse no statement of the services.
FlowsArePermitted == focus = "context" => Ctx!FlowsArePermitted

\* OrganizationsService: an Organization is owned exactly once it is active,
\* and otherwise waits for its owner's invitation.
OwnedOnceActive == focus = "organizations" => O!OwnedOnceActive

\* OrganizationsService: a suspension ends the sessions of the active members,
\* unless the revocation fails.
StaleSessionIsOwed == focus = "organizations" => O!StaleSessionIsOwed

\* OrganizationsService: no status but those the code names follows another.
LifecycleIsFollowed ==
  [][focus = "organizations" => O!LifecycleStep]_<<focus, orgVars>>

\* InvitationsService: an address has one open invitation per Organization.
OnePendingPerEmail == focus = "invitations" => I!OnePendingPerEmail

\* InvitationsService: an identity belongs to at most one Organization.
OneOrganization == focus = "invitations" => I!OneOrganization

\* InvitationsService: nobody joins but by an invitation that is open.
JoinNeedsOpenInvitation ==
  [][focus = "invitations" => I!JoinStep]_<<focus, invVars>>

\* organization-admin: a User writes nothing outside the grants that the
\* request found.
UserWritesWithinGrants ==
  [][focus = "structure" => Str!UserWrite]_<<focus, strVars>>

\* PasswordResetService: no more tokens are open than requests run in parallel.
OpenTokensBounded == focus = "sessions" => Ses!OpenTokensBounded

\* PasswordResetService: a password changes with a token that was open.
PasswordChangeSpendsToken ==
  [][focus = "sessions" => Ses!PasswordChangeStep]_<<focus, sesVars>>

\* PasswordResetService: a new password ends the sessions there were.
ResetEndsEarlierSessions ==
  [][focus = "sessions" => Ses!ResetStep]_<<focus, sesVars>>

\* ThrottleService: the delays hold by account and by source.
BackoffHolds == focus = "throttle" => Thr!BackoffHolds

\* apiFetch: a call that is sent twice has its effect once.
EffectOnce == focus = "client" => Web!EffectOnce

\* apiFetch: a stale token is replaced without the caller noticing.
StaleTokenHeals == focus = "client" => Web!StaleTokenHeals
=============================================================================
