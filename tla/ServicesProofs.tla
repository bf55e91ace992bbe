-------------------------- MODULE ServicesProofs --------------------------
(***************************************************************************)
(* Theorems about the parts of Services, for all values of the constants.  *)
(* Those of Organizations, Invitations and Sessions are proved in modules  *)
(* of their own and carried over; those of TenantContext, Structure,       *)
(* CsrfClient and Throttle are proved here.                                *)
(***************************************************************************)
EXTENDS Services, Integers, Sequences, FiniteSets, FiniteSetTheorems,
        WellFoundedInduction, TLAPS

OP == INSTANCE OrganizationsProofs WITH
  Org <- Organization, Name <- OrganizationName, Email <- OwnerEmail,
  Request <- Worker, Nothing <- Absent,
  invitation <- orgInvitation, identity <- orgIdentity, member <- orgMember,
  session <- orgSession,
  locks <- orgLocks, pc <- orgPc, job <- orgJob

IP == INSTANCE InvitationsProofs WITH
  Org <- Inviting, Email <- InvitedEmail, Token <- InvitationToken,
  Request <- Worker, Nothing <- Absent,
  locks <- invLocks, pc <- invPc, job <- invJob

SesP == INSTANCE SessionsProofs WITH
  Token <- ResetToken, Request <- Worker, Nothing <- Absent,
  locks <- sesLocks, pc <- sesPc, job <- sesJob

---------------------------------------------------------------------------
(* The part in focus runs as if alone; the others do nothing.              *)

Focused(part) == focus = part

\* The choice is made once.
LEMMA FocusStays ==
  \A part : [ServicesNext]_servicesVars => (Focused(part)' <=> Focused(part))
  BY DEF ServicesNext, servicesVars, Focused

\* Services and the module of proofs speak of the same Organizations.
LEMMA SameOrganizations ==
  /\ O!Init <=> OP!Init
  /\ O!Next <=> OP!Next
  /\ O!vars = OP!vars
  /\ O!TypeOK <=> OP!TypeOK
  /\ O!OwnedOnceActive <=> OP!OwnedOnceActive
  /\ O!StaleSessionIsOwed <=> OP!StaleSessionIsOwed
  /\ O!LifecycleStep <=> OP!LifecycleStep
  BY DEF O!rows, O!vars, O!Access, O!OrgRow, O!InvitationRow, O!Identity,
      O!MemberState, O!SessionState, O!Operation, O!Label, O!Job, O!NoJob,
      O!Created, O!NameTaken, O!Active, O!Identified, O!Elsewhere, O!Free, O!At,
      O!Init, O!Admit, O!Goto, O!Proceed, O!Answer, O!Refuse, O!NameCheck,
      O!Identify, O!NewOrg, O!RequestCreate, O!CreateCheck, O!CreateInsert,
      O!CreateInvite, O!RequestRegister, O!RegisterIdentity, O!RegisterCheck,
      O!RegisterInsert, O!OpenSession, O!RegisterSession, O!RequestTransition,
      O!TransitionLock, O!TransitionCommit, O!ListMembers, O!ListFails,
      O!Revoking, O!RevokeOne, O!RevokeFails, O!RevokedAll,
      O!RequestCommercial, O!CommercialLock, O!CommercialCommit, O!Invited,
      O!RequestAccept, O!Accepting, O!AcceptLock, O!AcceptRead,
      O!AcceptCommit, O!AcceptSession, O!SuspendMember, O!Reinstate, O!Join,
      O!Appear, O!Login, O!Logout, O!Expire, O!Timeout, O!LoseInvite,
      O!Arrive, O!Serve, O!Fail, O!Next, O!TypeOK, O!LifecycleStep,
      O!OwnedOnceActive, O!StaleSessionIsOwed, OP!rows, OP!vars, OP!Access,
      OP!OrgRow, OP!InvitationRow, OP!Identity, OP!MemberState,
      OP!SessionState, OP!Operation, OP!Label, OP!Job, OP!NoJob, OP!Created,
      OP!NameTaken, OP!Active, OP!Identified, OP!Elsewhere, OP!Free, OP!At,
      OP!Init, OP!Admit, OP!Goto, OP!Proceed, OP!Answer, OP!Refuse,
      OP!NameCheck, OP!Identify, OP!NewOrg, OP!RequestCreate, OP!CreateCheck,
      OP!CreateInsert, OP!CreateInvite, OP!RequestRegister,
      OP!RegisterIdentity, OP!RegisterCheck, OP!RegisterInsert,
      OP!OpenSession, OP!RegisterSession, OP!RequestTransition,
      OP!TransitionLock, OP!TransitionCommit, OP!ListMembers, OP!ListFails,
      OP!Revoking, OP!RevokeOne, OP!RevokeFails, OP!RevokedAll,
      OP!RequestCommercial, OP!CommercialLock, OP!CommercialCommit,
      OP!Invited, OP!RequestAccept, OP!Accepting, OP!AcceptLock,
      OP!AcceptRead, OP!AcceptCommit, OP!AcceptSession, OP!SuspendMember,
      OP!Reinstate, OP!Join, OP!Appear, OP!Login, OP!Logout, OP!Expire,
      OP!Timeout, OP!LoseInvite, OP!Arrive, OP!Serve, OP!Fail, OP!Next,
      OP!TypeOK, OP!LifecycleStep, OP!OwnedOnceActive, OP!StaleSessionIsOwed

\* In focus, Organizations takes its own steps only.
LEMMA OrganizationsRun ==
  ServicesSpec /\ Focused("organizations") => OP!Spec
  <1>1. ServicesInit /\ Focused("organizations") => OP!Init
    BY SameOrganizations DEF ServicesInit, Focused
  <1>2. Focused("organizations") /\ [ServicesNext]_servicesVars
          => [OP!Next]_OP!vars
    BY SameOrganizations
    DEF ServicesNext, servicesVars, orgVars, Focused, O!vars, OP!vars
  <1>3. [ServicesNext]_servicesVars
          => (Focused("organizations")' <=> Focused("organizations"))
    BY FocusStays
  <1> QED BY <1>1, <1>2, <1>3, PTL DEF ServicesSpec, OP!Spec

\* The same for Invitations.
LEMMA SameInvitations ==
  /\ I!Init <=> IP!Init
  /\ I!Next <=> IP!Next
  /\ I!vars = IP!vars
  /\ I!TypeOK <=> IP!TypeOK
  /\ I!OnePendingPerEmail <=> IP!OnePendingPerEmail
  /\ I!OneOrganization <=> IP!OneOrganization
  /\ I!JoinStep <=> IP!JoinStep
  BY DEF I!rows, I!vars, I!Invitation, I!Operation, I!Label, I!Job,
      I!NoInvitation, I!NoJob, I!Sent, I!PendingFor, I!Elsewhere, I!Free,
      I!At, I!Fresh, I!Init, I!Admit, I!Proceed, I!Found, I!Answer, I!Refuse,
      I!RequestCreate, I!RequestResend, I!ReadPending, I!ResendRead,
      I!FindPending, I!Insert, I!Replace, I!RequestRevoke, I!RevokeRead,
      I!RevokeCommit, I!Accepting, I!RequestAccept, I!ByToken, I!Acceptable,
      I!AcceptLock, I!AcceptIdentity, I!AcceptMembership, I!Join,
      I!AcceptCommit, I!Leave, I!Register, I!Expire, I!Timeout, I!Arrive,
      I!Serve, I!Next, I!TypeOK, I!OnePendingPerEmail, I!JoinStep,
      I!OneOrganizationOf, I!OneOrganization, IP!rows, IP!vars, IP!Invitation,
      IP!Operation, IP!Label, IP!Job, IP!NoInvitation, IP!NoJob, IP!Sent,
      IP!PendingFor, IP!Elsewhere, IP!Free, IP!At, IP!Fresh, IP!Init,
      IP!Admit, IP!Proceed, IP!Found, IP!Answer, IP!Refuse, IP!RequestCreate,
      IP!RequestResend, IP!ReadPending, IP!ResendRead, IP!FindPending,
      IP!Insert, IP!Replace, IP!RequestRevoke, IP!RevokeRead, IP!RevokeCommit,
      IP!Accepting, IP!RequestAccept, IP!ByToken, IP!Acceptable,
      IP!AcceptLock, IP!AcceptIdentity, IP!AcceptMembership, IP!Join,
      IP!AcceptCommit, IP!Leave, IP!Register, IP!Expire, IP!Timeout,
      IP!Arrive, IP!Serve, IP!Next, IP!TypeOK, IP!OnePendingPerEmail,
      IP!JoinStep, IP!OneOrganizationOf, IP!OneOrganization, I!Cardinality,
      IP!Cardinality

\* In focus, Invitations takes its own steps only.
LEMMA InvitationsRun ==
  ServicesSpec /\ Focused("invitations") => IP!Spec
  <1>1. ServicesInit /\ Focused("invitations") => IP!Init
    BY SameInvitations DEF ServicesInit, Focused
  <1>2. Focused("invitations") /\ [ServicesNext]_servicesVars
          => [IP!Next]_IP!vars
    BY SameInvitations
    DEF ServicesNext, servicesVars, invVars, Focused, I!vars, IP!vars
  <1>3. [ServicesNext]_servicesVars
          => (Focused("invitations")' <=> Focused("invitations"))
    BY FocusStays
  <1> QED BY <1>1, <1>2, <1>3, PTL DEF ServicesSpec, IP!Spec

\* The same for Sessions.
LEMMA SameSessions ==
  /\ Ses!Init <=> SesP!Init
  /\ Ses!Next <=> SesP!Next
  /\ Ses!vars = SesP!vars
  /\ Ses!TypeOK <=> SesP!TypeOK
  /\ Ses!OpenTokensBounded <=> SesP!OpenTokensBounded
  /\ Ses!PasswordChangeStep <=> SesP!PasswordChangeStep
  /\ Ses!ResetStep <=> SesP!ResetStep
  BY DEF Ses!rows, Ses!vars, Ses!SessionRow, Ses!TokenRow, Ses!Label, Ses!Job,
      Ses!NoJob, Ses!Live, Ses!Open, Ses!Sent, Ses!Free, Ses!At, Ses!Fresh,
      Ses!Init, Ses!Admit, Ses!Goto, Ses!Answer, Ses!Refuse, Ses!RequestLogin,
      Ses!LoginVerify, Ses!LoginOpen, Ses!RequestLogout, Ses!Revoked,
      Ses!Logout, Ses!RevokeAllForIdentity, Ses!RequestReset, Ses!RevokeOpen,
      Ses!InsertToken, Ses!RequestComplete, Ses!Usable, Ses!CompleteLock,
      Ses!CompleteCredential, Ses!CompleteSessions, Ses!CompleteCommit,
      Ses!ExpireSession, Ses!ExpireToken, Ses!Lose, Ses!Arrive, Ses!Serve,
      Ses!Next, Ses!TypeOK, Ses!PasswordChangeStep, Ses!OpenTokensBounded,
      Ses!ResetStep, SesP!rows, SesP!vars, SesP!SessionRow, SesP!TokenRow,
      SesP!Label, SesP!Job, SesP!NoJob, SesP!Live, SesP!Open, SesP!Sent,
      SesP!Free, SesP!At, SesP!Fresh, SesP!Init, SesP!Admit, SesP!Goto,
      SesP!Answer, SesP!Refuse, SesP!RequestLogin, SesP!LoginVerify,
      SesP!LoginOpen, SesP!RequestLogout, SesP!Revoked, SesP!Logout,
      SesP!RevokeAllForIdentity, SesP!RequestReset, SesP!RevokeOpen,
      SesP!InsertToken, SesP!RequestComplete, SesP!Usable, SesP!CompleteLock,
      SesP!CompleteCredential, SesP!CompleteSessions, SesP!CompleteCommit,
      SesP!ExpireSession, SesP!ExpireToken, SesP!Lose, SesP!Arrive,
      SesP!Serve, SesP!Next, SesP!TypeOK, SesP!PasswordChangeStep,
      SesP!OpenTokensBounded, SesP!ResetStep, Ses!Cardinality,
      SesP!Cardinality

\* In focus, Sessions takes its own steps only.
LEMMA SessionsRun ==
  ServicesSpec /\ Focused("sessions") => SesP!Spec
  <1>1. ServicesInit /\ Focused("sessions") => SesP!Init
    BY SameSessions DEF ServicesInit, Focused
  <1>2. Focused("sessions") /\ [ServicesNext]_servicesVars
          => [SesP!Next]_SesP!vars
    BY SameSessions
    DEF ServicesNext, servicesVars, sesVars, Focused, Ses!vars, SesP!vars
  <1>3. [ServicesNext]_servicesVars
          => (Focused("sessions")' <=> Focused("sessions"))
    BY FocusStays
  <1> QED BY <1>1, <1>2, <1>3, PTL DEF ServicesSpec, SesP!Spec

---------------------------------------------------------------------------
(* TenantContext: contexts *)

\* The context of a flow is typed, and only a flow of a Platform Administrator
\* or the system is opened without its Organization.
LEMMA ContextOfFlow ==
  ASSUME NEW f \in Ctx!Flow, NEW o \in Tenant \cup {Absent}
  PROVE  /\ Ctx!ContextOf(f, o) \in Ctx!Context
         /\ Ctx!ContextOf(f, o).org \in {o, Absent}
         /\ Ctx!Broad(Ctx!ContextOf(f, o)) \/ Ctx!ContextOf(f, o).org = o
  <1>1. f \in {"guard", "member", "create", "list", "inviteOwner", "transition",
              "register", "accept", "myOrganization", "dispatch",
              "requestReset"}
    BY DEF Ctx!Flow, Ctx!Statements
  <1>2. Ctx!ContextOf(f, o) \in Ctx!Context
    BY DEF Ctx!ContextOf, Ctx!Context
  <1>3. Ctx!ContextOf(f, o).org \in {o, Absent}
    BY DEF Ctx!ContextOf
  <1>4. CASE f \in {"guard", "member", "inviteOwner", "transition"}
    <2>1. Ctx!ContextOf(f, o).org = o
      BY <1>4 DEF Ctx!ContextOf
    <2> QED BY <1>2, <1>3, <2>1
  <1>5. CASE f \in {"create", "list", "register"}
    <2>1. Ctx!ContextOf(f, o).isPlatformAdmin
      BY <1>5 DEF Ctx!ContextOf
    <2> QED BY <1>2, <1>3, <2>1 DEF Ctx!Broad
  <1>6. CASE f \in {"accept", "myOrganization", "dispatch", "requestReset"}
    <2>1. Ctx!ContextOf(f, o).isSystem
      BY <1>6 DEF Ctx!ContextOf
    <2> QED BY <1>2, <1>3, <2>1 DEF Ctx!Broad
  <1> QED BY <1>1, <1>4, <1>5, <1>6

\* A flow is about an Organization or about none.
LEMMA AboutType ==
  ASSUME Ctx!TypeOK, NEW f \in Ctx!Flow, NEW o \in Ctx!About(f)
  PROVE  o \in Tenant \cup {Absent}
  BY DEF Ctx!About, Ctx!TypeOK

\* The empty context has its type.
LEMMA NoContextType == Ctx!NoContext \in Ctx!Context
  BY DEF Ctx!NoContext, Ctx!Context

\* An idle request has a job of the right type.
LEMMA NoJobType ==
  Ctx!NoJob \in [flow : Ctx!Flow, org : Tenant \cup {Absent}, context : Ctx!Context]
  BY NoContextType DEF Ctx!NoJob, Ctx!Flow, Ctx!Statements

---------------------------------------------------------------------------
(* TenantContext: the inductive invariant *)

ContextInv == Ctx!TypeOK /\ Ctx!SettingsAreOwn

\* IInv holds at the start.
LEMMA ContextInit == Ctx!Init => ContextInv
  <1> SUFFICES ASSUME Ctx!Init PROVE ContextInv
    OBVIOUS
  <1>1. Ctx!TypeOK
    BY NoContextType, NoJobType DEF Ctx!Init, Ctx!TypeOK, Ctx!NoJob
  <1>2. Ctx!SettingsAreOwn
    BY DEF Ctx!Init, Ctx!SettingsAreOwn
  <1> QED BY <1>1, <1>2 DEF ContextInv

\* A transaction begins on an idle connection, which carries no settings.
LEMMA BeginKeeps ==
  ASSUME ServicesConstants, ContextInv, NEW r \in Worker, Ctx!Begin(r)
  PROVE  ContextInv'
  <1>1. PICK c \in Connection, f \in Ctx!Flow :
          \E o \in Ctx!About(f) :
            /\ Ctx!Idle(c)
            /\ conn' = [conn EXCEPT ![r] = c]
            /\ ctxJob' = [ctxJob EXCEPT ![r] = [flow |-> f, org |-> o,
                                          context |-> Ctx!ContextOf(f, o)]]
    BY DEF Ctx!Begin
  <1>2. PICK o \in Ctx!About(f) :
          /\ Ctx!Idle(c)
          /\ conn' = [conn EXCEPT ![r] = c]
          /\ ctxJob' = [ctxJob EXCEPT ![r] = [flow |-> f, org |-> o,
                                        context |-> Ctx!ContextOf(f, o)]]
    BY <1>1
  <1>3. o \in Tenant \cup {Absent} /\ Ctx!ContextOf(f, o) \in Ctx!Context
    BY AboutType, ContextOfFlow DEF ContextInv
  <1>4. Ctx!TypeOK'
    BY <1>2, <1>3 DEF ContextInv, Ctx!TypeOK, Ctx!Begin, Ctx!Idle, Ctx!About
  <1>5. ASSUME NEW k \in Connection, Ctx!Idle(k)'
        PROVE  setting'[k] = Ctx!NoContext
    BY <1>2, <1>5 DEF ServicesConstants, Ctx!NothingIsNothing, ContextInv,
       Ctx!TypeOK, Ctx!SettingsAreOwn, Ctx!Begin, Ctx!Idle
  <1>6. ASSUME NEW q \in Worker, conn'[q] # Absent
        PROVE  Ctx!OwnSettings(q)'
    <2>1. CASE q = r
      <3>1. conn'[q] = c /\ ctxJob'[q].flow = f /\ ctxJob'[q].org = o
            /\ ctxJob'[q].context = Ctx!ContextOf(f, o)
        BY <1>2, <2>1 DEF ContextInv, Ctx!TypeOK
      <3>2. ctxPc'[q] = 0 /\ setting'[c] = Ctx!NoContext
        BY <1>2, <2>1 DEF ContextInv, Ctx!SettingsAreOwn, Ctx!Begin
      <3> QED BY <3>1, <3>2 DEF Ctx!OwnSettings, Ctx!Settings
    <2>2. CASE q # r
      <3>1. conn'[q] = conn[q] /\ ctxJob'[q] = ctxJob[q] /\ Ctx!OwnSettings(q)
        BY <1>2, <1>6, <2>2 DEF ContextInv, Ctx!TypeOK, Ctx!SettingsAreOwn
      <3> QED BY <3>1 DEF Ctx!OwnSettings, Ctx!Settings, Ctx!Begin
    <2> QED BY <2>1, <2>2
  <1>7. ASSUME NEW q \in Worker, conn'[q] = Absent
        PROVE  ctxPc'[q] = 0
    BY <1>2, <1>7 DEF ServicesConstants, Ctx!NothingIsNothing, ContextInv,
       Ctx!TypeOK, Ctx!SettingsAreOwn, Ctx!Begin
  <1> QED BY <1>4, <1>5, <1>6, <1>7 DEF ContextInv, Ctx!SettingsAreOwn

\* Nobody else runs on the connection of a transaction.
LEMMA OneTransaction ==
  ASSUME Ctx!TypeOK, NEW r \in Worker, NEW q \in Worker, q # r,
         conn[r] # Absent
  PROVE  conn[q] # conn[r]
  BY DEF Ctx!TypeOK

\* The settings of the context are put on a connection that carries none.
LEMMA ApplyKeeps ==
  ASSUME ContextInv, NEW r \in Worker, Ctx!Apply(r)
  PROVE  ContextInv'
  <1> DEFINE k == conn[r]
             given == ctxJob[r].context
  <1>1. /\ k \in Connection /\ given \in Ctx!Context
        /\ setting[k] = Ctx!NoContext /\ Ctx!OwnSettings(r)
    BY DEF ContextInv, Ctx!TypeOK, Ctx!SettingsAreOwn, Ctx!OwnSettings,
       Ctx!Settings, Ctx!Apply
  <1>2. setting' = [setting EXCEPT ![k] =
          [org |-> IF given.org = Absent THEN setting[k].org ELSE given.org,
           isPlatformAdmin |-> setting[k].isPlatformAdmin \/ given.isPlatformAdmin,
           isSystem |-> setting[k].isSystem \/ given.isSystem]]
    BY DEF Ctx!Apply
  <1>3. /\ given.org \in Tenant \cup {Absent}
        /\ given.isPlatformAdmin \in BOOLEAN
        /\ given.isSystem \in BOOLEAN
    BY <1>1 DEF Ctx!Context
  <1>4. setting' = [setting EXCEPT ![k] =
          [org |-> given.org, isPlatformAdmin |-> given.isPlatformAdmin,
           isSystem |-> given.isSystem]]
    <2>1. /\ setting[k].org = Absent
          /\ setting[k].isPlatformAdmin = FALSE
          /\ setting[k].isSystem = FALSE
      BY <1>1 DEF Ctx!NoContext
    <2>2. (IF given.org = Absent THEN setting[k].org ELSE given.org) = given.org
      BY <2>1
    <2>3. (setting[k].isPlatformAdmin \/ given.isPlatformAdmin)
            = given.isPlatformAdmin
      BY <1>3, <2>1
    <2>4. (setting[k].isSystem \/ given.isSystem) = given.isSystem
      BY <1>3, <2>1
    <2> HIDE DEF k, given
    <2> QED BY <1>2, <2>2, <2>3, <2>4, Zenon
  <1>5. Ctx!TypeOK'
    <2>1. setting' \in [Connection -> Ctx!Context]
      BY <1>3, <1>4 DEF ContextInv, Ctx!TypeOK, Ctx!Context
    <2> QED BY <2>1 DEF ContextInv, Ctx!TypeOK, Ctx!Apply
  <1>6. ASSUME NEW c \in Connection, Ctx!Idle(c)'
        PROVE  setting'[c] = Ctx!NoContext
    BY <1>1, <1>4, <1>6 DEF ContextInv, Ctx!TypeOK, Ctx!SettingsAreOwn, Ctx!Apply,
       Ctx!Idle
  <1>7. ASSUME NEW q \in Worker, conn'[q] # Absent
        PROVE  Ctx!OwnSettings(q)'
    <2>1. CASE q = r
      <3>1. setting'[k] = [org |-> given.org,
                           isPlatformAdmin |-> given.isPlatformAdmin,
                           isSystem |-> given.isSystem]
        BY <1>1, <1>4 DEF ContextInv, Ctx!TypeOK
      <3>2. ctxPc'[q] = 1 /\ conn'[q] = k /\ ctxJob' = ctxJob
        BY <2>1 DEF ContextInv, Ctx!TypeOK, Ctx!Apply
      <3> QED BY <1>1, <2>1, <3>1, <3>2 DEF Ctx!OwnSettings, Ctx!Settings
    <2>2. CASE q # r
      <3>1. conn'[q] = conn[q] /\ conn[q] # k /\ ctxJob' = ctxJob
            /\ ctxPc'[q] = ctxPc[q]
            /\ Ctx!OwnSettings(q)
        BY <1>7, <2>2, OneTransaction DEF ContextInv, Ctx!TypeOK,
           Ctx!SettingsAreOwn, Ctx!Apply
      <3>2. setting'[conn[q]] = setting[conn[q]]
        BY <1>4, <1>7, <3>1 DEF ContextInv, Ctx!TypeOK
      <3> QED BY <3>1, <3>2 DEF Ctx!OwnSettings, Ctx!Settings
    <2> QED BY <2>1, <2>2
  <1>8. ASSUME NEW q \in Worker, conn'[q] = Absent
        PROVE  ctxPc'[q] = 0
    BY <1>8 DEF ContextInv, Ctx!TypeOK, Ctx!SettingsAreOwn, Ctx!Apply
  <1> QED BY <1>5, <1>6, <1>7, <1>8 DEF ContextInv, Ctx!SettingsAreOwn

\* A statement changes no setting.
LEMMA StatementKeeps ==
  ASSUME ContextInv, NEW r \in Worker, Ctx!Step(r)
  PROVE  ContextInv'
  <1>1. /\ ctxPc' = [ctxPc EXCEPT ![r] = ctxPc[r] + 1] /\ ctxPc[r] > 0
        /\ conn[r] # Absent
        /\ UNCHANGED <<created, setting, conn, ctxJob>>
    BY DEF Ctx!Step, Ctx!Running
  <1>2. Ctx!TypeOK'
    BY <1>1 DEF ContextInv, Ctx!TypeOK
  <1>3. ASSUME NEW q \in Worker, conn'[q] # Absent
        PROVE  Ctx!OwnSettings(q)'
    <2>1. Ctx!OwnSettings(q)
      BY <1>1, <1>3 DEF ContextInv, Ctx!SettingsAreOwn
    <2>2. ctxPc'[q] = 0 <=> ctxPc[q] = 0
      BY <1>1 DEF ContextInv, Ctx!TypeOK
    <2>3. ctxPc'[q] > 0 <=> ctxPc[q] > 0
      BY <1>1 DEF ContextInv, Ctx!TypeOK
    <2> QED BY <1>1, <2>1, <2>2, <2>3 DEF Ctx!OwnSettings, Ctx!Settings
  <1>4. Ctx!SettingsAreOwn'
    BY <1>1, <1>3 DEF ContextInv, Ctx!TypeOK, Ctx!SettingsAreOwn, Ctx!Idle
  <1> QED BY <1>2, <1>4 DEF ContextInv

\* Scoping a transaction replaces the Organization of its settings by the one
\* it is about.
LEMMA ScopeToKeeps ==
  ASSUME ContextInv, NEW r \in Worker, Ctx!ScopeTo(r)
  PROVE  ContextInv'
  <1> DEFINE k == conn[r]
  <1>1. /\ k \in Connection /\ k # Absent /\ ctxPc[r] > 0 /\ Ctx!OwnSettings(r)
        /\ setting[k] \in Ctx!Context /\ ctxJob[r].org \in Tenant \cup {Absent}
    BY DEF ContextInv, Ctx!TypeOK, Ctx!SettingsAreOwn, Ctx!ScopeTo, Ctx!Running
  <1>2. /\ setting' = [setting EXCEPT ![k].org = ctxJob[r].org]
        /\ ctxPc' = [ctxPc EXCEPT ![r] = ctxPc[r] + 1]
        /\ UNCHANGED <<created, conn, ctxJob>>
    BY DEF Ctx!ScopeTo
  <1>3. /\ setting'[k].org = ctxJob[r].org
        /\ setting'[k].isPlatformAdmin = setting[k].isPlatformAdmin
        /\ setting'[k].isSystem = setting[k].isSystem
        /\ setting'[k] \in Ctx!Context
        /\ \A c \in Connection \ {k} : setting'[c] = setting[c]
        /\ setting' = [c \in Connection |-> setting'[c]]
    BY <1>1, <1>2 DEF ContextInv, Ctx!TypeOK, Ctx!Context
  <1>4. Ctx!TypeOK'
    <2>1. setting' \in [Connection -> Ctx!Context]
      BY <1>3 DEF ContextInv, Ctx!TypeOK
    <2> QED BY <1>2, <2>1 DEF ContextInv, Ctx!TypeOK
  <1>5. ASSUME NEW c \in Connection, Ctx!Idle(c)'
        PROVE  setting'[c] = Ctx!NoContext
    BY <1>2, <1>3, <1>5 DEF ContextInv, Ctx!SettingsAreOwn, Ctx!Idle
  <1>6. ASSUME NEW q \in Worker, conn'[q] # Absent
        PROVE  Ctx!OwnSettings(q)'
    <2>1. CASE q = r
      <3>1. ctxPc'[q] > 0 /\ ctxPc'[q] # 0
        BY <1>1, <1>2, <2>1 DEF ContextInv, Ctx!TypeOK
      <3> QED BY <1>1, <1>2, <1>3, <2>1, <3>1 DEF Ctx!OwnSettings, Ctx!Settings
    <2>2. CASE q # r
      <3>1. conn[q] # k /\ conn[q] \in Connection /\ ctxPc'[q] = ctxPc[q]
            /\ Ctx!OwnSettings(q)
        BY <1>1, <1>2, <1>6, <2>2, OneTransaction
           DEF ContextInv, Ctx!TypeOK, Ctx!SettingsAreOwn
      <3>2. setting'[conn[q]] = setting[conn[q]]
        BY <1>3, <3>1
      <3> QED BY <1>2, <3>1, <3>2 DEF Ctx!OwnSettings, Ctx!Settings
    <2> QED BY <2>1, <2>2
  <1>7. ASSUME NEW q \in Worker, conn'[q] = Absent
        PROVE  ctxPc'[q] = 0
    BY <1>1, <1>2, <1>7 DEF ContextInv, Ctx!TypeOK, Ctx!SettingsAreOwn
  <1> QED BY <1>4, <1>5, <1>6, <1>7 DEF ContextInv, Ctx!SettingsAreOwn

\* The end of a transaction takes its settings off the connection.
LEMMA ReleaseKeeps ==
  ASSUME ContextInv, NEW r \in Worker, conn[r] # Absent, Ctx!Release(r),
         created' \in SUBSET Tenant
  PROVE  ContextInv'
  <1> DEFINE k == conn[r]
  <1>1. /\ conn' = [conn EXCEPT ![r] = Absent]
        /\ ctxPc' = [ctxPc EXCEPT ![r] = 0]
        /\ ctxJob' = [ctxJob EXCEPT ![r] = Ctx!NoJob]
        /\ setting' = [setting EXCEPT ![k] = Ctx!NoContext]
        /\ k \in Connection
    BY DEF Ctx!Release, Ctx!Finish, ContextInv, Ctx!TypeOK
  <1>2. Ctx!TypeOK'
    BY <1>1, NoContextType, NoJobType DEF ContextInv, Ctx!TypeOK, Ctx!NoJob
  <1>3. ASSUME NEW c \in Connection, Ctx!Idle(c)'
        PROVE  setting'[c] = Ctx!NoContext
    BY <1>1, <1>3 DEF ContextInv, Ctx!TypeOK, Ctx!SettingsAreOwn, Ctx!Idle
  <1>4. ASSUME NEW q \in Worker, conn'[q] # Absent
        PROVE  Ctx!OwnSettings(q)'
    <2>1. q # r /\ conn'[q] = conn[q]
      BY <1>1, <1>4 DEF ContextInv, Ctx!TypeOK
    <2>2. conn[q] # k /\ ctxPc'[q] = ctxPc[q] /\ ctxJob'[q] = ctxJob[q]
          /\ Ctx!OwnSettings(q)
      BY <1>1, <1>4, <2>1, OneTransaction DEF ContextInv, Ctx!TypeOK,
         Ctx!SettingsAreOwn
    <2>3. setting'[conn[q]] = setting[conn[q]]
      BY <1>1, <1>4, <2>1, <2>2 DEF ContextInv, Ctx!TypeOK
    <2> QED BY <2>1, <2>2, <2>3 DEF Ctx!OwnSettings, Ctx!Settings
  <1>5. ASSUME NEW q \in Worker, conn'[q] = Absent
        PROVE  ctxPc'[q] = 0
    BY <1>1, <1>5 DEF ContextInv, Ctx!TypeOK, Ctx!SettingsAreOwn
  <1> QED BY <1>2, <1>3, <1>4, <1>5 DEF ContextInv, Ctx!SettingsAreOwn

\* Every step keeps IInv.
LEMMA ContextNext ==
  ASSUME ServicesConstants
  PROVE  ContextInv /\ [Ctx!Next]_Ctx!vars => ContextInv'
  <1> SUFFICES ASSUME ContextInv, [Ctx!Next]_Ctx!vars PROVE ContextInv'
    OBVIOUS
  <1>1. ASSUME NEW r \in Worker, Ctx!Commit(r) PROVE ContextInv'
    <2>1. created' \in SUBSET Tenant
      BY <1>1 DEF ContextInv, Ctx!TypeOK, Ctx!Commit, Ctx!Existing
    <2> QED BY <1>1, <2>1, ReleaseKeeps DEF Ctx!Commit, Ctx!Running
  <1>2. ASSUME NEW r \in Worker, Ctx!Rollback(r) PROVE ContextInv'
    <2>1. created' \in SUBSET Tenant
      BY <1>2 DEF ContextInv, Ctx!TypeOK, Ctx!Rollback
    <2> QED BY <1>2, <2>1, ReleaseKeeps DEF Ctx!Rollback
  <1>3. CASE UNCHANGED Ctx!vars
    BY <1>3 DEF Ctx!vars, ContextInv, Ctx!TypeOK, Ctx!SettingsAreOwn,
       Ctx!OwnSettings, Ctx!Settings, Ctx!Idle
  <1> QED
    BY <1>1, <1>2, <1>3, BeginKeeps, ApplyKeeps, StatementKeeps, ScopeToKeeps
       DEF Ctx!Next

\* ContextInv is an invariant.
LEMMA ContextInvariant ==
  ASSUME ServicesConstants PROVE Ctx!Spec => []ContextInv
  <1> QED BY ContextInit, ContextNext, PTL DEF Ctx!Spec

\* In focus, TenantContext takes its own steps only.
LEMMA ContextRun ==
  ServicesSpec /\ Focused("context") => Ctx!Spec
  <1>1. ServicesInit /\ Focused("context") => Ctx!Init
    BY DEF ServicesInit, Focused
  <1>2. Focused("context") /\ [ServicesNext]_servicesVars
          => [Ctx!Next]_Ctx!vars
    BY DEF ServicesNext, servicesVars, ctxVars, Focused, Ctx!vars
  <1>3. [ServicesNext]_servicesVars
          => (Focused("context")' <=> Focused("context"))
    BY FocusStays
  <1> QED BY <1>1, <1>2, <1>3, PTL DEF ServicesSpec, Ctx!Spec

\* SEC-02: a connection carries the settings of the transaction on it and of no
\* other, whichever transactions it carried before.
THEOREM SettingsInvariant ==
  ASSUME ServicesConstants PROVE ServicesSpec => []SettingsAreOwn
  <1>1. ContextInv \/ ~Focused("context") => SettingsAreOwn
    BY DEF ContextInv, SettingsAreOwn, Focused
  <1>2. [ServicesNext]_servicesVars
          => (Focused("context")' <=> Focused("context"))
    BY FocusStays
  <1> QED BY ContextRun, ContextInvariant, <1>1, <1>2, PTL DEF ServicesSpec

---------------------------------------------------------------------------
(* TenantContext: the isolation *)

\* A flow of neither a Platform Administrator nor the system is opened with
\* the Organization it is about, and any flow with that one or none.
LEMMA ScopedToItsOwn ==
  ASSUME ContextInv, NEW r \in Worker, Ctx!Running(r)
  PROVE  /\ Ctx!Settings(r).org \in {ctxJob[r].org, Absent}
         /\ ~Ctx!Broad(ctxJob[r].context) =>
              /\ Ctx!Settings(r).org = ctxJob[r].context.org
              /\ ~Ctx!Broad(Ctx!Settings(r))
  <1>1. /\ Ctx!OwnSettings(r) /\ ctxPc[r] > 0
        /\ ctxJob[r].flow \in Ctx!Flow /\ ctxJob[r].org \in Tenant \cup {Absent}
    BY DEF ContextInv, Ctx!TypeOK, Ctx!SettingsAreOwn, Ctx!Running
  <1>2. /\ ctxJob[r].context.org \in {ctxJob[r].org, Absent}
        /\ Ctx!Broad(ctxJob[r].context) \/ ctxJob[r].context.org = ctxJob[r].org
    BY <1>1, ContextOfFlow DEF Ctx!OwnSettings
  <1>3. Ctx!Broad(Ctx!Settings(r)) <=> Ctx!Broad(ctxJob[r].context)
    BY <1>1 DEF Ctx!OwnSettings, Ctx!Broad
  <1> QED BY <1>1, <1>2, <1>3 DEF Ctx!OwnSettings

\* The policies show settings that are not broad only the rows of the
\* Organization they name.
LEMMA PoliciesConfine ==
  ASSUME NEW c \in Ctx!Command, NEW t \in Ctx!Table, NEW o, NEW s, ~Ctx!Broad(s),
         Ctx!Reaches(c, t, o, s)
  PROVE  Ctx!Current(o, s)
  BY DEF Ctx!Reaches, Ctx!Policy, Ctx!OrganizationPolicy, Ctx!CompanyPolicy,
         Ctx!MembershipPolicy, Ctx!InvitationPolicy, Ctx!OutboxPolicy,
         Ctx!EvidencePolicy,
         Ctx!UpdatesOrganization, Ctx!Broad, Ctx!Command, Ctx!Table, Ctx!Operational

\* They let any settings change Organizations, members and Companies of only
\* the Organization they name.
LEMMA PoliciesConfineWrites ==
  ASSUME NEW c \in Ctx!Command, NEW t \in Ctx!Table, NEW o, NEW s,
         Ctx!Reaches(c, t, o, s),
         t = "companies" \/ (t \in {"organizations", "memberships"}
                            /\ c \in {"lock", "update", "delete"})
  PROVE  Ctx!Current(o, s)
  BY DEF Ctx!Reaches, Ctx!Policy, Ctx!OrganizationPolicy, Ctx!CompanyPolicy,
         Ctx!MembershipPolicy, Ctx!UpdatesOrganization, Ctx!Command

\* IInv implies TenantIsolation.
LEMMA IsolationFollows == ContextInv => Ctx!TenantIsolation
  <1> SUFFICES ASSUME ContextInv, NEW r \in Worker, NEW c \in Ctx!Command,
                      NEW t \in Ctx!Table, Ctx!Running(r),
                      NEW o \in Ctx!Touched(r, c, t)
               PROVE  /\ ~Ctx!Broad(ctxJob[r].context) => o = ctxJob[r].context.org
                      /\ t = "companies" \/ (t \in {"organizations", "memberships"}
                                              /\ c \in {"lock", "update", "delete"})
                           => o = ctxJob[r].org
    BY DEF Ctx!TenantIsolation
  <1>1. Ctx!Reaches(c, t, o, Ctx!Settings(r))
    BY DEF Ctx!Touched
  <1>2. ASSUME ~Ctx!Broad(ctxJob[r].context) PROVE o = ctxJob[r].context.org
    BY <1>1, <1>2, ScopedToItsOwn, PoliciesConfine DEF Ctx!Current
  <1>3. ASSUME t = "companies" \/ (t \in {"organizations", "memberships"}
                                   /\ c \in {"lock", "update", "delete"})
        PROVE  o = ctxJob[r].org
    BY <1>1, <1>3, ScopedToItsOwn, PoliciesConfineWrites DEF Ctx!Current
  <1> QED BY <1>2, <1>3

\* Row-level security confines every transaction, on whatever connection of
\* the pool and whatever ran there before.
THEOREM Isolation ==
  ASSUME ServicesConstants PROVE ServicesSpec => []TenantIsolation
  <1>1. Ctx!TenantIsolation \/ ~Focused("context") => TenantIsolation
    BY DEF TenantIsolation, Focused
  <1>2. [ServicesNext]_servicesVars
          => (Focused("context")' <=> Focused("context"))
    BY FocusStays
  <1> QED BY ContextRun, ContextInvariant, IsolationFollows, <1>1, <1>2, PTL
          DEF ServicesSpec

---------------------------------------------------------------------------
(* What the policies leave to the services *)

\* What each policy lets a transaction do that is scoped to the Organization
\* it is about, and what it lets a Platform Administrator or the system do.
LEMMA ScopedIsPermitted ==
  ASSUME NEW c \in Ctx!Command, NEW t, NEW o, NEW s, Ctx!Current(o, s),
         \/ t \in {"companies", "memberships", "invitations", "email_outbox"}
         \/ t = "organizations" /\ c = "select"
         \/ t = "organizations" /\ c \in {"lock", "update"} /\ Ctx!Broad(s)
         \/ t = "admin_evidence" /\ c = "insert"
  PROVE  Ctx!Permitted(c, t, o, s)
  <1>1. CASE t = "companies"
    BY <1>1 DEF Ctx!Permitted, Ctx!Reaches, Ctx!Policy, Ctx!CompanyPolicy,
       Ctx!Command
  <1>2. CASE t = "memberships"
    BY <1>2 DEF Ctx!Permitted, Ctx!Reaches, Ctx!Policy, Ctx!MembershipPolicy,
       Ctx!Command
  <1>3. CASE t = "invitations"
    BY <1>3 DEF Ctx!Permitted, Ctx!Reaches, Ctx!Policy, Ctx!InvitationPolicy,
       Ctx!Command
  <1>4. CASE t = "email_outbox"
    BY <1>4 DEF Ctx!Permitted, Ctx!Reaches, Ctx!Policy, Ctx!OutboxPolicy,
       Ctx!Command
  <1>5. CASE t = "organizations"
    BY <1>5 DEF Ctx!Permitted, Ctx!Reaches, Ctx!Policy, Ctx!OrganizationPolicy,
                Ctx!UpdatesOrganization, Ctx!Command
  <1>6. CASE t = "admin_evidence"
    BY <1>6 DEF Ctx!Permitted, Ctx!Reaches, Ctx!Policy, Ctx!EvidencePolicy,
       Ctx!Command
  <1> QED BY <1>1, <1>2, <1>3, <1>4, <1>5, <1>6

\* What the policies permit a Platform Administrator, whatever the tenant.
LEMMA AdministratorIsPermitted ==
  ASSUME NEW c \in Ctx!Command, NEW t, NEW o, NEW s, s.isPlatformAdmin,
         \/ t \in {"invitations", "email_outbox"}
         \/ t = "organizations" /\ c \in {"select", "insert"}
         \/ t = "admin_evidence" /\ c \in {"select", "insert"}
  PROVE  Ctx!Permitted(c, t, o, s)
  <1>1. CASE t = "invitations"
    BY <1>1 DEF Ctx!Permitted, Ctx!Reaches, Ctx!Policy, Ctx!InvitationPolicy,
       Ctx!Command
  <1>2. CASE t = "email_outbox"
    BY <1>2 DEF Ctx!Permitted, Ctx!Reaches, Ctx!Policy, Ctx!OutboxPolicy,
       Ctx!Broad, Ctx!Command
  <1>3. CASE t = "organizations"
    BY <1>3 DEF Ctx!Permitted, Ctx!Reaches, Ctx!Policy, Ctx!OrganizationPolicy,
       Ctx!Broad
  <1>4. CASE t = "admin_evidence"
    BY <1>4 DEF Ctx!Permitted, Ctx!Reaches, Ctx!Policy, Ctx!EvidencePolicy,
       Ctx!Broad
  <1> QED BY <1>1, <1>2, <1>3, <1>4

\* What the policies permit the system, whatever the tenant.
LEMMA SystemIsPermitted ==
  ASSUME NEW c \in Ctx!Command, NEW t, NEW o, NEW s, s.isSystem,
         \/ t = "email_outbox"
         \/ t = "invitations" /\ c \in {"select", "lock"}
         \/ t \in {"memberships", "organizations"} /\ c = "select"
  PROVE  Ctx!Permitted(c, t, o, s)
  <1>1. CASE t = "email_outbox"
    BY <1>1 DEF Ctx!Permitted, Ctx!Reaches, Ctx!Policy, Ctx!OutboxPolicy,
       Ctx!Broad, Ctx!Command
  <1>2. CASE t = "invitations"
    BY <1>2 DEF Ctx!Permitted, Ctx!Reaches, Ctx!Policy, Ctx!InvitationPolicy
  <1>3. CASE t = "memberships"
    BY <1>3 DEF Ctx!Permitted, Ctx!Reaches, Ctx!Policy, Ctx!MembershipPolicy,
       Ctx!Broad
  <1>4. CASE t = "organizations"
    BY <1>4 DEF Ctx!Permitted, Ctx!Reaches, Ctx!Policy, Ctx!OrganizationPolicy,
       Ctx!Broad
  <1> QED BY <1>1, <1>2, <1>3, <1>4

\* The statement of a flow on a table.
IsOn(x, c, t) == x.command = c /\ x.table = t

\* The fields of a statement.
LEMMA StatementIs == ASSUME NEW c, NEW t PROVE IsOn(Ctx!S(c, t), c, t)
  BY DEF IsOn, Ctx!S

\* The transaction of a flow that is scoped from its first statement on.
LEMMA MembersArePermitted ==
  ASSUME NEW n \in 1..Len(Ctx!Member), NEW o, NEW s, Ctx!Current(o, s)
  PROVE  Ctx!Permitted(Ctx!Member[n].command, Ctx!Member[n].table, o, s)
  <1>1. /\ n \in 1..9
        /\ Ctx!Member[1] = Ctx!S("select", "organizations")
        /\ Ctx!Member[2] = Ctx!S("lock", "memberships")
        /\ Ctx!Member[3] = Ctx!S("update", "memberships")
        /\ Ctx!Member[4] = Ctx!S("delete", "companies")
        /\ Ctx!Member[5] = Ctx!S("insert", "companies")
        /\ Ctx!Member[6] = Ctx!S("insert", "invitations")
        /\ Ctx!Member[7] = Ctx!S("update", "invitations")
        /\ Ctx!Member[8] = Ctx!S("insert", "email_outbox")
        /\ Ctx!Member[9] = Ctx!S("insert", "admin_evidence")
    BY DEF Ctx!Member
  <1>2. \/ n = 1 \/ n = 2 \/ n = 3 \/ n = 4 \/ n = 5 \/ n = 6 \/ n = 7
        \/ n = 8 \/ n = 9
    BY <1>1
  <1>3. /\ Ctx!Member[n].command \in Ctx!Command
        /\ \/ Ctx!Member[n].table \in {"companies", "memberships", "invitations",
                                   "email_outbox"}
           \/ IsOn(Ctx!Member[n], "select", "organizations")
           \/ IsOn(Ctx!Member[n], "insert", "admin_evidence")
    BY <1>1, <1>2, StatementIs DEF IsOn, Ctx!Command
  <1> QED BY <1>3, ScopedIsPermitted DEF IsOn
\* From which statement on a flow is scoped to the Organization it is about.
ScopedAt(f, n) ==
  \/ f \in {"guard", "member", "inviteOwner", "transition"}
  \/ f = "register" /\ n > 3
  \/ f = "accept" /\ n > 2

\* No flow has a statement that the policies refuse in its settings.
LEMMA FlowIsPermitted ==
  ASSUME NEW f \in Ctx!Flow, NEW n \in 1..Len(Ctx!Statements[f]),
         Ctx!Statements[f][n] # Ctx!Scope, NEW o, NEW s,
         ScopedAt(f, n) => Ctx!Current(o, s),
         f \in {"create", "list", "inviteOwner", "transition", "register"} =>
           s.isPlatformAdmin,
         f \in {"accept", "myOrganization", "dispatch", "requestReset"} =>
           s.isSystem
  PROVE  Ctx!Permitted(Ctx!Statements[f][n].command, Ctx!Statements[f][n].table,
                       o, s)
  <1> DEFINE x == Ctx!Statements[f][n]
  <1>1. f \in {"guard", "member", "create", "list", "inviteOwner", "transition",
              "register", "accept", "myOrganization", "dispatch",
              "requestReset"}
    BY DEF Ctx!Flow, Ctx!Statements
  <1>2. CASE f = "guard"
    <2>1. n \in 1..1 /\ Ctx!Statements[f] = <<Ctx!S("select", "memberships")>>
      BY <1>2 DEF Ctx!Statements
    <2>2. IsOn(x, "select", "memberships")
      BY <2>1, StatementIs
    <2> QED BY <1>2, <2>2, ScopedIsPermitted DEF IsOn, ScopedAt, Ctx!Command
  <1>3. CASE f = "member"
    <2>1. Ctx!Statements[f] = Ctx!Member
      BY <1>3 DEF Ctx!Statements
    <2> QED BY <1>3, <2>1, MembersArePermitted DEF ScopedAt
  <1>4. CASE f = "create"
    <2>1. /\ n \in 1..2
          /\ Ctx!Statements[f][1] = Ctx!S("insert", "organizations")
          /\ Ctx!Statements[f][2] = Ctx!S("insert", "admin_evidence")
      BY <1>4 DEF Ctx!Statements
    <2>2. n = 1 \/ n = 2
      BY <2>1
    <2>3. IsOn(x, "insert", "organizations") \/ IsOn(x, "insert", "admin_evidence")
      BY <2>1, <2>2, StatementIs
    <2> QED BY <1>4, <2>3, AdministratorIsPermitted DEF IsOn, Ctx!Command
  <1>5. CASE f = "list"
    <2>1. n \in 1..1 /\ Ctx!Statements[f] = <<Ctx!S("select", "organizations")>>
      BY <1>5 DEF Ctx!Statements
    <2>2. IsOn(x, "select", "organizations")
      BY <2>1, StatementIs
    <2> QED BY <1>5, <2>2, AdministratorIsPermitted DEF IsOn, Ctx!Command
  <1>6. CASE f = "inviteOwner"
    <2>1. /\ n \in 1..4
          /\ Ctx!Statements[f][1] = Ctx!S("select", "invitations")
          /\ Ctx!Statements[f][2] = Ctx!S("insert", "invitations")
          /\ Ctx!Statements[f][3] = Ctx!S("insert", "email_outbox")
          /\ Ctx!Statements[f][4] = Ctx!S("insert", "admin_evidence")
      BY <1>6 DEF Ctx!Statements, Ctx!InviteOwner
    <2>2. n = 1 \/ n = 2 \/ n = 3 \/ n = 4
      BY <2>1
    <2>3. /\ x.command \in Ctx!Command
          /\ \/ x.table \in {"invitations", "email_outbox"}
             \/ IsOn(x, "insert", "admin_evidence")
      BY <2>1, <2>2, StatementIs DEF IsOn, Ctx!Command
    <2> QED BY <1>6, <2>3, AdministratorIsPermitted DEF IsOn
  <1>7. CASE f = "transition"
    <2>1. /\ n \in 1..3
          /\ Ctx!Statements[f][1] = Ctx!S("lock", "organizations")
          /\ Ctx!Statements[f][2] = Ctx!S("update", "organizations")
          /\ Ctx!Statements[f][3] = Ctx!S("insert", "admin_evidence")
      BY <1>7 DEF Ctx!Statements, Ctx!Transition
    <2>2. n = 1 \/ n = 2 \/ n = 3
      BY <2>1
    <2>3. /\ x.command \in Ctx!Command
          /\ \/ x.table = "organizations" /\ x.command \in {"lock", "update"}
             \/ IsOn(x, "insert", "admin_evidence")
      BY <2>1, <2>2, StatementIs DEF IsOn, Ctx!Command
    <2> QED BY <1>7, <2>3, ScopedIsPermitted DEF IsOn, ScopedAt, Ctx!Broad
  <1>8. CASE f = "register"
    <2>1. /\ n \in 1..5
          /\ Ctx!Statements[f][1] = Ctx!S("insert", "organizations")
          /\ Ctx!Statements[f][2] = Ctx!S("insert", "admin_evidence")
          /\ Ctx!Statements[f][3] = Ctx!Scope
          /\ Ctx!Statements[f][4] = Ctx!S("insert", "memberships")
          /\ Ctx!Statements[f][5] = Ctx!S("insert", "admin_evidence")
      BY <1>8 DEF Ctx!Statements, Ctx!Register
    <2>2. n = 1 \/ n = 2 \/ n = 4 \/ n = 5
      BY <2>1
    <2>3. \/ IsOn(x, "insert", "organizations")
          \/ IsOn(x, "insert", "admin_evidence")
          \/ IsOn(x, "insert", "memberships") /\ n > 3
      BY <2>1, <2>2, StatementIs
    <2> QED BY <1>8, <2>3, AdministratorIsPermitted, ScopedIsPermitted
            DEF IsOn, ScopedAt, Ctx!Command
  <1>9. CASE f = "accept"
    <2>1. /\ n \in 1..10
          /\ Ctx!Statements[f][1] = Ctx!S("lock", "invitations")
          /\ Ctx!Statements[f][2] = Ctx!Scope
          /\ Ctx!Statements[f][3] = Ctx!S("select", "memberships")
          /\ Ctx!Statements[f][4] = Ctx!S("update", "memberships")
          /\ Ctx!Statements[f][5] = Ctx!S("insert", "memberships")
          /\ Ctx!Statements[f][6] = Ctx!S("delete", "companies")
          /\ Ctx!Statements[f][7] = Ctx!S("insert", "companies")
          /\ Ctx!Statements[f][8] = Ctx!S("update", "invitations")
          /\ Ctx!Statements[f][9] = Ctx!S("update", "organizations")
          /\ Ctx!Statements[f][10] = Ctx!S("insert", "admin_evidence")
      BY <1>9 DEF Ctx!Statements, Ctx!Accept
    <2>2. \/ n = 1 \/ n = 3 \/ n = 4 \/ n = 5 \/ n = 6 \/ n = 7 \/ n = 8
          \/ n = 9 \/ n = 10
      BY <2>1
    <2>3. n = 1 => IsOn(x, "lock", "invitations")
      BY <2>1, StatementIs
    <2>4. n \in {3, 4, 5, 6, 7, 8} =>
            /\ x.command \in Ctx!Command
            /\ x.table \in {"companies", "memberships", "invitations"}
      <3>1. /\ n = 3 => IsOn(x, "select", "memberships")
            /\ n = 4 => IsOn(x, "update", "memberships")
            /\ n = 5 => IsOn(x, "insert", "memberships")
        BY <2>1, StatementIs
      <3>2. /\ n = 6 => IsOn(x, "delete", "companies")
            /\ n = 7 => IsOn(x, "insert", "companies")
            /\ n = 8 => IsOn(x, "update", "invitations")
        BY <2>1, StatementIs
      <3> QED BY <3>1, <3>2 DEF IsOn, Ctx!Command
    <2>5. /\ n = 9 => IsOn(x, "update", "organizations")
          /\ n = 10 => IsOn(x, "insert", "admin_evidence")
      BY <2>1, StatementIs
    <2>6. CASE n = 1
      BY <1>9, <2>3, <2>6, SystemIsPermitted DEF IsOn, Ctx!Command
    <2>7. CASE n \in {3, 4, 5, 6, 7, 8}
      <3>1. Ctx!Current(o, s)
        BY <1>9, <2>7 DEF ScopedAt
      <3> QED BY <2>4, <2>7, <3>1, ScopedIsPermitted
    <2>8. CASE n \in {9, 10}
      <3>1. Ctx!Current(o, s) /\ Ctx!Broad(s)
        BY <1>9, <2>8 DEF ScopedAt, Ctx!Broad
      <3> QED BY <2>5, <2>8, <3>1, ScopedIsPermitted DEF IsOn, Ctx!Command
    <2> QED BY <2>2, <2>6, <2>7, <2>8
  <1>10. CASE f = "myOrganization"
    <2>1. /\ n \in 1..2
          /\ Ctx!Statements[f][1] = Ctx!S("select", "memberships")
          /\ Ctx!Statements[f][2] = Ctx!S("select", "organizations")
      BY <1>10 DEF Ctx!Statements
    <2>2. n = 1 \/ n = 2
      BY <2>1
    <2>3. IsOn(x, "select", "memberships") \/ IsOn(x, "select", "organizations")
      BY <2>1, <2>2, StatementIs
    <2> QED BY <1>10, <2>3, SystemIsPermitted DEF IsOn, Ctx!Command
  <1>11. CASE f = "dispatch"
    <2>1. /\ n \in 1..2
          /\ Ctx!Statements[f][1] = Ctx!S("lock", "email_outbox")
          /\ Ctx!Statements[f][2] = Ctx!S("update", "email_outbox")
      BY <1>11 DEF Ctx!Statements
    <2>2. n = 1 \/ n = 2
      BY <2>1
    <2>3. x.command \in Ctx!Command /\ x.table = "email_outbox"
      BY <2>1, <2>2, StatementIs DEF IsOn, Ctx!Command
    <2> QED BY <1>11, <2>3, SystemIsPermitted
  <1>12. CASE f = "requestReset"
    <2>1. n \in 1..1 /\ Ctx!Statements[f] = <<Ctx!S("insert", "email_outbox")>>
      BY <1>12 DEF Ctx!Statements
    <2>2. IsOn(x, "insert", "email_outbox")
      BY <2>1, StatementIs
    <2> QED BY <1>12, <2>2, SystemIsPermitted DEF IsOn, Ctx!Command
  <1> QED BY <1>1, <1>2, <1>3, <1>4, <1>5, <1>6, <1>7, <1>8, <1>9, <1>10, <1>11,
             <1>12
\* A transaction is about an Organization unless its flow needs none, and what
\* acceptCore and register do after they have scoped it is done in the
\* settings of that Organization.
ScopedInTime(r) ==
  conn[r] # Absent =>
    /\ ctxJob[r].flow \in {"dispatch", "requestReset"} \/ ctxJob[r].org \in Tenant
    /\ ctxJob[r].flow = "register" /\ ctxPc[r] > 3 =>
         Ctx!Settings(r).org = ctxJob[r].org
    /\ ctxJob[r].flow = "accept" /\ ctxPc[r] > 2 =>
         Ctx!Settings(r).org = ctxJob[r].org

\* A transaction of another request goes on as it was.
LEMMA TransactionsGoOn ==
  ASSUME Ctx!TypeOK, NEW r \in Worker, NEW q \in Worker, q # r, conn'[q] # Absent,
         \/ Ctx!Begin(r) \/ Ctx!Apply(r) \/ Ctx!Step(r) \/ Ctx!ScopeTo(r)
         \/ Ctx!Commit(r)
         \/ Ctx!Rollback(r)
  PROVE  /\ conn[q] # Absent /\ ctxJob'[q] = ctxJob[q] /\ ctxPc'[q] = ctxPc[q]
         /\ Ctx!Settings(q)' = Ctx!Settings(q)
  <1>1. conn'[q] = conn[q] /\ ctxJob'[q] = ctxJob[q] /\ ctxPc'[q] = ctxPc[q]
    BY DEF Ctx!TypeOK, Ctx!Begin, Ctx!Apply, Ctx!Step, Ctx!ScopeTo, Ctx!Commit,
       Ctx!Rollback, Ctx!Release, Ctx!Finish
  <1>2. CASE UNCHANGED setting
    BY <1>1, <1>2 DEF Ctx!Settings
  <1>3. CASE /\ Ctx!Apply(r) \/ Ctx!ScopeTo(r) \/ Ctx!Commit(r) \/ Ctx!Rollback(r)
             /\ conn[r] # Absent
    <2>1. \E s : setting' = [setting EXCEPT ![conn[r]] = s]
      BY <1>3 DEF Ctx!Apply, Ctx!ScopeTo, Ctx!Commit, Ctx!Rollback, Ctx!Release
    <2>2. conn[q] # conn[r]
      BY <1>3, OneTransaction
    <2> QED BY <1>1, <2>1, <2>2 DEF Ctx!Settings, Ctx!TypeOK
  <1> QED BY <1>1, <1>2, <1>3
          DEF Ctx!Begin, Ctx!Apply, Ctx!Step, Ctx!ScopeTo, Ctx!Commit,
             Ctx!Rollback, Ctx!Running

\* What ScopedInTime says of a request stays true.
LEMMA ScopedInTimeStays ==
  ASSUME ContextInv, NEW r \in Worker, ScopedInTime(r), [Ctx!Next]_Ctx!vars
  PROVE  ScopedInTime(r)'
  <1>1. Ctx!TypeOK /\ ctxPc[r] \in Nat
    BY DEF ContextInv, Ctx!TypeOK
  <1>2. CASE UNCHANGED Ctx!vars
    BY <1>2 DEF Ctx!vars, ScopedInTime, Ctx!Settings
  <1>3. ASSUME NEW q \in Worker, q # r,
               \/ Ctx!Begin(q) \/ Ctx!Apply(q) \/ Ctx!Step(q) \/ Ctx!ScopeTo(q)
               \/ Ctx!Commit(q)
               \/ Ctx!Rollback(q)
        PROVE  ScopedInTime(r)'
    BY <1>1, <1>3, TransactionsGoOn DEF ScopedInTime
  <1>4. CASE Ctx!Begin(r)
    <2>1. PICK f \in Ctx!Flow : \E o \in Ctx!About(f) : \E k :
            ctxJob' = [ctxJob EXCEPT ![r] = [flow |-> f, org |-> o, context |-> k]]
      BY <1>4 DEF Ctx!Begin
    <2>2. PICK o \in Ctx!About(f) : \E k :
            ctxJob' = [ctxJob EXCEPT ![r] = [flow |-> f, org |-> o, context |-> k]]
      BY <2>1
    <2>3. f \in {"dispatch", "requestReset"} \/ o \in Tenant
      BY <1>1 DEF Ctx!About, Ctx!TypeOK
    <2>4. ctxJob'[r].flow = f /\ ctxJob'[r].org = o
      BY <1>1, <2>2 DEF Ctx!TypeOK
    <2>5. ctxPc'[r] = 0
      BY <1>4 DEF Ctx!Begin, ContextInv, Ctx!SettingsAreOwn
    <2> QED BY <2>3, <2>4, <2>5 DEF ScopedInTime
  <1>5. CASE Ctx!Apply(r)
    <2>1. ctxPc'[r] = 1 /\ ctxJob' = ctxJob /\ conn' = conn
      BY <1>1, <1>5 DEF Ctx!Apply, Ctx!TypeOK
    <2> QED BY <2>1 DEF ScopedInTime
  <1>6. CASE Ctx!Step(r)
    <2>1. /\ UNCHANGED <<setting, conn, ctxJob>> /\ ctxPc'[r] = ctxPc[r] + 1
          /\ Ctx!Statement(r) # Ctx!Scope
      BY <1>1, <1>6 DEF Ctx!Step, Ctx!TypeOK
    <2>2. /\ Ctx!Statements["register"][3] = Ctx!Scope
          /\ Ctx!Statements["accept"][2] = Ctx!Scope
      BY DEF Ctx!Statements, Ctx!Register, Ctx!Accept
    <2>3. /\ ctxJob[r].flow = "register" => ctxPc[r] # 3
          /\ ctxJob[r].flow = "accept" => ctxPc[r] # 2
      BY <2>1, <2>2 DEF Ctx!Statement
    <2> QED BY <1>1, <2>1, <2>3 DEF ScopedInTime, Ctx!Settings
  <1>7. CASE Ctx!ScopeTo(r)
    <2>1. /\ UNCHANGED <<conn, ctxJob>> /\ conn[r] \in Connection
          /\ setting' = [setting EXCEPT ![conn[r]].org = ctxJob[r].org]
      BY <1>1, <1>7 DEF Ctx!ScopeTo, Ctx!Running, Ctx!TypeOK
    <2>2. Ctx!Settings(r)'.org = ctxJob[r].org
      BY <1>1, <2>1 DEF Ctx!Settings, Ctx!TypeOK, Ctx!Context
    <2> QED BY <2>1, <2>2 DEF ScopedInTime
  <1>8. CASE Ctx!Commit(r) \/ Ctx!Rollback(r)
    <2>1. conn'[r] = Absent
      BY <1>1, <1>8 DEF Ctx!Commit, Ctx!Rollback, Ctx!Release, Ctx!Finish,
         Ctx!TypeOK
    <2> QED BY <2>1 DEF ScopedInTime
  <1> QED BY <1>2, <1>3, <1>4, <1>5, <1>6, <1>7, <1>8 DEF Ctx!Next

\* The settings of a running transaction are what its next statement needs.
LEMMA SettingsSuffice ==
  ASSUME ServicesConstants, ContextInv, NEW r \in Worker, ScopedInTime(r),
         Ctx!Running(r), ~Ctx!Ended(r), Ctx!Statement(r) # Ctx!Scope
  PROVE  Ctx!Allowed(r)
  <1> DEFINE f == ctxJob[r].flow
             o == ctxJob[r].org
             s == Ctx!Settings(r)
  <1>1. /\ f \in Ctx!Flow /\ ctxPc[r] \in Nat /\ ctxPc[r] > 0 /\ conn[r] # Absent
        /\ o \in Tenant \cup {Absent} /\ Ctx!OwnSettings(r)
    BY DEF ContextInv, Ctx!TypeOK, Ctx!SettingsAreOwn, Ctx!Running
  <1>2. /\ s.org \in {Ctx!ContextOf(f, o).org, o}
        /\ s.isPlatformAdmin = Ctx!ContextOf(f, o).isPlatformAdmin
        /\ s.isSystem = Ctx!ContextOf(f, o).isSystem
    BY <1>1 DEF Ctx!OwnSettings
  <1>3. ASSUME ScopedAt(f, ctxPc[r])
        PROVE  Ctx!Current(o, s)
    <2>1. o \in Tenant /\ o # Absent
      BY <1>1, <1>3 DEF ServicesConstants, Ctx!NothingIsNothing, ScopedInTime,
         ScopedAt
    <2>2. CASE f \in {"guard", "member", "inviteOwner", "transition"}
      <3>1. Ctx!ContextOf(f, o).org = o
        BY <2>2 DEF Ctx!ContextOf
      <3> QED BY <1>2, <2>1, <3>1 DEF Ctx!Current
    <2>3. CASE f \in {"register", "accept"}
      BY <1>1, <1>3, <2>1, <2>3 DEF ScopedInTime, ScopedAt, Ctx!Current
    <2> QED BY <1>3, <2>2, <2>3 DEF ScopedAt
  <1>4. /\ f \in {"create", "list", "inviteOwner", "transition", "register"} =>
             s.isPlatformAdmin
        /\ f \in {"accept", "myOrganization", "dispatch", "requestReset"} =>
             s.isSystem
    BY <1>2 DEF Ctx!ContextOf
  <1>5. ctxPc[r] \in 1..Len(Ctx!Statements[f])
    <2>1. Len(Ctx!Statements[f]) \in Nat
      BY <1>1 DEF Ctx!Flow, Ctx!Statements, Ctx!Member, Ctx!InviteOwner,
         Ctx!Transition, Ctx!Register, Ctx!Accept
    <2> QED BY <1>1, <2>1 DEF Ctx!Ended
  <1> QED BY <1>1, <1>3, <1>4, <1>5, FlowIsPermitted DEF Ctx!Allowed, Ctx!Statement

\* The policies fail closed and still let every service do its work: in no
\* transaction, on whatever connection, is a statement of its flow refused.
THEOREM NoFlowIsRefused ==
  ASSUME ServicesConstants PROVE ServicesSpec => []FlowsArePermitted
  <1> DEFINE InTime == \A r \in Worker : ScopedInTime(r)
  <1>1. Ctx!Init => InTime
    BY DEF Ctx!Init, ScopedInTime
  <1>2. ContextInv /\ InTime /\ [Ctx!Next]_Ctx!vars => InTime'
    BY ScopedInTimeStays
  <1>3. ContextInv /\ InTime => Ctx!FlowsArePermitted
    BY SettingsSuffice DEF Ctx!FlowsArePermitted
  <1> HIDE DEF InTime
  <1>4. Ctx!Spec => []Ctx!FlowsArePermitted
    BY ContextInvariant, <1>1, <1>2, <1>3, PTL DEF Ctx!Spec
  <1>5. Ctx!FlowsArePermitted \/ ~Focused("context") => FlowsArePermitted
    BY DEF FlowsArePermitted, Focused
  <1>6. [ServicesNext]_servicesVars
          => (Focused("context")' <=> Focused("context"))
    BY FocusStays
  <1> QED BY ContextRun, <1>4, <1>5, <1>6, PTL DEF ServicesSpec

---------------------------------------------------------------------------
(* Organizations *)

\* OrganizationsService: an Organization has an owner exactly from its
\* activation on, and the owner belongs to it; before, it waits for its owner's
\* open invitation, or is about to get one, unless create ended between its two
\* transactions.
THEOREM OwnedExactlyOnceActive ==
  ASSUME ServicesConstants PROVE ServicesSpec => []OwnedOnceActive
  <1>1. OP!Spec => []OP!OwnedOnceActive
    BY OP!OwnedExactlyOnceActive
    DEF ServicesConstants, OP!Constants, O!NothingIsNothing,
        OP!NothingIsNothing, O!DemoIsCommercial, OP!DemoIsCommercial
  <1>2. OP!OwnedOnceActive \/ ~Focused("organizations") => OwnedOnceActive
    BY SameOrganizations DEF OwnedOnceActive, Focused
  <1>3. [ServicesNext]_servicesVars
          => (Focused("organizations")' <=> Focused("organizations"))
    BY FocusStays
  <1> QED BY OrganizationsRun, <1>1, <1>2, <1>3, PTL DEF ServicesSpec

\* OrganizationsService.transition: "suspend/disable ends every open session
\* ... right away", as far as it does: a session that was open, of a member
\* active then, when the Organization was suspended or disabled is about to be
\* revoked until that itself fails, whoever is suspended, reinstated or joins
\* meanwhile.
THEOREM StaleSessionsAreOwed ==
  ASSUME ServicesConstants PROVE ServicesSpec => []StaleSessionIsOwed
  <1>1. OP!Spec => []OP!StaleSessionIsOwed
    BY OP!StaleSessionsAreOwed
    DEF ServicesConstants, OP!Constants, O!NothingIsNothing,
        OP!NothingIsNothing, O!DemoIsCommercial, OP!DemoIsCommercial
  <1>2. OP!StaleSessionIsOwed \/ ~Focused("organizations") => StaleSessionIsOwed
    BY SameOrganizations DEF StaleSessionIsOwed, Focused
  <1>3. [ServicesNext]_servicesVars
          => (Focused("organizations")' <=> Focused("organizations"))
    BY FocusStays
  <1> QED BY OrganizationsRun, <1>1, <1>2, <1>3, PTL DEF ServicesSpec

\* OrganizationsService.transition: no status follows another but as the code
\* names it: "terminal disablement has no reactivation path" (organizations-
\* lifecycle.test.ts 49-72).
THEOREM LifecycleHolds ==
  ASSUME ServicesConstants PROVE ServicesSpec => LifecycleIsFollowed
  <1>1. OP!Spec => [][OP!LifecycleStep]_OP!vars
    BY OP!LifecycleHolds
    DEF ServicesConstants, OP!Constants, O!NothingIsNothing,
        OP!NothingIsNothing, O!DemoIsCommercial, OP!DemoIsCommercial,
        OP!LifecycleIsFollowed
  <1>2. [ServicesNext]_servicesVars
          /\ ([OP!LifecycleStep]_OP!vars \/ ~Focused("organizations"))
          => [focus = "organizations" => O!LifecycleStep]_<<focus, orgVars>>
    BY SameOrganizations
    DEF ServicesNext, servicesVars, orgVars, Focused, O!vars, OP!vars
  <1>3. [ServicesNext]_servicesVars
          => (Focused("organizations")' <=> Focused("organizations"))
    BY FocusStays
  <1> QED BY OrganizationsRun, <1>1, <1>2, <1>3, PTL
      DEF ServicesSpec, LifecycleIsFollowed

---------------------------------------------------------------------------
(* Invitations *)

\* InvitationsService: an Organization never has two open invitations for one
\* address (invitations.service.ts 207-209), though create and resend look for
\* the open one without a lock.
THEOREM OnePending ==
  ASSUME ServicesConstants PROVE ServicesSpec => []OnePendingPerEmail
  <1>1. IP!Spec => []IP!OnePendingPerEmail
    BY IP!OnePending
    DEF ServicesConstants, I!NothingIsNothing, IP!NothingIsNothing
  <1>2. IP!OnePendingPerEmail \/ ~Focused("invitations") => OnePendingPerEmail
    BY SameInvitations DEF OnePendingPerEmail, Focused
  <1>3. [ServicesNext]_servicesVars
          => (Focused("invitations")' <=> Focused("invitations"))
    BY FocusStays
  <1> QED BY InvitationsRun, <1>1, <1>2, <1>3, PTL DEF ServicesSpec

\* InvitationsService: where every identity comes by registration or
\* invitation, and none is there before like a Platform Administrator's, nobody
\* belongs to two Organizations (SEC-13, schema.prisma 8-10).
THEOREM BelongingIsUnique ==
  ASSUME ServicesConstants, Known = {} PROVE ServicesSpec => []OneOrganization
  <1>1. IP!Spec => []IP!OneOrganization
    BY IP!BelongingIsUnique
    DEF ServicesConstants, I!NothingIsNothing, IP!NothingIsNothing
  <1>2. IP!OneOrganization \/ ~Focused("invitations") => OneOrganization
    BY SameInvitations DEF OneOrganization, Focused
  <1>3. [ServicesNext]_servicesVars
          => (Focused("invitations")' <=> Focused("invitations"))
    BY FocusStays
  <1> QED BY InvitationsRun, <1>1, <1>2, <1>3, PTL DEF ServicesSpec

\* InvitationsService: whoever becomes a member uses up, in the same step, an
\* open invitation of that Organization to that address, with the token
\* presented: a revoked, a replaced or an accepted token admits nobody.
THEOREM JoiningNeedsInvitation ==
  ASSUME ServicesConstants PROVE ServicesSpec => JoinNeedsOpenInvitation
  <1>1. IP!Spec => [][IP!JoinStep]_IP!vars
    BY IP!JoiningNeedsInvitation
    DEF ServicesConstants, I!NothingIsNothing, IP!NothingIsNothing,
        IP!JoinNeedsOpenInvitation
  <1>2. [ServicesNext]_servicesVars
          /\ ([IP!JoinStep]_IP!vars \/ ~Focused("invitations"))
          => [focus = "invitations" => I!JoinStep]_<<focus, invVars>>
    BY SameInvitations
    DEF ServicesNext, servicesVars, invVars, Focused, I!vars, IP!vars
  <1>3. [ServicesNext]_servicesVars
          => (Focused("invitations")' <=> Focused("invitations"))
    BY FocusStays
  <1> QED BY InvitationsRun, <1>1, <1>2, <1>3, PTL
      DEF ServicesSpec, JoinNeedsOpenInvitation

---------------------------------------------------------------------------
(* Sessions *)

\* PasswordResetService.request: however many reset tokens are asked for, no
\* more are open than requests run in parallel, of which there are finitely
\* many.
THEOREM TokensBounded ==
  ASSUME ServicesConstants, IsFiniteSet(Worker)
  PROVE ServicesSpec => []OpenTokensBounded
  <1>1. SesP!Spec => []SesP!OpenTokensBounded
    BY SesP!TokensBounded
    DEF ServicesConstants, Ses!NothingIsNothing, SesP!NothingIsNothing,
        IsFiniteSet, SesP!IsFiniteSet
  <1>2. SesP!OpenTokensBounded \/ ~Focused("sessions") => OpenTokensBounded
    BY SameSessions DEF OpenTokensBounded, Focused
  <1>3. [ServicesNext]_servicesVars
          => (Focused("sessions")' <=> Focused("sessions"))
    BY FocusStays
  <1> QED BY SessionsRun, <1>1, <1>2, <1>3, PTL DEF ServicesSpec

\* PasswordResetService.complete: a reset token is good for one password change
\* (password-reset.test.ts 66), however many completions carry it at once.
THEOREM TokenSpentOnce ==
  ASSUME ServicesConstants PROVE ServicesSpec => PasswordChangeSpendsToken
  <1>1. SesP!Spec => [][SesP!PasswordChangeStep]_SesP!vars
    BY SesP!TokenSpentOnce
    DEF ServicesConstants, Ses!NothingIsNothing, SesP!NothingIsNothing,
        SesP!PasswordChangeSpendsToken
  <1>2. [ServicesNext]_servicesVars
          /\ ([SesP!PasswordChangeStep]_SesP!vars \/ ~Focused("sessions"))
          => [focus = "sessions" => Ses!PasswordChangeStep]_<<focus, sesVars>>
    BY SameSessions
    DEF ServicesNext, servicesVars, sesVars, Focused, Ses!vars, SesP!vars
  <1>3. [ServicesNext]_servicesVars
          => (Focused("sessions")' <=> Focused("sessions"))
    BY FocusStays
  <1> QED BY SessionsRun, <1>1, <1>2, <1>3, PTL
      DEF ServicesSpec, PasswordChangeSpendsToken

\* PasswordResetService.complete: when a new password takes effect, no session
\* is live that was live when the reset was submitted (SEC-15).
THEOREM ResetEndsSessions ==
  ASSUME ServicesConstants PROVE ServicesSpec => ResetEndsEarlierSessions
  <1>1. SesP!Spec => [][SesP!ResetStep]_SesP!vars
    BY SesP!ResetEndsSessions
    DEF ServicesConstants, Ses!NothingIsNothing, SesP!NothingIsNothing,
        SesP!ResetEndsEarlierSessions
  <1>2. [ServicesNext]_servicesVars
          /\ ([SesP!ResetStep]_SesP!vars \/ ~Focused("sessions"))
          => [focus = "sessions" => Ses!ResetStep]_<<focus, sesVars>>
    BY SameSessions
    DEF ServicesNext, servicesVars, sesVars, Focused, Ses!vars, SesP!vars
  <1>3. [ServicesNext]_servicesVars
          => (Focused("sessions")' <=> Focused("sessions"))
    BY FocusStays
  <1> QED BY SessionsRun, <1>1, <1>2, <1>3, PTL
      DEF ServicesSpec, ResetEndsEarlierSessions

---------------------------------------------------------------------------
(* Structure: what a request has made sure of stays true until it writes,  *)
(* for rows are never deleted and a Business Scope never changes Company.   *)

CompanyRow == [status : Str!Status, name : RowName \cup {Absent}]
ScopeRow == [status : Str!Status, name : RowName \cup {Absent},
             company : Company \cup {Absent}]

\* The actor of j may write to Company c, Business Scope s of it, by what the
\* check found.
Granted(j, c, s) ==
  j.actor = "USER" => \E g \in j.granted : g.company = c \/ g.scope = s

\* What a request has made sure of: what it names, and after the check that
\* it is there and that it may be changed.
Checked(j, label) ==
  /\ label = "idle" => j = Str!NoJob
  /\ label # "idle" => j.op # "none"
  /\ j.op = "createCompany" => j.name \in RowName /\ j.actor = "ADMINISTRATOR"
  /\ j.op \in {"update", "create"}
       => j.company \in Company /\ j.name \in RowName
  /\ j.op = "deactivate" => j.company \in Company
  /\ j.op = "deactivateScope" => j.scope \in BusinessScope
  /\ label = "scopes" => j.op = "deactivate"
  /\ label \in {"scopes", "write"}
       /\ j.op \in {"update", "create", "deactivate"}
       => /\ j.company \in Str!Companies
          /\ j.actor = "USER" => \E g \in j.granted : g.company = j.company
  /\ label = "write" /\ j.op = "deactivateScope" =>
       /\ j.scope \in Str!Scopes
       /\ Granted(j, scope[j.scope].company, j.scope)

StructureInv == Str!TypeOK /\ \A r \in Worker : Checked(strJob[r], strPc[r])

RowsTyped ==
  /\ company \in [Company -> CompanyRow]
  /\ scope \in [BusinessScope -> ScopeRow]
  /\ \A s \in Str!Scopes : scope[s].company \in Str!Companies
  /\ \A c, d \in Str!Companies : company[c].name = company[d].name => c = d
  /\ \A s, t \in Str!Scopes :
       scope[s].company = scope[t].company /\ scope[s].name = scope[t].name
         => s = t

\* Rows are created once and for all, a Business Scope in its Company.
RowsStay ==
  /\ Str!Companies \subseteq Str!Companies'
  /\ \A s \in Str!Scopes :
       s \in Str!Scopes' /\ scope'[s].company = scope[s].company

\* What is known of a request before a step.
LEMMA RequestNow ==
  ASSUME StructureInv, NEW r \in Worker
  PROVE  /\ RowsTyped /\ grants \subseteq Str!Grant
         /\ strPc \in [Worker -> Str!Label] /\ strJob \in [Worker -> Str!Job]
         /\ strJob[r] \in Str!Job /\ strPc[r] \in Str!Label
         /\ Checked(strJob[r], strPc[r])
  BY DEF StructureInv, Str!TypeOK, RowsTyped, CompanyRow, ScopeRow

\* Rows that are unchanged stay as they are.
LEMMA RowsUnchanged ==
  ASSUME StructureInv, UNCHANGED <<company, scope>>
  PROVE  RowsTyped' /\ RowsStay
  BY DEF StructureInv, Str!TypeOK, RowsTyped, RowsStay, CompanyRow, ScopeRow,
         Str!Companies, Str!Scopes

\* Checks hold on as long as the rows stay.
LEMMA CheckedStays ==
  ASSUME RowsStay, NEW j, NEW label, Checked(j, label)
  PROVE  Checked(j, label)'
  BY DEF Checked, RowsStay, Granted

\* A request goes on to its next label.
LEMMA RequestStep ==
  ASSUME StructureInv, NEW r \in Worker, NEW k \in Str!Job,
         NEW label \in Str!Label,
         strJob' = [strJob EXCEPT ![r] = k],
         strPc' = [strPc EXCEPT ![r] = label],
         RowsTyped', RowsStay, grants' = grants, Checked(k, label)'
  PROVE  StructureInv'
  <1>1. /\ strJob' \in [Worker -> Str!Job] /\ strJob'[r] = k
        /\ strPc' \in [Worker -> Str!Label] /\ strPc'[r] = label
        /\ \A q \in Worker \ {r} :
             strJob'[q] = strJob[q] /\ strPc'[q] = strPc[q]
    BY RequestNow
  <1>2. Str!TypeOK'
    BY <1>1, RequestNow DEF Str!TypeOK, RowsTyped, CompanyRow, ScopeRow
  <1>3. ASSUME NEW q \in Worker PROVE Checked(strJob[q], strPc[q])'
    <2>1. CASE q = r
      BY <1>1, <2>1 DEF Checked, Granted
    <2>2. CASE q # r
      <3>1. PICK j, place :
              j = strJob[q] /\ place = strPc[q] /\ Checked(j, place)
        BY RequestNow
      <3>2. Checked(j, place)'
        BY <3>1, CheckedStays
      <3> QED BY <1>1, <2>2, <3>1, <3>2 DEF Checked, Granted
    <2> QED BY <2>1, <2>2
  <1> QED BY <1>2, <1>3 DEF StructureInv

\* A request is answered, and may have written rows.
LEMMA RowsAnswerStep ==
  ASSUME StructureInv, NEW r \in Worker, Str!Answer(r),
         RowsTyped', RowsStay, grants' = grants
  PROVE  StructureInv'
  <1>1. /\ Str!NoJob \in Str!Job /\ "idle" \in Str!Label
        /\ Checked(Str!NoJob, "idle")'
    BY DEF Str!NoJob, Str!Job, Str!Operation, Str!Actor, Str!Label, Checked
  <1> QED BY <1>1, RequestStep DEF Str!Answer

\* A refused request writes no row.
LEMMA RefuseKeeps ==
  ASSUME StructureInv, NEW r \in Worker, Str!Refuse(r) PROVE StructureInv'
  BY RowsAnswerStep, RowsUnchanged DEF Str!Refuse, Str!rows

\* A request is admitted, and has checked nothing.
LEMMA AdmitStep ==
  ASSUME StructureInv, NEW r \in Worker, NEW k \in Str!Job, Str!Admit(r, k),
         Checked(k, "check")
  PROVE  StructureInv'
  <1>1. "check" \in Str!Label /\ Checked(k, "check")'
    BY RowsUnchanged, CheckedStays DEF Str!Label, Str!Admit, Str!rows
  <1> QED BY <1>1, RequestStep, RowsUnchanged DEF Str!Admit, Str!rows

\* Every request that arrives names what its operation asks for.
LEMMA ArriveKeeps ==
  ASSUME StructureInv, NEW r \in Worker, Str!Arrive(r) PROVE StructureInv'
  <1>1. PICK k \in Str!Job : Str!Admit(r, k) /\ Checked(k, "check")
    <2>1. ASSUME NEW n \in RowName,
                 Str!Admit(r, [Str!NoJob EXCEPT !.op = "createCompany",
                                                !.name = n])
          PROVE  \E k \in Str!Job : Str!Admit(r, k) /\ Checked(k, "check")
      <3> DEFINE k == [Str!NoJob EXCEPT !.op = "createCompany", !.name = n]
      <3>1. k \in Str!Job /\ Checked(k, "check")
        BY DEF Str!NoJob, Str!Job, Str!Operation, Str!Actor, Checked
      <3> QED BY <2>1, <3>1
    <2>2. ASSUME NEW a \in Str!Actor, NEW c \in Company, NEW n \in RowName,
                 NEW o \in {"update", "create"},
                 Str!Admit(r, [Str!NoJob EXCEPT !.op = o, !.actor = a,
                                                !.company = c, !.name = n])
          PROVE  \E k \in Str!Job : Str!Admit(r, k) /\ Checked(k, "check")
      <3> DEFINE k == [Str!NoJob EXCEPT !.op = o, !.actor = a, !.company = c,
                                    !.name = n]
      <3>1. k \in Str!Job /\ Checked(k, "check")
        BY DEF Str!NoJob, Str!Job, Str!Operation, Str!Actor, Checked
      <3> QED BY <2>2, <3>1
    <2>3. ASSUME NEW a \in Str!Actor, NEW c \in Company,
                 Str!Admit(r, [Str!NoJob EXCEPT !.op = "deactivate",
                                                !.actor = a, !.company = c])
          PROVE  \E k \in Str!Job : Str!Admit(r, k) /\ Checked(k, "check")
      <3> DEFINE k == [Str!NoJob EXCEPT !.op = "deactivate", !.actor = a,
                                    !.company = c]
      <3>1. k \in Str!Job /\ Checked(k, "check")
        BY DEF Str!NoJob, Str!Job, Str!Operation, Str!Actor, Checked
      <3> QED BY <2>3, <3>1
    <2>4. ASSUME NEW a \in Str!Actor, NEW s \in BusinessScope,
                 Str!Admit(r, [Str!NoJob EXCEPT !.op = "deactivateScope",
                                                !.actor = a, !.scope = s])
          PROVE  \E k \in Str!Job : Str!Admit(r, k) /\ Checked(k, "check")
      <3> DEFINE k == [Str!NoJob EXCEPT !.op = "deactivateScope", !.actor = a,
                                    !.scope = s]
      <3>1. k \in Str!Job /\ Checked(k, "check")
        BY DEF Str!NoJob, Str!Job, Str!Operation, Str!Actor, Checked
      <3> QED BY <2>4, <3>1
    <2> QED BY <2>1, <2>2, <2>3, <2>4 DEF Str!Arrive
  <1> QED BY <1>1, AdmitStep

\* The check passed, and its findings are noted.
LEMMA PassedStep ==
  ASSUME StructureInv, NEW r \in Worker, NEW label \in Str!Label,
         Str!Passed(r, label),
         label # "idle", label = "scopes" => strJob[r].op = "deactivate",
         strPc[r] # "idle",
         strJob[r].op \in {"update", "create", "deactivate"} =>
           /\ strJob[r].company \in Str!Companies
           /\ Str!MayChangeCompany(r),
         strJob[r].op = "deactivateScope" =>
           strJob[r].scope \in Str!Scopes /\ Str!MayChangeScope(r)
  PROVE  StructureInv'
  <1> DEFINE found == IF strJob[r].actor = "USER" THEN grants ELSE {}
  <1>1. found \subseteq Str!Grant
    BY RequestNow
  <1>2. PICK k \in Str!Job :
          /\ k = [strJob[r] EXCEPT !.granted = found]
          /\ k.op = strJob[r].op /\ k.actor = strJob[r].actor
          /\ k.granted = found
          /\ k.company = strJob[r].company /\ k.scope = strJob[r].scope
          /\ k.name = strJob[r].name
    <2> DEFINE k == [strJob[r] EXCEPT !.granted = found]
    <2>1. /\ k \in Str!Job /\ k.op = strJob[r].op /\ k.actor = strJob[r].actor
          /\ k.granted = found /\ k.company = strJob[r].company
          /\ k.scope = strJob[r].scope /\ k.name = strJob[r].name
      BY <1>1, RequestNow DEF Str!Job
    <2> HIDE DEF k
    <2> QED BY <2>1 DEF k
  <1>3. strJob' = [strJob EXCEPT ![r] = k]
    BY <1>2 DEF Str!Passed
  <1> HIDE DEF found
  <1>4. Checked(k, "check")
    BY <1>2, RequestNow DEF Checked
  <1>5. k.op \in {"update", "create", "deactivate"} =>
          /\ k.company \in Str!Companies
          /\ k.actor = "USER" => \E g \in k.granted : g.company = k.company
    BY <1>2
    DEF found, Str!MayChangeCompany, Str!HasDirectCompanyGrant,
        Str!GrantedCompanies
  <1>6. k.op = "deactivateScope" =>
          /\ k.scope \in Str!Scopes
          /\ Granted(k, scope[k.scope].company, k.scope)
    BY <1>2
    DEF found, Str!MayChangeScope, Str!VisibleBusinessScopeIds,
        Str!GrantedCompanies,
        Str!GrantedScopes, Str!CompanyOf, Granted
  <1>7. Checked(k, label)
    BY <1>2, <1>4, <1>5, <1>6 DEF Checked
  <1> QED BY <1>3, <1>7, RequestStep, RowsUnchanged, CheckedStays
      DEF Str!Passed, Str!rows

\* Creating a Company has nothing to make sure of but its name.
LEMMA CreateCompanyCheckKeeps ==
  ASSUME StructureInv, NEW r \in Worker, Str!CreateCompanyCheck(r)
  PROVE  StructureInv'
  BY RefuseKeeps, PassedStep DEF Str!CreateCompanyCheck, Str!At, Str!Label

\* An update goes on with a Company that is there and may be changed.
LEMMA UpdateCheckKeeps ==
  ASSUME StructureInv, NEW r \in Worker, Str!UpdateCheck(r) PROVE StructureInv'
  BY RefuseKeeps, PassedStep DEF Str!UpdateCheck, Str!At, Str!Label

\* A deactivation goes on with a Company that is active.
LEMMA DeactivateCheckKeeps ==
  ASSUME StructureInv, NEW r \in Worker, Str!DeactivateCheck(r)
  PROVE  StructureInv'
  <1>1. Str!At(r, {"deactivate"}, "check") => strJob[r].company \in Company
    BY RequestNow DEF Checked, Str!At
  <1> QED BY <1>1, RefuseKeeps, PassedStep
      DEF Str!DeactivateCheck, Str!At, Str!Label, Str!Companies

\* A creation goes on with a Company that is active.
LEMMA CreateCheckKeeps ==
  ASSUME StructureInv, NEW r \in Worker, Str!CreateCheck(r) PROVE StructureInv'
  <1>1. Str!At(r, {"create"}, "check") => strJob[r].company \in Company
    BY RequestNow DEF Checked, Str!At
  <1> QED BY <1>1, RefuseKeeps, PassedStep
      DEF Str!CreateCheck, Str!At, Str!Label, Str!Companies

\* A deactivation goes on with a Business Scope that is active.
LEMMA DeactivateScopeCheckKeeps ==
  ASSUME StructureInv, NEW r \in Worker, Str!DeactivateScopeCheck(r)
  PROVE  StructureInv'
  <1>1. Str!At(r, {"deactivateScope"}, "check")
          => strJob[r].scope \in BusinessScope
    BY RequestNow DEF Checked, Str!At
  <1> QED BY <1>1, RefuseKeeps, PassedStep
      DEF Str!DeactivateScopeCheck, Str!At, Str!Label, Str!Scopes

\* Looking for active Business Scopes does not undo the check.
LEMMA DeactivateScopesKeeps ==
  ASSUME StructureInv, NEW r \in Worker, Str!DeactivateScopes(r)
  PROVE  StructureInv'
  <1>1. CASE Str!Refuse(r)
    BY <1>1, RefuseKeeps
  <1>2. CASE strPc' = [strPc EXCEPT ![r] = "write"] /\ UNCHANGED <<Str!rows,
          strJob>>
    <2>1. PICK k \in Str!Job : k = strJob[r]
      BY RequestNow
    <2>2. strJob' = [strJob EXCEPT ![r] = k] /\ "write" \in Str!Label
      BY <1>2, <2>1, RequestNow DEF Str!Label
    <2>3. k.op = "deactivate" /\ Checked(k, "scopes")
      BY <2>1, RequestNow DEF Str!DeactivateScopes, Str!At
    <2>4. Checked(k, "write")
      BY <2>3 DEF Checked
    <2> QED BY <1>2, <2>2, <2>4, RequestStep, RowsUnchanged, CheckedStays
        DEF Str!rows
  <1> QED BY <1>1, <1>2 DEF Str!DeactivateScopes

\* A new Company has a name that no other has, by the unique index.
LEMMA CreateCompanyKeeps ==
  ASSUME ServicesConstants, StructureInv,
         NEW r \in Worker, Str!CreateCompany(r)
  PROVE  StructureInv'
  <1>1. CASE Str!Refuse(r)
    BY <1>1, RefuseKeeps
  <1>2. ASSUME NEW c \in Company \ Str!Companies,
               ~Str!CompanyNameTaken(strJob[r].name, Absent),
               company' = [company EXCEPT ![c] =
                             [status |-> "ACTIVE", name |-> strJob[r].name]],
               Str!Answer(r), UNCHANGED <<scope, grants>>
        PROVE  StructureInv'
    <2>1. PICK n \in RowName : n = strJob[r].name
      BY RequestNow DEF Checked, Str!CreateCompany, Str!At
    <2>2. /\ company' \in [Company -> CompanyRow]
          /\ company'[c].status = "ACTIVE" /\ company'[c].name = n
          /\ \A d \in Company \ {c} : company'[d] = company[d]
      BY <1>2, <2>1, RequestNow DEF RowsTyped, CompanyRow, Str!Status
    <2>3. Str!Companies' = Str!Companies \cup {c}
      BY <1>2, <2>2 DEF Str!Companies
    <2>4. \A d \in Str!Companies : company[d].name # n
      BY <1>2, <2>1
      DEF ServicesConstants, Str!CompanyNameTaken, Str!Companies
    <2>5. Str!Companies \subseteq Company /\ c \notin Str!Companies
      BY <1>2 DEF Str!Companies
    <2>6. \A d, e \in Str!Companies' : company'[d].name = company'[e].name
            => d = e
      BY <2>2, <2>3, <2>4, <2>5, RequestNow DEF RowsTyped
    <2>7. Str!Scopes' = Str!Scopes
      BY <1>2 DEF Str!Scopes
    <2>8. RowsTyped' /\ RowsStay
      BY <1>2, <2>2, <2>3, <2>6, <2>7, RequestNow
      DEF RowsTyped, RowsStay
    <2> QED BY <1>2, <2>8, RowsAnswerStep
  <1> QED BY <1>1, <1>2 DEF Str!CreateCompany

\* A renamed Company has a name that no other has, by the unique index.
LEMMA UpdateKeeps ==
  ASSUME StructureInv, NEW r \in Worker, Str!Update(r) PROVE StructureInv'
  <1>1. CASE Str!Refuse(r)
    BY <1>1, RefuseKeeps
  <1>2. CASE /\ ~Str!CompanyNameTaken(strJob[r].name, strJob[r].company)
             /\ company' = [company EXCEPT
                              ![strJob[r].company].name = strJob[r].name]
             /\ Str!Answer(r) /\ UNCHANGED <<scope, grants>>
    <2>1. PICK n \in RowName, c \in Str!Companies :
            n = strJob[r].name /\ c = strJob[r].company
      BY RequestNow DEF Checked, Str!Update, Str!At
    <2>2. c \in Company /\ Str!Companies \subseteq Company
      BY DEF Str!Companies
    <2>3. /\ company' \in [Company -> CompanyRow]
          /\ company'[c].status = company[c].status /\ company'[c].name = n
          /\ \A d \in Company \ {c} : company'[d] = company[d]
      BY <1>2, <2>1, <2>2, RequestNow DEF RowsTyped, CompanyRow
    <2>4. Str!Companies' = Str!Companies
      BY <2>3 DEF Str!Companies
    <2>5. \A d \in Str!Companies \ {c} : company[d].name # n
      BY <1>2, <2>1 DEF Str!CompanyNameTaken
    <2>6. \A d, e \in Str!Companies' : company'[d].name = company'[e].name
            => d = e
      BY <2>2, <2>3, <2>4, <2>5, RequestNow DEF RowsTyped
    <2>7. Str!Scopes' = Str!Scopes
      BY <1>2 DEF Str!Scopes
    <2>8. RowsTyped' /\ RowsStay
      BY <1>2, <2>3, <2>4, <2>6, <2>7, RequestNow DEF RowsTyped, RowsStay
    <2> QED BY <1>2, <2>8, RowsAnswerStep
  <1> QED BY <1>1, <1>2 DEF Str!Update

\* A deactivated Company keeps its name and its Business Scopes.
LEMMA DeactivateKeeps ==
  ASSUME StructureInv, NEW r \in Worker, Str!Deactivate(r) PROVE StructureInv'
  <1>1. PICK c \in Str!Companies : c = strJob[r].company
    BY RequestNow DEF Checked, Str!Deactivate, Str!At
  <1>2. /\ c \in Company /\ Str!Companies \subseteq Company
        /\ company[c].status # "NONE"
    BY DEF Str!Companies
  <1>3. /\ company' \in [Company -> CompanyRow]
        /\ company'[c].status = "INACTIVE" /\ company'[c].name = company[c].name
        /\ \A d \in Company \ {c} : company'[d] = company[d]
    BY <1>1, <1>2, RequestNow
    DEF Str!Deactivate, RowsTyped, CompanyRow, Str!Status
  <1>4. Str!Companies' = Str!Companies
    BY <1>2, <1>3 DEF Str!Companies
  <1>5. \A d \in Company : company'[d].name = company[d].name
    BY <1>3
  <1>6. Str!Scopes' = Str!Scopes
    BY DEF Str!Scopes, Str!Deactivate
  <1>7. RowsTyped' /\ RowsStay
    BY <1>2, <1>3, <1>4, <1>5, <1>6, RequestNow
    DEF RowsTyped, RowsStay, Str!Deactivate
  <1> QED BY <1>7, RowsAnswerStep DEF Str!Deactivate

\* A new Business Scope is of a Company that is there, and has a name that no
\* other of it has.
LEMMA CreateKeeps ==
  ASSUME StructureInv, NEW r \in Worker, Str!Create(r) PROVE StructureInv'
  <1>1. CASE Str!Refuse(r)
    BY <1>1, RefuseKeeps
  <1>2. ASSUME NEW s \in BusinessScope \ Str!Scopes,
               ~Str!ScopeNameTaken(strJob[r].name, strJob[r].company),
               scope' = [scope EXCEPT ![s] =
                           [status |-> "ACTIVE", name |-> strJob[r].name,
                            company |-> strJob[r].company]],
               Str!Answer(r), UNCHANGED <<company, grants>>
        PROVE  StructureInv'
    <2>1. PICK n \in RowName, c \in Str!Companies :
            n = strJob[r].name /\ c = strJob[r].company
      BY RequestNow DEF Checked, Str!Create, Str!At
    <2>2. c \in Company /\ Str!Companies' = Str!Companies
      BY <1>2 DEF Str!Companies
    <2>3. /\ scope' \in [BusinessScope -> ScopeRow]
          /\ scope'[s].status = "ACTIVE" /\ scope'[s].name = n
          /\ scope'[s].company = c
          /\ \A t \in BusinessScope \ {s} : scope'[t] = scope[t]
      BY <1>2, <2>1, <2>2, RequestNow DEF RowsTyped, ScopeRow, Str!Status
    <2>4. Str!Scopes' = Str!Scopes \cup {s}
      BY <1>2, <2>3 DEF Str!Scopes
    <2>5. Str!Scopes \subseteq BusinessScope /\ s \notin Str!Scopes
      BY <1>2 DEF Str!Scopes
    <2>6. \A t \in Str!Scopes : scope[t].company = c => scope[t].name # n
      BY <1>2, <2>1 DEF Str!ScopeNameTaken
    <2>7. \A t, u \in Str!Scopes' :
            scope'[t].company = scope'[u].company
              /\ scope'[t].name = scope'[u].name => t = u
      BY <2>3, <2>4, <2>5, <2>6, RequestNow DEF RowsTyped
    <2>8. \A t \in Str!Scopes' : scope'[t].company \in Str!Companies'
      BY <2>2, <2>3, <2>4, <2>5, RequestNow DEF RowsTyped
    <2>9. RowsTyped' /\ RowsStay
      BY <1>2, <2>2, <2>3, <2>4, <2>5, <2>7, <2>8, RequestNow
      DEF RowsTyped, RowsStay
    <2> QED BY <1>2, <2>9, RowsAnswerStep
  <1> QED BY <1>1, <1>2 DEF Str!Create

\* A deactivated Business Scope keeps its name and its Company.
LEMMA DeactivateScopeKeeps ==
  ASSUME StructureInv, NEW r \in Worker, Str!DeactivateScope(r)
  PROVE  StructureInv'
  <1>1. PICK s \in Str!Scopes : s = strJob[r].scope
    BY RequestNow DEF Checked, Str!DeactivateScope, Str!At
  <1>2. /\ s \in BusinessScope /\ Str!Scopes \subseteq BusinessScope
        /\ scope[s].status # "NONE"
    BY DEF Str!Scopes
  <1>3. /\ scope' \in [BusinessScope -> ScopeRow]
        /\ scope'[s].status = "INACTIVE" /\ scope'[s].name = scope[s].name
        /\ scope'[s].company = scope[s].company
        /\ \A t \in BusinessScope \ {s} : scope'[t] = scope[t]
    BY <1>1, <1>2, RequestNow
    DEF Str!DeactivateScope, RowsTyped, ScopeRow, Str!Status
  <1>4. Str!Scopes' = Str!Scopes /\ Str!Companies' = Str!Companies
    BY <1>2, <1>3 DEF Str!Scopes, Str!Companies, Str!DeactivateScope
  <1>5. \A t \in BusinessScope :
          scope'[t].name = scope[t].name /\ scope'[t].company = scope[t].company
    BY <1>3
  <1>6. RowsTyped' /\ RowsStay
    BY <1>2, <1>3, <1>4, <1>5, RequestNow
    DEF RowsTyped, RowsStay, Str!DeactivateScope
  <1> QED BY <1>6, RowsAnswerStep DEF Str!DeactivateScope

\* New grants do not undo what a check has found.
LEMMA ReplaceGrantsKeeps ==
  ASSUME StructureInv, Str!ReplaceGrants PROVE StructureInv'
  <1>1. grants' \subseteq Str!Grant
    BY DEF Str!ReplaceGrants
  <1>2. Str!TypeOK'
    BY <1>1, RowsUnchanged
    DEF Str!ReplaceGrants, StructureInv, Str!TypeOK, RowsTyped, CompanyRow,
        ScopeRow
  <1>3. \A r \in Worker : Checked(strJob[r], strPc[r])'
    BY
    DEF Str!ReplaceGrants, StructureInv, Checked, Granted, Str!Companies,
        Str!Scopes
  <1> QED BY <1>2, <1>3 DEF StructureInv

\* StructureInv is inductive.
LEMMA StructureInvariant ==
  ASSUME ServicesConstants
  PROVE  Str!Spec => []StructureInv
  <1>1. Str!Init => StructureInv
    <2> SUFFICES ASSUME Str!Init PROVE StructureInv
      OBVIOUS
    <2>1. Str!NoJob \in Str!Job /\ Checked(Str!NoJob, "idle")
      BY DEF Str!NoJob, Str!Job, Str!Operation, Str!Actor, Checked
    <2>2. Str!Companies = {} /\ Str!Scopes = {}
      BY DEF Str!Init, Str!Companies, Str!Scopes
    <2>3. Str!TypeOK
      BY <2>1, <2>2 DEF Str!Init, Str!TypeOK, Str!Status, Str!Label
    <2> QED BY <2>1, <2>3 DEF Str!Init, StructureInv
  <1>2. StructureInv /\ [Str!Next]_Str!vars => StructureInv'
    <2> SUFFICES ASSUME StructureInv, [Str!Next]_Str!vars PROVE StructureInv'
      OBVIOUS
    <2>1. CASE UNCHANGED Str!vars
      <3>1. Str!TypeOK'
        BY <2>1, RowsUnchanged
        DEF Str!vars, StructureInv, Str!TypeOK, RowsTyped, CompanyRow, ScopeRow
      <3>2. \A r \in Worker : Checked(strJob[r], strPc[r])'
        BY <2>1
        DEF Str!vars, StructureInv, Checked, Granted, Str!Companies, Str!Scopes
      <3> QED BY <3>1, <3>2 DEF StructureInv
    <2> QED BY <2>1, ArriveKeeps, CreateCompanyCheckKeeps, CreateCompanyKeeps,
            UpdateCheckKeeps, UpdateKeeps, DeactivateCheckKeeps,
            DeactivateScopesKeeps, DeactivateKeeps, CreateCheckKeeps,
            CreateKeeps, DeactivateScopeCheckKeeps, DeactivateScopeKeeps,
            RefuseKeeps, ReplaceGrantsKeeps DEF Str!Next, Str!Serve, Str!Lose
  <1> QED BY <1>1, <1>2, PTL DEF Str!Spec

\* UserWrite of one step.
LEMMA WritesAreGranted ==
  ASSUME StructureInv, Str!Next PROVE Str!UserWrite
  <1> SUFFICES ASSUME NEW c \in Company, NEW s \in BusinessScope
               PROVE
    /\ company'[c] # company[c] /\ company[c].status # "NONE" =>
         \E r \in Worker :
           /\ strPc[r] = "write" /\ strJob[r].company = c
           /\ strJob[r].actor = "USER"
                => \E g \in strJob[r].granted : g.company = c
    /\ scope'[s] # scope[s] =>
         \E r \in Worker :
           /\ strPc[r] = "write"
           /\ strJob[r].actor = "USER" =>
                \E g \in strJob[r].granted :
                  \/ g.company = scope'[s].company
                  \/ g.scope = s
    BY DEF Str!UserWrite
  <1>1. /\ company \in [Company -> CompanyRow]
        /\ scope \in [BusinessScope -> ScopeRow]
    BY DEF StructureInv, Str!TypeOK, CompanyRow, ScopeRow
  <1>2. CASE UNCHANGED <<company, scope>>
    BY <1>2
  <1>3. ASSUME NEW r \in Worker, Str!CreateCompany(r), ~Str!Refuse(r)
        PROVE  UNCHANGED scope /\ (company'[c] # company[c]
                 => company[c].status = "NONE")
    BY <1>1, <1>3 DEF Str!CreateCompany, Str!Companies
  <1>4. ASSUME NEW r \in Worker, Str!Update(r) \/ Str!Deactivate(r),
          ~Str!Refuse(r)
        PROVE  /\ UNCHANGED scope
               /\ company'[c] # company[c] =>
                    /\ strPc[r] = "write" /\ strJob[r].company = c
                    /\ strJob[r].actor = "USER" =>
                         \E g \in strJob[r].granted : g.company = c
    BY <1>1, <1>4, RequestNow DEF Str!Update, Str!Deactivate, Str!At, Checked
  <1>5. ASSUME NEW r \in Worker, Str!Create(r), ~Str!Refuse(r)
        PROVE  /\ UNCHANGED company
               /\ scope'[s] # scope[s] =>
                    /\ strPc[r] = "write"
                    /\ strJob[r].actor = "USER" =>
                         \E g \in strJob[r].granted :
                           g.company = scope'[s].company
    BY <1>1, <1>5, RequestNow DEF Str!Create, Str!At, Checked
  <1>6. ASSUME NEW r \in Worker, Str!DeactivateScope(r)
        PROVE  /\ UNCHANGED company
               /\ scope'[s] # scope[s] =>
                    /\ strPc[r] = "write"
                    /\ strJob[r].actor = "USER" =>
                         \E g \in strJob[r].granted :
                           g.company = scope'[s].company \/ g.scope = s
    <2>1. UNCHANGED company /\ strPc[r] = "write"
      BY <1>6 DEF Str!DeactivateScope, Str!At
    <2>2. ASSUME scope'[s] # scope[s]
          PROVE  strJob[r].scope = s /\ scope'[s].company = scope[s].company
      BY <1>1, <1>6, <2>2 DEF Str!DeactivateScope, ScopeRow
    <2> QED BY <1>6, <2>1, <2>2, RequestNow
        DEF Str!DeactivateScope, Str!At, Checked, Granted
  <1>7. \/ UNCHANGED <<company, scope>>
        \/ \E r \in Worker :
             /\ ~Str!Refuse(r)
             /\ \/ Str!CreateCompany(r) \/ Str!Update(r)
                \/ Str!Deactivate(r) \/ Str!Create(r)
        \/ \E r \in Worker : Str!DeactivateScope(r)
    <2>1. ASSUME NEW r \in Worker, Str!Refuse(r) PROVE UNCHANGED <<company,
            scope>>
      BY <2>1 DEF Str!Refuse, Str!rows
    <2>2. ASSUME NEW r \in Worker,
                 \/ Str!Arrive(r) \/ Str!CreateCompanyCheck(r)
                 \/ Str!UpdateCheck(r) \/ Str!DeactivateCheck(r)
                 \/ Str!DeactivateScopes(r) \/ Str!CreateCheck(r)
                 \/ Str!DeactivateScopeCheck(r) \/ Str!Lose(r)
          PROVE  UNCHANGED <<company, scope>>
      BY <2>2
      DEF Str!Arrive, Str!Admit, Str!CreateCompanyCheck, Str!UpdateCheck,
          Str!DeactivateCheck,
          Str!DeactivateScopes, Str!CreateCheck, Str!DeactivateScopeCheck,
          Str!Lose, Str!Refuse,
          Str!Passed, Str!rows
    <2> QED BY <2>1, <2>2 DEF Str!Next, Str!Serve, Str!ReplaceGrants
  <1> QED BY <1>2, <1>3, <1>4, <1>5, <1>6, <1>7

\* In focus, Structure takes its own steps only.
LEMMA StructureRun ==
  ServicesSpec /\ Focused("structure") => Str!Spec
  <1>1. ServicesInit /\ Focused("structure") => Str!Init
    BY DEF ServicesInit, Focused
  <1>2. Focused("structure") /\ [ServicesNext]_servicesVars
          => [Str!Next]_Str!vars
    BY DEF ServicesNext, servicesVars, strVars, Focused, Str!vars
  <1>3. [ServicesNext]_servicesVars
          => (Focused("structure")' <=> Focused("structure"))
    BY FocusStays
  <1> QED BY <1>1, <1>2, <1>3, PTL DEF ServicesSpec, Str!Spec

\* organization-admin (FR-116 for writes): a User changes a Company, or adds a
\* Business Scope to it, only with a grant on that very Company, and changes a
\* Business Scope with a grant on it or on its Company, by the grants that the
\* check of the request found.
THEOREM WritesWithinGrants ==
  ASSUME ServicesConstants PROVE ServicesSpec => UserWritesWithinGrants
  <1>1. StructureInv /\ [Str!Next]_Str!vars => [Str!UserWrite]_Str!vars
    BY WritesAreGranted
  <1>2. [ServicesNext]_servicesVars
          /\ ([Str!UserWrite]_Str!vars \/ ~Focused("structure"))
          => [focus = "structure" => Str!UserWrite]_<<focus, strVars>>
    BY DEF ServicesNext, servicesVars, strVars, Focused, Str!vars
  <1>3. [ServicesNext]_servicesVars
          => (Focused("structure")' <=> Focused("structure"))
    BY FocusStays
  <1> QED BY StructureRun, StructureInvariant, <1>1, <1>2, <1>3, PTL
          DEF ServicesSpec, Str!Spec, UserWritesWithinGrants

---------------------------------------------------------------------------
(* CsrfClient: what a call may rely on at each of its places, and what it  *)
(* sends while the browser's session does not change.                      *)

CallRow == [tab : Tab \cup {Absent}, op : Web!Op,
            cookie : BrowserSession \cup {Absent},
            header : BrowserSession \cup {Absent}, answer : Web!Answer,
            retried : BOOLEAN]
UnderWay == {"token", "tokenAnswered", "request", "handler", "answered"}

\* A session that has been opened, or none.
Opened(s) == s # Absent => status[s] # "NEW"

\* What a call k may rely on at a place, when it has had n effects.
Fits(k, place, n) ==
  /\ place \in UnderWay => k.tab \in Tab
  /\ place = "idle" => n = 0
  /\ place = "token" => n = 0 /\ k.answer \in {"none", "csrf", "forbidden"}
  /\ place = "token" /\ k.retried => k.answer \in {"csrf", "forbidden"}
  /\ place = "tokenAnswered" =>
       n = 0 /\ k.answer \in {"ok", "unauthenticated", "csrf", "forbidden"}
  /\ place \in {"request", "handler"} => n = 0 /\ k.answer = "none"
  /\ place \in {"answered", "done"} =>
       /\ n <= 1
       /\ k.answer = "ok" => n = 1
       /\ k.answer \in {"csrf", "forbidden", "unauthenticated"} => n = 0

\* While the browser's session does not change, a call and its retry carry the
\* cookie of the browser; the retry carries its token too.
Fresh(k, place) ==
  /\ place \in UnderWay => k.cookie = cookie
  /\ place = "token" /\ k.answer = "csrf" => Web!Valid(cookie)
  /\ place = "tokenAnswered" => k.answer # "csrf"
  /\ place = "request" /\ k.retried => k.header = cookie
  /\ place = "answered" /\ k.answer = "csrf" => ~k.retried /\ Web!Valid(cookie)
  /\ place = "done" => k.answer # "csrf"

Progress(c) ==
  /\ Opened(call[c].cookie) /\ Opened(call[c].header)
  /\ Fits(call[c], clientPc[c], effects[c])
  /\ ~disturbed[c] => Fresh(call[c], clientPc[c])

ClientInv == Web!TypeOK /\ \A c \in BrowserCall : Progress(c)

\* Sessions are opened once and for all.
StayOpened == \A s \in BrowserSession : status[s] # "NEW" => status'[s] # "NEW"

\* A call is disturbed by what it does not do itself.
LEMMA OthersGoOn ==
  ASSUME ClientInv, Web!Watch, StayOpened, Web!TypeOK', NEW d \in BrowserCall,
         clientPc'[d] = clientPc[d], call'[d] = call[d],
         effects'[d] = effects[d]
  PROVE  Progress(d)'
  <1>1. Web!TypeOK /\ Progress(d)
    BY DEF ClientInv
  <1>2. Opened(call[d].cookie)' /\ Opened(call[d].header)'
    BY <1>1 DEF Progress, Opened, StayOpened, Web!TypeOK
  <1>3. Fits(call[d], clientPc[d], effects[d])'
    BY <1>1 DEF Progress, Fits
  <1>4. ASSUME ~disturbed'[d] PROVE Fresh(call[d], clientPc[d])'
    <2>1. CASE clientPc[d] = "idle"
      BY <2>1 DEF Fresh, UnderWay
    <2>2. CASE clientPc[d] # "idle"
      <3>1. /\ ~disturbed[d] /\ cookie' = cookie
            /\ Web!Valid(cookie) => Web!Valid(cookie)'
        BY <1>1, <1>4, <2>2 DEF Web!Watch, Web!Rotates
      <3>2. Fresh(call[d], clientPc[d])
        BY <1>1, <3>1 DEF Progress
      <3> QED BY <3>1, <3>2 DEF Fresh
    <2> QED BY <2>1, <2>2
  <1> QED BY <1>2, <1>3, <1>4 DEF Progress

\* A call goes on to a place with what it may rely on there.
LEMMA ClientStep ==
  ASSUME ClientInv, NEW c \in BrowserCall, NEW k \in CallRow,
         NEW place \in Web!Place,
         NEW n \in Nat,
         Web!Note(c, k), Web!Goto(c, place),
         effects' = [effects EXCEPT ![c] = n], Web!Watch,
         status' \in [BrowserSession -> {"NEW", "OPEN", "ENDED"}], StayOpened,
         cookie' \in BrowserSession \cup {Absent}, Opened(cookie)',
         cached' \in [Tab -> BrowserSession \cup {Absent}],
         \A t \in Tab : Opened(cached[t])',
         Opened(k.cookie)', Opened(k.header)', Fits(k, place, n),
         ~disturbed'[c] => Fresh(k, place)'
  PROVE  ClientInv'
  <1>1. Web!TypeOK
    BY DEF ClientInv
  <1>2. /\ clientPc' \in [BrowserCall -> Web!Place] /\ clientPc'[c] = place
        /\ call' \in [BrowserCall -> CallRow] /\ call'[c] = k
        /\ effects' \in [BrowserCall -> Nat] /\ effects'[c] = n
        /\ \A d \in BrowserCall \ {c} :
             /\ clientPc'[d] = clientPc[d] /\ call'[d] = call[d]
             /\ effects'[d] = effects[d]
    BY <1>1 DEF Web!TypeOK, CallRow, Web!Note, Web!Goto
  <1>3. disturbed' \in [BrowserCall -> BOOLEAN]
    BY <1>1 DEF Web!Watch, Web!TypeOK
  <1>4. Web!TypeOK'
    BY <1>2, <1>3 DEF Web!TypeOK, CallRow, Opened
  <1>5. Progress(c)'
    BY <1>2 DEF Progress, Opened
  <1>6. \A d \in BrowserCall \ {c} : Progress(d)'
    BY <1>2, <1>4, OthersGoOn
  <1> QED BY <1>4, <1>5, <1>6 DEF ClientInv

\* What an unchanged part of the browser and of the server is.
LEMMA ClientUnchanged ==
  ASSUME ClientInv
  PROVE  /\ UNCHANGED status =>
              /\ status' \in [BrowserSession -> {"NEW", "OPEN", "ENDED"}]
              /\ StayOpened
              /\ \A s : Opened(s) => Opened(s)'
         /\ \A c \in BrowserCall : UNCHANGED effects =>
              /\ effects' = [effects EXCEPT ![c] = effects[c]]
              /\ effects[c] \in Nat
         /\ Opened(cookie) /\ cookie \in BrowserSession \cup {Absent}
         /\ \A t \in Tab :
              Opened(cached[t]) /\ cached[t] \in BrowserSession \cup {Absent}
         /\ cached \in [Tab -> BrowserSession \cup {Absent}]
         /\ call \in [BrowserCall -> CallRow]
  BY DEF ClientInv, Web!TypeOK, StayOpened, Opened, CallRow

\* The request is sent, with the cookie of the moment.
LEMMA SendStep ==
  ASSUME ClientInv, NEW c \in BrowserCall, NEW k \in CallRow,
         NEW token \in BrowserSession \cup {Absent}, Opened(token),
         Web!Send(c, k, token),
         k.tab \in Tab, k.answer = "none", effects[c] = 0,
         k.retried /\ ~disturbed'[c] => token = cookie,
         UNCHANGED <<status, effects, cookie>>, Web!Watch,
         cached' \in [Tab -> BrowserSession \cup {Absent}],
         \A t \in Tab : Opened(cached'[t])
  PROVE  ClientInv'
  <1>1. PICK k2 \in CallRow :
          /\ k2 = [k EXCEPT !.cookie = cookie, !.header = token]
          /\ k2.tab = k.tab /\ k2.answer = k.answer /\ k2.retried = k.retried
          /\ k2.cookie = cookie /\ k2.header = token
    <2> DEFINE k2 == [k EXCEPT !.cookie = cookie, !.header = token]
    <2>1. /\ k2 \in CallRow
          /\ k2.tab = k.tab /\ k2.answer = k.answer /\ k2.retried = k.retried
          /\ k2.cookie = cookie /\ k2.header = token
      BY ClientUnchanged DEF CallRow
    <2> QED BY <2>1
  <1>2. Web!Note(c, k2) /\ Web!Goto(c, "request")
    BY <1>1 DEF Web!Send
  <1>3. Fits(k2, "request", 0) /\ "request" \in Web!Place /\ 0 \in Nat
    BY <1>1 DEF Fits, Web!Place, UnderWay
  <1>4. ~disturbed'[c] => Fresh(k2, "request")'
    BY <1>1 DEF Fresh
  <1>5. Opened(k2.cookie)' /\ Opened(k2.header)' /\ Opened(cookie)'
    BY <1>1, ClientUnchanged DEF Opened
  <1>6. \A t \in Tab : Opened(cached[t])'
    BY DEF Opened
  <1> QED BY <1>1, <1>2, <1>3, <1>4, <1>5, <1>6, ClientUnchanged, ClientStep

\* The token is fetched, with the cookie of the moment.
LEMMA FetchTokenStep ==
  ASSUME ClientInv, NEW c \in BrowserCall, NEW k \in CallRow,
         Web!FetchToken(c, k),
         Opened(k.header), k.tab \in Tab, effects[c] = 0,
         k.answer \in {"none", "csrf", "forbidden"},
         k.retried => k.answer \in {"csrf", "forbidden"},
         k.answer = "csrf" /\ ~disturbed'[c] => Web!Valid(cookie),
         UNCHANGED <<status, effects, cookie, cached>>, Web!Watch
  PROVE  ClientInv'
  <1>1. PICK k2 \in CallRow :
          /\ k2 = [k EXCEPT !.cookie = cookie]
          /\ k2.tab = k.tab /\ k2.answer = k.answer /\ k2.retried = k.retried
          /\ k2.cookie = cookie /\ k2.header = k.header
    <2> DEFINE k2 == [k EXCEPT !.cookie = cookie]
    <2>1. /\ k2 \in CallRow
          /\ k2.tab = k.tab /\ k2.answer = k.answer /\ k2.retried = k.retried
          /\ k2.cookie = cookie /\ k2.header = k.header
      BY ClientUnchanged DEF CallRow
    <2> QED BY <2>1
  <1>2. Web!Note(c, k2) /\ Web!Goto(c, "token")
    BY <1>1 DEF Web!FetchToken
  <1>3. Fits(k2, "token", 0) /\ "token" \in Web!Place /\ 0 \in Nat
    BY <1>1 DEF Fits, Web!Place, UnderWay
  <1>4. ~disturbed'[c] => Fresh(k2, "token")'
    BY <1>1 DEF Fresh, Web!Valid
  <1>5. Opened(k2.cookie)' /\ Opened(k2.header)' /\ Opened(cookie)'
    BY <1>1, ClientUnchanged DEF Opened
  <1>6. \A t \in Tab : Opened(cached[t])'
    BY ClientUnchanged DEF Opened
  <1> QED BY <1>1, <1>2, <1>3, <1>4, <1>5, <1>6, ClientUnchanged, ClientStep

\* The caller has an answer.
LEMMA ReturnStep ==
  ASSUME ClientInv, NEW c \in BrowserCall, NEW answer \in Web!Answer,
         Web!Return(c, answer),
         effects[c] <= 1, answer = "ok" => effects[c] = 1,
         answer \in {"csrf", "forbidden", "unauthenticated"} => effects[c] = 0,
         answer = "csrf" => disturbed'[c],
         UNCHANGED <<status, effects>>, Web!Watch,
         cookie' \in BrowserSession \cup {Absent}, Opened(cookie'),
         cached' \in [Tab -> BrowserSession \cup {Absent}],
         \A t \in Tab : Opened(cached'[t])
  PROVE  ClientInv'
  <1> DEFINE k == [Web!NoCall EXCEPT !.answer = answer]
  <1>1. /\ k \in CallRow /\ k.answer = answer /\ k.cookie = Absent
        /\ k.header = Absent
    BY DEF CallRow, Web!NoCall, Web!Op
  <1>2. Web!Note(c, k) /\ Web!Goto(c, "done")
    BY DEF Web!Return
  <1> HIDE DEF k
  <1>3. Fits(k, "done", effects[c]) /\ "done" \in Web!Place
    BY <1>1 DEF Fits, Web!Place, UnderWay
  <1>4. ~disturbed'[c] => Fresh(k, "done")'
    BY <1>1 DEF Fresh, UnderWay
  <1>5. Opened(k.cookie)' /\ Opened(k.header)' /\ Opened(cookie)'
    BY <1>1 DEF Opened
  <1>6. \A t \in Tab : Opened(cached[t])'
    BY DEF Opened
  <1> QED BY <1>1, <1>2, <1>3, <1>4, <1>5, <1>6, ClientUnchanged, ClientStep

\* The server has done its part of a call, which goes on to a place.
LEMMA ServeStep ==
  ASSUME ClientInv, NEW c \in BrowserCall, NEW k \in CallRow,
         NEW place \in Web!Place,
         NEW n \in Nat, Web!Note(c, k), Web!Goto(c, place),
         effects' = [effects EXCEPT ![c] = n], Web!Watch,
         status' \in [BrowserSession -> {"NEW", "OPEN", "ENDED"}], StayOpened,
         k.cookie = call[c].cookie, Opened(k.header)', Fits(k, place, n),
         UNCHANGED <<cookie, cached>>,
         ~disturbed'[c] => Fresh(k, place)'
  PROVE  ClientInv'
  <1>1. Web!TypeOK /\ Progress(c)
    BY DEF ClientInv
  <1>2. /\ Opened(k.cookie)' /\ Opened(k.header)' /\ Opened(cookie)'
        /\ \A t \in Tab : Opened(cached[t])'
    BY <1>1 DEF Opened, Web!TypeOK, StayOpened, Progress
  <1> QED BY <1>2, ClientUnchanged, ClientStep

\* What is known of a call before it goes on.
LEMMA CallNow ==
  ASSUME ClientInv, NEW c \in BrowserCall
  PROVE  /\ call[c] \in CallRow /\ effects[c] \in Nat
         /\ clientPc[c] \in Web!Place
         /\ Opened(call[c].cookie) /\ Opened(call[c].header)
         /\ Fits(call[c], clientPc[c], effects[c])
         /\ ~disturbed[c] => Fresh(call[c], clientPc[c])
  BY DEF ClientInv, Web!TypeOK, Progress, CallRow

\* A disturbance is not forgotten while the call is under way.
LEMMA DisturbanceStays ==
  ASSUME ClientInv, Web!Watch, NEW c \in BrowserCall, clientPc[c] # "idle",
         clientPc'[c] # "idle",
         ~disturbed'[c]
  PROVE  /\ ~disturbed[c] /\ cookie' = cookie
         /\ Web!Valid(cookie) => Web!Valid(cookie)'
  BY DEF ClientInv, Web!TypeOK, Web!Watch, Web!Rotates

\* A call starts with the token of its tab, or fetches one.
LEMMA StartKeeps ==
  ASSUME ClientInv, NEW c \in BrowserCall, Web!Start(c) PROVE ClientInv'
  <1>1. PICK t \in Tab, o \in Web!Op :
          LET k == [Web!NoCall EXCEPT !.tab = t, !.op = o] IN
          IF cached[t] = Absent
          THEN Web!FetchToken(c, k) ELSE Web!Send(c, k, cached[t])
    BY DEF Web!Start
  <1> DEFINE k == [Web!NoCall EXCEPT !.tab = t, !.op = o]
  <1>2. /\ k \in CallRow /\ k.tab = t /\ k.answer = "none" /\ k.retried = FALSE
        /\ k.header = Absent
    BY DEF Web!NoCall, CallRow, Web!Op, Web!Answer
  <1>3. Web!FetchToken(c, k) \/ Web!Send(c, k, cached[t])
    BY <1>1
  <1> HIDE DEF k
  <1>4. effects[c] = 0 /\ Opened(k.header)
    BY <1>2, CallNow DEF Web!Start, Web!At, Fits, Opened
  <1> QED BY <1>2, <1>3, <1>4, ClientUnchanged, SendStep, FetchTokenStep
      DEF Web!Start, Web!server, Web!browser

\* A token that arrives is of the cookie it was asked for with.
LEMMA ReceiveTokenKeeps ==
  ASSUME ClientInv, NEW c \in BrowserCall, Web!ReceiveToken(c) PROVE ClientInv'
  <1>1. PICK k \in CallRow : k = call[c]
    BY CallNow
  <1> DEFINE k2 == [k EXCEPT !.answer = "none"]
  <1>2. /\ k2 \in CallRow /\ k2.tab = k.tab /\ k2.answer = "none"
        /\ k2.retried = k.retried
    BY <1>1 DEF CallRow, Web!Answer
  <1>3. /\ clientPc[c] = "tokenAnswered" /\ k.tab \in Tab /\ effects[c] = 0
        /\ k.answer \in {"ok", "unauthenticated", "csrf", "forbidden"}
        /\ ~disturbed[c] => k.cookie = cookie /\ k.answer # "csrf"
        /\ Opened(k.cookie) /\ k.cookie \in BrowserSession \cup {Absent}
        /\ Web!Watch /\ UNCHANGED <<status, effects, cookie>>
    BY <1>1, CallNow
    DEF Web!ReceiveToken, Web!At, Fits, Fresh, UnderWay, Web!server, CallRow
  <1>4. CASE /\ Web!Send(c, k2, k.cookie)
             /\ cached' = [cached EXCEPT ![k.tab] = k.cookie]
    <2>1. ~disturbed'[c] => k.cookie = cookie
      BY <1>3, <1>4, DisturbanceStays, ClientUnchanged
         DEF Web!Send, Web!Goto, ClientInv, Web!TypeOK
    <2>2. /\ cached' \in [Tab -> BrowserSession \cup {Absent}]
          /\ \A t \in Tab : Opened(cached'[t])
      BY <1>3, <1>4, ClientUnchanged
    <2> HIDE DEF k2
    <2> QED BY <1>2, <1>3, <1>4, <2>1, <2>2, SendStep
  <1>5. CASE Web!Send(c, k2, cached[k.tab]) /\ UNCHANGED cached /\ ~k.retried
    <2> HIDE DEF k2
    <2> QED BY <1>2, <1>3, <1>5, ClientUnchanged, SendStep
  <1>6. CASE Web!Return(c, k.answer) /\ k.answer # "ok" /\ UNCHANGED cached
    <2>1. k.answer = "csrf" => disturbed'[c]
      BY <1>3, <1>6, DisturbanceStays
      DEF Web!Return, Web!Goto, ClientInv, Web!TypeOK
    <2>2. k.answer \in Web!Answer /\ 0 <= 1
      BY <1>1 DEF CallRow
    <2> QED BY <1>3, <1>6, <2>1, <2>2, ClientUnchanged, ReturnStep
  <1> QED BY <1>1, <1>4, <1>5, <1>6 DEF Web!ReceiveToken

\* A refused call is retried once; another answer is returned, and a login or
\* logout replaces the cookie.
LEMMA ReceiveKeeps ==
  ASSUME ClientInv, NEW c \in BrowserCall, Web!Receive(c) PROVE ClientInv'
  <1>1. PICK k \in CallRow : k = call[c]
    BY CallNow
  <1>2. /\ clientPc[c] = "answered" /\ k.tab \in Tab /\ effects[c] \in Nat
        /\ effects[c] <= 1
        /\ k.answer = "ok" => effects[c] = 1
        /\ k.answer \in {"csrf", "forbidden", "unauthenticated"}
             => effects[c] = 0
        /\ ~disturbed[c] /\ k.answer = "csrf" => ~k.retried /\ Web!Valid(cookie)
        /\ Opened(k.header) /\ k.header \in BrowserSession \cup {Absent}
        /\ Web!Watch /\ UNCHANGED <<status, effects>>
    BY <1>1, CallNow
    DEF Web!Receive, Web!At, Fits, Fresh, UnderWay, Web!server, CallRow
  <1>3. CASE Web!Retries(k) /\ Web!FetchToken(c, [k EXCEPT !.retried = TRUE])
             /\ UNCHANGED Web!browser
    <2> DEFINE k2 == [k EXCEPT !.retried = TRUE]
    <2>1. /\ k2 \in CallRow /\ k2.tab = k.tab /\ k2.answer = k.answer
          /\ k2.header = k.header
      BY <1>1 DEF CallRow
    <2>2. k.answer \in {"csrf", "forbidden"}
      BY <1>3 DEF Web!Retries, Web!Is403
    <2>3. k.answer = "csrf" /\ ~disturbed'[c] => Web!Valid(cookie)
      BY <1>2, <1>3, DisturbanceStays
      DEF Web!FetchToken, Web!Goto, ClientInv, Web!TypeOK
    <2> HIDE DEF k2
    <2> QED BY <1>2, <1>3, <2>1, <2>2, <2>3, FetchTokenStep DEF k2, Web!browser
  <1>4. CASE /\ ~Web!Retries(k) /\ Web!Return(c, k.answer)
             /\ IF k.answer = "ok" /\ k.op # "write"
                THEN /\ cookie' = k.header
                     /\ cached' = [cached EXCEPT ![k.tab] = k.header]
                ELSE UNCHANGED <<cookie, cached>>
    <2>1. k.answer = "csrf" => disturbed'[c]
      BY <1>2, <1>4, DisturbanceStays
         DEF Web!Return, Web!Goto, ClientInv, Web!TypeOK, Web!Retries, Web!Is403
    <2>2. /\ cookie' \in BrowserSession \cup {Absent} /\ Opened(cookie')
          /\ cached' \in [Tab -> BrowserSession \cup {Absent}]
          /\ \A t \in Tab : Opened(cached'[t])
      BY <1>2, <1>4, ClientUnchanged
    <2>3. k.answer \in Web!Answer
      BY <1>1 DEF CallRow
    <2> QED BY <1>2, <1>4, <2>1, <2>2, <2>3, ReturnStep
  <1> QED BY <1>1, <1>3, <1>4 DEF Web!Receive

\* A lost call has had its effect once at most.
LEMMA LoseKeeps ==
  ASSUME ClientInv, NEW c \in BrowserCall, Web!Lose(c) PROVE ClientInv'
  <1>1. effects[c] <= 1
    BY CallNow DEF Web!Lose, Fits, Web!Place
  <1> QED BY <1>1, ClientUnchanged, ReturnStep
      DEF Web!Lose, Web!server, Web!browser, Web!Answer

\* A settled call is forgotten.
LEMMA SettleKeeps ==
  ASSUME ClientInv, NEW c \in BrowserCall, Web!Settle(c) PROVE ClientInv'
  <1>1. /\ Web!NoCall \in CallRow /\ Web!NoCall.cookie = Absent
        /\ Web!NoCall.header = Absent
        /\ "idle" \in Web!Place /\ 0 \in Nat
    BY DEF Web!NoCall, CallRow, Web!Op, Web!Answer, Web!Place
  <1>2. Fits(Web!NoCall, "idle", 0) /\ Fresh(Web!NoCall, "idle")'
    BY DEF Fits, Fresh, UnderWay
  <1>3. /\ Opened(Web!NoCall.cookie)' /\ Opened(Web!NoCall.header)'
        /\ Opened(cookie)'
        /\ \A t \in Tab : Opened(cached[t])'
    BY <1>1, ClientUnchanged DEF Opened, Web!Settle, Web!browser
  <1> QED BY <1>1, <1>2, <1>3, ClientUnchanged, ClientStep
      DEF Web!Settle, Web!browser

\* An answer, or the next guard, leaves the rest of the call as it is.
LEMMA ReplyStep ==
  ASSUME ClientInv, NEW c \in BrowserCall, clientPc[c] \in UnderWay, Web!Watch,
         NEW place \in {"tokenAnswered", "handler", "answered"},
         Web!Goto(c, place),
         NEW answer \in Web!Answer, NEW header \in BrowserSession \cup {Absent},
         Web!Note(c, [call[c] EXCEPT !.answer = answer, !.header = header]),
         Opened(header)',
         NEW n \in Nat, effects' = [effects EXCEPT ![c] = n],
         status' \in [BrowserSession -> {"NEW", "OPEN", "ENDED"}], StayOpened,
         UNCHANGED <<cookie, cached>>,
         place = "tokenAnswered" =>
           /\ n = 0 /\ answer \in {"ok", "unauthenticated", "csrf", "forbidden"}
           /\ ~disturbed'[c] => answer # "csrf",
         place = "handler" => n = 0 /\ answer = "none",
         place = "answered" =>
           /\ n <= 1
           /\ answer = "ok" => n = 1
           /\ answer \in {"csrf", "forbidden", "unauthenticated"} => n = 0
           /\ answer = "csrf" /\ ~disturbed'[c]
                => ~call[c].retried /\ Web!Valid(cookie)'
  PROVE  ClientInv'
  <1>1. PICK k \in CallRow :
          /\ k = [call[c] EXCEPT !.answer = answer, !.header = header]
          /\ k.tab = call[c].tab /\ k.cookie = call[c].cookie
          /\ k.retried = call[c].retried /\ k.answer = answer
          /\ k.header = header
    <2> DEFINE k == [call[c] EXCEPT !.answer = answer, !.header = header]
    <2>1. /\ k \in CallRow
          /\ k.tab = call[c].tab /\ k.cookie = call[c].cookie
          /\ k.retried = call[c].retried /\ k.answer = answer
          /\ k.header = header
      BY CallNow DEF CallRow
    <2> QED BY <2>1
  <1>2. place \in Web!Place /\ call[c].tab \in Tab
    BY CallNow DEF Web!Place, Fits
  <1>3. Fits(k, place, n)
    BY <1>1, <1>2 DEF Fits
  <1>4. ASSUME ~disturbed'[c] PROVE Fresh(k, place)'
    <2>1. ~disturbed[c]
      BY <1>4, DisturbanceStays DEF Web!Goto, ClientInv, Web!TypeOK, UnderWay
    <2>2. call[c].cookie = cookie
      BY <2>1, CallNow DEF Fresh
    <2> QED BY <1>1, <1>4, <2>2 DEF Fresh
  <1>5. Opened(k.header)' /\ Web!Note(c, k)
    BY <1>1
  <1> QED BY <1>1, <1>2, <1>3, <1>4, <1>5, ServeStep

\* The server gives a token to a live session only.
LEMMA ServeTokenKeeps ==
  ASSUME ClientInv, NEW c \in BrowserCall, Web!ServeToken(c) PROVE ClientInv'
  <1>1. PICK k \in CallRow : k = call[c]
    BY CallNow
  <1>2. /\ clientPc[c] = "token" /\ effects[c] = 0 /\ Web!Watch
        /\ k.answer \in {"none", "csrf", "forbidden"}
        /\ k.retried => k.answer \in {"csrf", "forbidden"}
        /\ ~disturbed[c] => k.cookie = cookie
        /\ ~disturbed[c] /\ k.answer = "csrf" => Web!Valid(cookie)
        /\ Opened(k.header) /\ k.header \in BrowserSession \cup {Absent}
        /\ UNCHANGED <<status, effects, cookie, cached>>
        /\ Web!Goto(c, "tokenAnswered")
    BY <1>1, CallNow
    DEF Web!ServeToken, Web!At, Fits, Fresh, UnderWay, Web!server,
        Web!browser, CallRow
  <1>3. PICK answer \in {"ok", "unauthenticated", k.answer} :
          /\ Web!Note(c, [k EXCEPT !.answer = answer])
          /\ answer \notin {"ok", "unauthenticated"}
               => ~Web!Valid(k.cookie) /\ k.retried
    <2>1. CASE \E a \in {"ok", "unauthenticated"} : Web!Reply(c, a)
      BY <1>1, <2>1 DEF Web!Reply
    <2>2. CASE UNCHANGED call /\ ~Web!Valid(k.cookie) /\ k.retried
      <3>1. /\ k = [k EXCEPT !.answer = k.answer]
            /\ call \in [BrowserCall -> CallRow]
        BY ClientUnchanged DEF CallRow
      <3>2. Web!Note(c, [k EXCEPT !.answer = k.answer])
        BY <1>1, <2>2, <3>1 DEF Web!Note
      <3> QED BY <2>2, <3>2
    <2> QED BY <1>1, <2>1, <2>2 DEF Web!ServeToken
  <1>4. [k EXCEPT !.answer = answer]
          = [call[c] EXCEPT !.answer = answer, !.header = k.header]
    BY <1>1 DEF CallRow
  <1>5. /\ answer \in {"ok", "unauthenticated", "csrf", "forbidden"}
        /\ ~disturbed'[c] => answer # "csrf"
    BY <1>2, <1>3, DisturbanceStays DEF Web!Goto, ClientInv, Web!TypeOK
  <1>6. Opened(k.header)' /\ answer \in Web!Answer /\ clientPc[c] \in UnderWay
    BY <1>2, <1>5 DEF Opened, Web!Answer, UnderWay
  <1> QED BY <1>2, <1>3, <1>4, <1>5, <1>6, ClientUnchanged, ReplyStep

\* The guard refuses a retry as forged only if the session changed in between.
LEMMA GuardKeeps ==
  ASSUME ClientInv, NEW c \in BrowserCall, Web!Guard(c) PROVE ClientInv'
  <1>1. PICK k \in CallRow : k = call[c]
    BY CallNow
  <1>2. /\ clientPc[c] = "request" /\ effects[c] = 0 /\ Web!Watch
        /\ k.answer = "none"
        /\ ~disturbed[c] => k.cookie = cookie
        /\ ~disturbed[c] /\ k.retried => k.header = cookie
        /\ Opened(k.header) /\ k.header \in BrowserSession \cup {Absent}
        /\ UNCHANGED <<status, effects, cookie, cached>>
    BY <1>1, CallNow
    DEF Web!Guard, Web!At, Fits, Fresh, UnderWay, Web!server, Web!browser,
        CallRow
  <1>3. PICK answer \in {"none", "unauthenticated", "csrf", "forbidden"},
             place \in {"handler", "answered"} :
          /\ Web!Note(c, [k EXCEPT !.answer = answer]) /\ Web!Goto(c, place)
          /\ place = "handler" <=> answer = "none"
          /\ answer = "csrf" => Web!Valid(k.cookie) /\ k.header # k.cookie
    <2>1. CASE Web!Goto(c, "handler") /\ UNCHANGED call
      <3>1. /\ k = [k EXCEPT !.answer = "none"]
            /\ call \in [BrowserCall -> CallRow]
        BY <1>2, ClientUnchanged DEF CallRow
      <3>2. Web!Note(c, [k EXCEPT !.answer = "none"])
        BY <1>1, <2>1, <3>1 DEF Web!Note
      <3> QED BY <2>1, <3>2
    <2>2. CASE \E a \in {"unauthenticated", "csrf", "forbidden"} :
                 /\ Web!Goto(c, "answered") /\ Web!Reply(c, a)
                 /\ a = "csrf" => Web!Valid(k.cookie) /\ k.header # k.cookie
      BY <1>1, <2>2 DEF Web!Reply
    <2> QED BY <1>1, <2>1, <2>2 DEF Web!Guard
  <1>4. [k EXCEPT !.answer = answer]
          = [call[c] EXCEPT !.answer = answer, !.header = k.header]
    BY <1>1 DEF CallRow
  <1>5. answer = "csrf" /\ ~disturbed'[c]
          => ~call[c].retried /\ Web!Valid(cookie)'
    BY <1>1, <1>2, <1>3, DisturbanceStays DEF Web!Goto, ClientInv, Web!TypeOK
  <1>6. /\ Opened(k.header)' /\ answer \in Web!Answer
        /\ clientPc[c] \in UnderWay /\ 0 <= 1
    BY <1>2 DEF Opened, Web!Answer, UnderWay
  <1>7. Web!Note(c, [call[c] EXCEPT !.answer = answer, !.header = k.header])
    BY <1>3, <1>4
  <1>8. /\ effects' = [effects EXCEPT ![c] = 0] /\ 0 \in Nat
        /\ status' \in [BrowserSession -> {"NEW", "OPEN", "ENDED"}]
        /\ StayOpened
    BY <1>2, ClientUnchanged
  <1>9. CASE place = "handler"
    <2>1. answer = "none"
      BY <1>3, <1>9
    <2>2. Web!Goto(c, "handler")
      BY <1>3, <1>9
    <2>3. Web!Note(c, [call[c] EXCEPT !.answer = "none", !.header = k.header])
      BY <1>7, <2>1
    <2>4. "none" \in Web!Answer
      BY DEF Web!Answer
    <2> QED BY <1>2, <1>6, <1>8, <2>2, <2>3, <2>4, ReplyStep
  <1>10. CASE place = "answered"
    <2>1. answer # "none" /\ answer # "ok"
      BY <1>3, <1>10
    <2> QED BY <1>2, <1>3, <1>5, <1>6, <1>7, <1>8, <1>10, <2>1, ReplyStep
  <1> QED BY <1>3, <1>9, <1>10

\* A handler answers, and has had its effect once if it says so.
LEMMA HandlerStep ==
  ASSUME ClientInv, NEW c \in BrowserCall, Web!At(c, "handler"), Web!Watch,
         Web!Goto(c, "answered"),
         NEW answer \in {"ok", "failed", "unauthenticated"},
         NEW header \in BrowserSession \cup {Absent}, Opened(header)',
         Web!Note(c, [call[c] EXCEPT !.answer = answer, !.header = header]),
         \/ Web!Takes(c) /\ answer # "unauthenticated"
         \/ UNCHANGED effects /\ answer # "ok",
         status' \in [BrowserSession -> {"NEW", "OPEN", "ENDED"}], StayOpened,
         UNCHANGED <<cookie, cached>>
  PROVE  ClientInv'
  <1>1. /\ effects[c] = 0 /\ clientPc[c] \in UnderWay
        /\ effects \in [BrowserCall -> Nat]
    BY CallNow DEF Web!At, Fits, UnderWay, ClientInv, Web!TypeOK
  <1>2. PICK n \in {0, 1} :
          /\ effects' = [effects EXCEPT ![c] = n]
          /\ answer = "ok" => n = 1
          /\ answer = "unauthenticated" => n = 0
    BY <1>1 DEF Web!Takes
  <1>3. /\ answer \in Web!Answer /\ answer \notin {"csrf", "forbidden"}
        /\ n \in Nat /\ n <= 1
    BY DEF Web!Answer
  <1> QED BY <1>1, <1>2, <1>3, ReplyStep

\* An answer leaves the header of the call as it is.
LEMMA ReplyIsNote ==
  ASSUME ClientInv, NEW c \in BrowserCall, NEW answer, Web!Reply(c, answer)
  PROVE  Web!Note(c, [call[c] EXCEPT !.answer = answer,
                                     !.header = call[c].header])
  <1>1. [call[c] EXCEPT !.answer = answer]
          = [call[c] EXCEPT !.answer = answer, !.header = call[c].header]
    BY CallNow DEF CallRow
  <1> QED BY <1>1 DEF Web!Reply

\* A write has its effect once, if it says so.
LEMMA WriteKeeps ==
  ASSUME ClientInv, NEW c \in BrowserCall, Web!Write(c) PROVE ClientInv'
  <1>1. PICK header \in BrowserSession \cup {Absent} : header = call[c].header
    BY CallNow DEF CallRow
  <1>2. Opened(header)'
    BY <1>1, CallNow, ClientUnchanged DEF Web!Write
  <1>3. PICK answer \in {"ok", "failed"} :
          /\ Web!Reply(c, answer)
          /\ Web!Takes(c) \/ (UNCHANGED effects /\ answer # "ok")
    BY DEF Web!Write
  <1> QED BY <1>1, <1>2, <1>3, ClientUnchanged, ReplyIsNote, HandlerStep
      DEF Web!Write, Web!browser

\* A login opens a session that was not there.
LEMMA LoginKeeps ==
  ASSUME ClientInv, NEW c \in BrowserCall, Web!Login(c) PROVE ClientInv'
  <1>1. CASE Web!Reply(c, "unauthenticated") /\ UNCHANGED Web!server
    <2>1. PICK header \in BrowserSession \cup {Absent} : header = call[c].header
      BY CallNow DEF CallRow
    <2>2. Opened(header)'
      BY <1>1, <2>1, CallNow, ClientUnchanged DEF Web!server
    <2> QED BY <1>1, <2>1, <2>2, ClientUnchanged, ReplyIsNote, HandlerStep
        DEF Web!Login, Web!browser, Web!server
  <1>2. ASSUME NEW s \in BrowserSession, status[s] = "NEW",
               status' = [status EXCEPT ![s] = "OPEN"], Web!Takes(c),
               Web!Note(c, [call[c] EXCEPT !.header = s, !.answer = "ok"])
        PROVE  ClientInv'
    <2>1. /\ status' \in [BrowserSession -> {"NEW", "OPEN", "ENDED"}]
          /\ StayOpened
          /\ Opened(s)'
      BY <1>2 DEF ClientInv, Web!TypeOK, StayOpened, Opened
    <2>2. Web!Note(c, [call[c] EXCEPT !.answer = "ok", !.header = s])
      BY <1>2, CallNow DEF CallRow, Web!Note
    <2> QED BY <1>2, <2>1, <2>2, HandlerStep DEF Web!Login, Web!browser
  <1> QED BY <1>1, <1>2 DEF Web!Login

\* A logout ends the session of its request.
LEMMA LogoutKeeps ==
  ASSUME ClientInv, NEW c \in BrowserCall, Web!Logout(c) PROVE ClientInv'
  <1>1. /\ status' \in [BrowserSession -> {"NEW", "OPEN", "ENDED"}]
        /\ StayOpened
        /\ Opened(Absent)'
    BY DEF Web!Logout, ClientInv, Web!TypeOK, StayOpened, Opened
  <1>2. Web!Note(c, [call[c] EXCEPT !.answer = "ok", !.header = Absent])
    BY CallNow DEF Web!Logout, CallRow, Web!Note
  <1> QED BY <1>1, <1>2, HandlerStep DEF Web!Logout, Web!browser

\* A session that ends disturbs the calls under way.
LEMMA EndKeeps ==
  ASSUME ClientInv, NEW s \in BrowserSession, Web!End(s) PROVE ClientInv'
  <1>1. StayOpened /\ Web!Watch
    BY DEF Web!End, ClientInv, Web!TypeOK, StayOpened
  <1>2. Web!TypeOK'
    BY <1>1
    DEF Web!End, ClientInv, Web!TypeOK, StayOpened, Web!browser, Web!Watch
  <1> QED BY <1>1, <1>2, OthersGoOn DEF Web!End, ClientInv

\* ClientInv is inductive.
LEMMA ClientInvariant == Web!Spec => []ClientInv
  <1>1. Web!Init => ClientInv
    <2> SUFFICES ASSUME Web!Init PROVE ClientInv
      OBVIOUS
    <2>1. /\ Web!NoCall \in CallRow /\ Web!NoCall.cookie = Absent
          /\ Web!NoCall.header = Absent
      BY DEF Web!NoCall, CallRow, Web!Op, Web!Answer
    <2>2. Web!TypeOK
      BY <2>1 DEF Web!Init, Web!TypeOK, CallRow, Web!Place
    <2>3. ASSUME NEW c \in BrowserCall PROVE Progress(c)
      BY <2>1 DEF Web!Init, Progress, Fits, Fresh, Opened, UnderWay
    <2> QED BY <2>2, <2>3 DEF ClientInv
  <1>2. ClientInv /\ [Web!Next]_Web!vars => ClientInv'
    <2> SUFFICES ASSUME ClientInv, [Web!Next]_Web!vars PROVE ClientInv'
      OBVIOUS
    <2>1. CASE UNCHANGED Web!vars
      BY <2>1
      DEF Web!vars, ClientInv, Web!TypeOK, Progress, Opened, Fresh, Web!Valid
    <2> QED BY <2>1, StartKeeps, ServeTokenKeeps, ReceiveTokenKeeps, GuardKeeps,
            WriteKeeps, LoginKeeps, LogoutKeeps, ReceiveKeeps, SettleKeeps,
            LoseKeeps, EndKeeps DEF Web!Next
  <1> QED BY <1>1, <1>2, PTL DEF Web!Spec

\* In focus, Client takes its own steps only.
LEMMA ClientRun ==
  ServicesSpec /\ Focused("client") => Web!Spec
  <1>1. ServicesInit /\ Focused("client") => Web!Init
    BY DEF ServicesInit, Focused
  <1>2. Focused("client") /\ [ServicesNext]_servicesVars
          => [Web!Next]_Web!vars
    BY DEF ServicesNext, servicesVars, clientVars, Focused, Web!vars
  <1>3. [ServicesNext]_servicesVars
          => (Focused("client")' <=> Focused("client"))
    BY FocusStays
  <1> QED BY <1>1, <1>2, <1>3, PTL DEF ServicesSpec, Web!Spec

\* apiFetch: its retry is transparent. A call that is sent twice has its effect
\* once, and one its caller is told was refused or not authenticated has none,
\* with whatever calls, logins and logouts in other tabs.
THEOREM RetryIsTransparent == ServicesSpec => []EffectOnce
  <1>1. ClientInv => Web!EffectOnce
    <2> SUFFICES ASSUME ClientInv, NEW c \in BrowserCall
                 PROVE  /\ effects[c] <= 1
                        /\ Web!Returned(c, {"ok"}) => effects[c] = 1
                        /\ Web!Returned(c, {"csrf", "forbidden",
                                            "unauthenticated"})
                             => effects[c] = 0
      BY DEF Web!EffectOnce
    <2> QED BY CallNow DEF Fits, Web!Place, Web!Returned, Web!At
  <1>2. Web!EffectOnce \/ ~Focused("client") => EffectOnce
    BY DEF EffectOnce, Focused
  <1>3. [ServicesNext]_servicesVars
          => (Focused("client")' <=> Focused("client"))
    BY FocusStays
  <1> QED BY ClientRun, ClientInvariant, <1>1, <1>2, <1>3, PTL DEF ServicesSpec

\* "a stale in-memory token doesn't surface as a user-facing error" (api.ts): a
\* call fails its CSRF check only when the browser's session changed or ended
\* while it was under way, however many tabs and calls there are.
THEOREM TokenHeals == ServicesSpec => []StaleTokenHeals
  <1>1. ClientInv => Web!StaleTokenHeals
    BY CallNow DEF Web!StaleTokenHeals, Web!Returned, Web!At, Fresh
  <1>2. Web!StaleTokenHeals \/ ~Focused("client") => StaleTokenHeals
    BY DEF StaleTokenHeals, Focused
  <1>3. [ServicesNext]_servicesVars
          => (Focused("client")' <=> Focused("client"))
    BY FocusStays
  <1> QED BY ClientRun, ClientInvariant, <1>1, <1>2, <1>3, PTL DEF ServicesSpec

---------------------------------------------------------------------------
(* Throttle *)

\* A set of numbers has a least one.
LEMMA LeastNumber ==
  ASSUME NEW S \in SUBSET Nat, S # {}
  PROVE  \E x \in S : \A y \in S : x <= y
  <1>1. IsWellFoundedOn(OpToRel(<, Nat), Nat)
    BY NatLessThanWellFounded
  <1>2. PICK x \in S : \A y \in S : ~(<<y, x>> \in OpToRel(<, Nat))
    BY <1>1, WFMin
  <1>3. \A y \in S : ~(y < x)
    BY <1>2 DEF OpToRel
  <1> QED BY <1>3

\* The powers up to the n-th.
PowersTo(n) ==
  {g \in [0..n -> Nat] : g[0] = 1 /\ \A i \in 1..n : g[i] = 2 * g[i - 1]}

LEMMA PowersExist == \A n \in Nat : PowersTo(n) # {}
  <1> DEFINE Bad == {n \in Nat : PowersTo(n) = {}}
  <1>1. SUFFICES ASSUME Bad # {} PROVE FALSE
    OBVIOUS
  <1>2. PICK n \in Bad : \A k \in Bad : n <= k
    <2>1. Bad \in SUBSET Nat
      OBVIOUS
    <2> HIDE DEF Bad
    <2> QED BY <1>1, <2>1, LeastNumber
  <1>3. CASE n = 0
    <2>1. [i \in 0..0 |-> 1] \in PowersTo(0)
      BY DEF PowersTo
    <2> QED BY <1>2, <1>3, <2>1
  <1>4. CASE n # 0
    <2>1. n - 1 \in Nat /\ PowersTo(n - 1) # {}
      BY <1>2, <1>4
    <2>2. PICK g : g \in PowersTo(n - 1)
      BY <2>1
    <2> DEFINE h == [i \in 0..n |-> IF i = n THEN 2 * g[n - 1] ELSE g[i]]
    <2>3. /\ \A i \in 0..(n - 1) : g[i] \in Nat /\ h[i] = g[i]
          /\ h[n] = 2 * g[n - 1]
      BY <1>2, <2>1, <2>2 DEF PowersTo
    <2>4. h \in [0..n -> Nat]
      <3>1. \A i \in 0..n : i = n \/ i \in 0..(n - 1)
        BY <1>2
      <3>2. g[n - 1] \in Nat
        <4>1. n - 1 \in 0..(n - 1)
          BY <2>1
        <4> QED BY <2>3, <4>1
      <3>3. ASSUME NEW i \in 0..n
            PROVE  (IF i = n THEN 2 * g[n - 1] ELSE g[i]) \in Nat
        <4>1. CASE i = n
          BY <3>2, <4>1
        <4>2. CASE i # n
          BY <2>3, <3>1, <4>2
        <4> QED BY <4>1, <4>2
      <3> QED BY <3>3
    <2> HIDE DEF h
    <2>5. ASSUME NEW i \in 1..n
          PROVE  h[i] = 2 * h[i - 1]
      <3>1. /\ n \in Nat /\ i - 1 \in 0..(n - 1)
            /\ i # n => i \in 1..(n - 1) /\ i \in 0..(n - 1)
        BY <1>2, <2>1
      <3>2. h[i - 1] = g[i - 1]
        BY <2>3, <3>1
      <3>3. CASE i = n
        BY <2>3, <3>2, <3>3
      <3>4. CASE i # n
        BY <2>2, <2>3, <3>1, <3>2, <3>4 DEF PowersTo
      <3> QED BY <3>3, <3>4
    <2>6. h \in PowersTo(n)
      <3>1. h[0] = 1
        BY <2>1, <2>2, <2>3 DEF PowersTo
      <3> QED BY <2>4, <2>5, <3>1 DEF PowersTo
    <2> QED BY <1>2, <2>6
  <1> QED BY <1>3, <1>4

\* They are the same for every n.
LEMMA PowersAgree ==
  ASSUME NEW n \in Nat, NEW k \in 0..n, NEW g \in PowersTo(n), NEW h \in PowersTo(k)
  PROVE  \A i \in 0..k : g[i] = h[i]
  <1> DEFINE Bad == {i \in 0..k : g[i] # h[i]}
  <1>1. SUFFICES ASSUME Bad # {} PROVE FALSE
    OBVIOUS
  <1>2. PICK i \in Bad : \A j \in Bad : i <= j
    <2>1. Bad \in SUBSET Nat
      OBVIOUS
    <2> HIDE DEF Bad
    <2> QED BY <1>1, <2>1, LeastNumber
  <1>3. i # 0
    BY <1>2 DEF PowersTo
  <1>4. i - 1 \in 0..k /\ i \in 1..k /\ i \in 1..n /\ g[i - 1] = h[i - 1]
    BY <1>2, <1>3
  <1> QED BY <1>2, <1>4 DEF PowersTo

\* 2^n is a number that doubles with n.
LEMMA PowersDouble ==
  \A n \in Nat : Thr!Power[n] \in Nat /\ Thr!Power[n + 1] = 2 * Thr!Power[n]
  <1> DEFINE Is(f) == f = [n \in Nat |-> IF n = 0 THEN 1 ELSE 2 * f[n - 1]]
             last == [n \in Nat |-> (CHOOSE g : g \in PowersTo(n))[n]]
  <1>1. ASSUME NEW n \in Nat
        PROVE  /\ last[n] \in Nat
               /\ last[n] = IF n = 0 THEN 1 ELSE 2 * last[n - 1]
    <2>1. PICK g \in PowersTo(n) : last[n] = g[n]
      BY PowersExist
    <2>2. g[n] \in Nat
      BY <2>1 DEF PowersTo
    <2>3. CASE n = 0
      BY <2>1, <2>2, <2>3 DEF PowersTo
    <2>4. CASE n # 0
      <3>1. n - 1 \in Nat /\ n - 1 \in 0..n /\ n \in 1..n
        BY <2>4
      <3>2. PICK h \in PowersTo(n - 1) : last[n - 1] = h[n - 1]
        BY <3>1, PowersExist
      <3>3. g[n - 1] = h[n - 1]
        BY <3>1, <3>2, PowersAgree
      <3>4. g[n] = 2 * g[n - 1]
        BY <3>1 DEF PowersTo
      <3> QED BY <2>1, <2>2, <2>4, <3>2, <3>3, <3>4
    <2> QED BY <2>3, <2>4
  <1>2. last = [n \in Nat |-> last[n]]
    OBVIOUS
  <1> HIDE DEF last
  <1>3. last = [n \in Nat |-> IF n = 0 THEN 1 ELSE 2 * last[n - 1]]
    BY <1>1, <1>2
  <1>4. Thr!Power = CHOOSE f : Is(f)
    BY DEF Thr!Power
  <1>5. Is(Thr!Power)
    <2>1. Is(last)
      BY <1>3
    <2> HIDE DEF Is
    <2> QED BY <1>4, <2>1
  <1>6. \A n \in Nat : Thr!Power[n] = IF n = 0 THEN 1 ELSE 2 * Thr!Power[n - 1]
    BY <1>5
  <1>7. \A n \in Nat : Thr!Power[n + 1] = 2 * Thr!Power[n]
    BY <1>6
  <1>8. \A n \in Nat : Thr!Power[n] \in Nat
    <2> DEFINE Bad == {n \in Nat : Thr!Power[n] \notin Nat}
    <2>1. SUFFICES ASSUME Bad # {} PROVE FALSE
      OBVIOUS
    <2>2. PICK n \in Bad : \A k \in Bad : n <= k
      <3>1. Bad \in SUBSET Nat
        OBVIOUS
      <3> HIDE DEF Bad
      <3> QED BY <2>1, <3>1, LeastNumber
    <2>3. n # 0 => n - 1 \in Nat /\ Thr!Power[n - 1] \in Nat
      BY <2>2
    <2> QED BY <1>6, <2>2, <2>3
  <1> QED BY <1>7, <1>8

\* A finite set of numbers has a greatest one: otherwise so has the set
\* without any of its members, and one subset would be the smallest such.
LEMMA GreatestNumber ==
  ASSUME NEW S, IsFiniteSet(S), S \subseteq Nat, S # {}
  PROVE  \E x \in S : \A y \in S : y <= x
  <1> DEFINE Smaller == StrictSubsetOrdering(S)
             Bad == {U \in SUBSET S : U # {} /\ ~\E x \in U : \A y \in U : y <= x}
  <1>1. IsWellFoundedOn(Smaller, FiniteSubsetsOf(S))
    BY FS_StrictSubsetOrderingWellFounded
  <1>2. Bad \subseteq FiniteSubsetsOf(S)
    BY FS_Subset DEF FiniteSubsetsOf
  <1>3. SUFFICES ASSUME Bad # {} PROVE FALSE
    OBVIOUS
  <1>4. PICK U \in Bad : \A V \in Bad : ~(<<V, U>> \in Smaller)
    <2> HIDE DEF Smaller, Bad
    <2> QED BY <1>1, <1>2, <1>3, WFMin
  <1>5. PICK x \in U : TRUE
    OBVIOUS
  <1>6. U \ {x} \notin Bad
    BY <1>4, <1>5 DEF StrictSubsetOrdering
  <1>7. CASE U = {x}
    BY <1>7
  <1>8. CASE \E z \in U \ {x} : \A y \in U \ {x} : y <= z
    BY <1>8
  <1> QED BY <1>6, <1>7, <1>8

\* Throttle counts as Services does.
LEMMA SameCardinality == \A S : Thr!Cardinality(S) = Cardinality(S)
  BY DEF Thr!Cardinality, Cardinality

Delay(n) == Thr!ComputeDelay(n)

\* computeDelayMs: more failures are never delayed less.
LEMMA DelaysGrow ==
  ASSUME ServicesConstants, IsFiniteSet(Failure),
         NEW m \in 0..Cardinality(Failure), NEW n \in 0..Cardinality(Failure),
         m <= n
  PROVE  Delay(m) <= Delay(n)
  <1> DEFINE N == Cardinality(Failure)
             Grow(k) == \A i, j \in 0..k : i <= j => Thr!Power[i] <= Thr!Power[j]
             Good == {k \in 0..N : Grow(k)}
  <1>1. N \in Nat /\ FreeAttempts \in Nat /\ MaxDelay \in Nat
    BY FS_CardinalityType DEF ServicesConstants, Thr!DelaysAreNumbers
  <1>2. \A i \in 0..N : Thr!Power[i] \in Nat /\ Thr!Power[i + 1] = 2 * Thr!Power[i]
    BY <1>1, PowersDouble
  <1>3. N \in Good
    <2>1. 0 \in Good
      BY <1>1, <1>2
    <2>2. IsFiniteSet(Good)
      <3>1. IsFiniteSet(0..N) /\ Good \subseteq 0..N
        BY <1>1, FS_Interval
      <3> HIDE DEF Good
      <3> QED BY <3>1, FS_Subset
    <2>3. PICK g \in Good : \A k \in Good : k <= g
      <3> HIDE DEF Good
      <3>1. Good \subseteq Nat
        BY <1>1 DEF Good
      <3> QED BY <2>1, <2>2, <3>1, GreatestNumber
    <2>4. SUFFICES ASSUME g # N PROVE FALSE
      OBVIOUS
    <2>5. g \in 0..N /\ g + 1 \in 0..N
      BY <1>1, <2>4
    <2>6. Thr!Power[g] <= Thr!Power[g + 1]
      BY <1>2, <2>5
    <2>7. ASSUME NEW i \in 0..(g + 1), NEW j \in 0..(g + 1), i <= j
          PROVE  Thr!Power[i] <= Thr!Power[j]
      <3>1. i \in 0..g => Thr!Power[i] <= Thr!Power[g] /\ Thr!Power[i] \in Nat
        BY <1>1, <1>2, <2>3, <2>5
      <3>2. Thr!Power[g + 1] \in Nat /\ Thr!Power[g] \in Nat
        BY <1>2, <2>5
      <3>3. CASE j = g + 1 /\ i \in 0..g
        BY <2>6, <3>1, <3>2, <3>3
      <3>4. CASE j = g + 1 /\ i = g + 1
        BY <3>2, <3>4
      <3>5. CASE j \in 0..g /\ i \in 0..g
        BY <2>3, <2>7, <3>5
      <3> QED BY <2>5, <2>7, <3>3, <3>4, <3>5
    <2>8. g + 1 \in Good
      BY <2>5, <2>7
    <2> QED BY <2>3, <2>5, <2>8
  <1>4. CASE n <= FreeAttempts
    BY <1>1, <1>4 DEF Delay, Thr!ComputeDelay
  <1>5. CASE m <= FreeAttempts /\ n > FreeAttempts
    <2>1. n - FreeAttempts \in 0..N
      BY <1>1, <1>5
    <2>2. Thr!Power[n - FreeAttempts] \in Nat
      BY <1>2, <2>1
    <2> QED BY <1>1, <1>5, <2>2 DEF Delay, Thr!ComputeDelay
  <1>6. CASE m > FreeAttempts
    <2>1. /\ m - FreeAttempts \in 0..N /\ n - FreeAttempts \in 0..N
          /\ m - FreeAttempts <= n - FreeAttempts /\ n > FreeAttempts
      BY <1>1, <1>6
    <2>2. /\ Thr!Power[m - FreeAttempts] \in Nat
          /\ Thr!Power[n - FreeAttempts] \in Nat
          /\ Thr!Power[m - FreeAttempts] <= Thr!Power[n - FreeAttempts]
      BY <1>2, <1>3, <2>1
    <2> QED BY <1>1, <1>6, <2>1, <2>2 DEF Delay, Thr!ComputeDelay
  <1> QED BY <1>1, <1>4, <1>5, <1>6

\* A delay is a number of units.
LEMMA DelayType ==
  ASSUME ServicesConstants, IsFiniteSet(Failure),
         NEW n \in 0..Cardinality(Failure)
  PROVE  Delay(n) \in Nat
  <1>1. /\ Cardinality(Failure) \in Nat
        /\ FreeAttempts \in Nat /\ MaxDelay \in Nat
    BY FS_CardinalityType DEF ServicesConstants, Thr!DelaysAreNumbers
  <1>2. n > FreeAttempts => Thr!Power[n - FreeAttempts] \in Nat
    BY <1>1, PowersDouble
  <1> QED BY <1>1, <1>2 DEF Delay, Thr!ComputeDelay

\* The hypotheses of what follows.
ThrottleConstants ==
  /\ ServicesConstants
  /\ IsFiniteSet(Failure) /\ IsFiniteSet(Worker)

\* An account and a source are treated alike.
Kind == {"email", "ip"}
Keys(k) == IF k = "email" THEN Account ELSE Source
KeyOf(k, x) == IF k = "email" THEN x.email ELSE x.ip
RowsOf(k, v) == {a \in Failure : KeyOf(k, failure[a]) = v}

\* Of a key's failures, those that waited less than its n-th is meant to; and
\* the logins that may still become one of these.
EarlyOf(k, v, n) == {a \in RowsOf(k, v) : failure[a].waited < Delay(n)}
Hasty(k, v, n) ==
  {r \in Worker : /\ KeyOf(k, login[r]) = v
                  /\ k \notin login[r].counts /\ login[r].delay < Delay(n)}
Bounded(k, v, n) ==
  Cardinality(EarlyOf(k, v, n)) + Cardinality(Hasty(k, v, n))
    <= n - 1 + Cardinality(Worker)

\* The inductive invariant.
ThrottleInv ==
  /\ Thr!TypeOK
  /\ \A k \in Kind : \A v \in Keys(k), n \in 1..Cardinality(Failure) :
       Bounded(k, v, n)

\* Both sets are finite, and Hasty is made of requests.
LEMMA Counts ==
  ASSUME ThrottleConstants, NEW k, NEW v, NEW n
  PROVE  /\ IsFiniteSet(EarlyOf(k, v, n)) /\ IsFiniteSet(Hasty(k, v, n))
         /\ Cardinality(EarlyOf(k, v, n)) \in Nat
         /\ Cardinality(Hasty(k, v, n)) \in Nat
         /\ Cardinality(Hasty(k, v, n)) <= Cardinality(Worker)
         /\ Cardinality(Worker) \in Nat /\ Cardinality(Failure) \in Nat
  <1>1. EarlyOf(k, v, n) \subseteq Failure /\ Hasty(k, v, n) \subseteq Worker
    BY DEF EarlyOf, RowsOf, Hasty
  <1> QED BY <1>1, FS_Subset, FS_CardinalityType DEF ThrottleConstants

\* The bound stays when neither set gains a member.
LEMMA FewerStayBounded ==
  ASSUME ThrottleConstants, NEW k, NEW v, NEW n \in 1..Cardinality(Failure),
         Bounded(k, v, n),
         EarlyOf(k, v, n)' \subseteq EarlyOf(k, v, n),
         Hasty(k, v, n)' \subseteq Hasty(k, v, n)
  PROVE  Bounded(k, v, n)'
  <1> DEFINE early == EarlyOf(k, v, n)
             hasty == Hasty(k, v, n)
  <1>1. /\ IsFiniteSet(early) /\ IsFiniteSet(hasty)
        /\ Cardinality(early) \in Nat /\ Cardinality(hasty) \in Nat
        /\ Cardinality(Worker) \in Nat /\ n \in Nat
        /\ Cardinality(early) + Cardinality(hasty) <= n - 1 + Cardinality(Worker)
    BY Counts DEF Bounded
  <1>2. early' \subseteq early /\ hasty' \subseteq hasty
    OBVIOUS
  <1> HIDE DEF early, hasty
  <1>3. /\ Cardinality(early') <= Cardinality(early)
        /\ Cardinality(hasty') <= Cardinality(hasty)
        /\ Cardinality(early') \in Nat /\ Cardinality(hasty') \in Nat
    BY <1>1, <1>2, FS_Subset, FS_CardinalityType
  <1>4. Cardinality(early') + Cardinality(hasty') <= n - 1 + Cardinality(Worker)
    BY <1>1, <1>3
  <1> QED BY <1>4 DEF Bounded, early, hasty

\* ThrottleInv holds at first.
LEMMA ThrottleStarts == ASSUME ThrottleConstants, Thr!Init PROVE ThrottleInv
  <1>1. Thr!TypeOK
    BY DEF Thr!Init, Thr!TypeOK, Thr!NoRow, Thr!NoLogin, Thr!FailureRow, Thr!Login
  <1>2. ASSUME NEW k \in Kind, NEW v \in Keys(k),
               NEW n \in 1..Cardinality(Failure)
        PROVE  Bounded(k, v, n)
    <2>1. v # Absent
      BY DEF Kind, Keys, ThrottleConstants, ServicesConstants,
             Thr!NothingIsNothing
    <2>2. EarlyOf(k, v, n) = {} /\ Hasty(k, v, n) = {}
      BY <2>1 DEF EarlyOf, RowsOf, Hasty, KeyOf, Thr!Init, Thr!NoRow, Thr!NoLogin
    <2>3. Cardinality(Worker) \in Nat /\ n \in Nat /\ n >= 1
      BY Counts
    <2> QED BY <2>2, <2>3, FS_EmptySet DEF Bounded
  <1> QED BY <1>1, <1>2 DEF ThrottleInv

\* A step of one login, or of none, that makes no failure.
LEMMA NoFailureKeeps ==
  ASSUME ThrottleConstants, ThrottleInv, Thr!TypeOK', UNCHANGED failure,
         \A k \in Kind : \A v \in Keys(k), n \in 1..Cardinality(Failure) :
           Hasty(k, v, n)' \subseteq Hasty(k, v, n)
  PROVE  ThrottleInv'
  <1>1. ASSUME NEW k \in Kind, NEW v \in Keys(k),
               NEW n \in 1..Cardinality(Failure)
        PROVE  Bounded(k, v, n)'
    <2>1. EarlyOf(k, v, n)' = EarlyOf(k, v, n)
      BY DEF EarlyOf, RowsOf
    <2> QED BY <2>1, FewerStayBounded DEF ThrottleInv
  <1> QED BY <1>1 DEF ThrottleInv

LEMMA ArriveThrottled ==
  ASSUME ThrottleConstants, ThrottleInv, NEW r \in Worker, Thr!Arrive(r)
  PROVE  ThrottleInv'
  <1>1. PICK e \in Account, i \in Source :
          login' = [login EXCEPT ![r] = [email |-> e, ip |-> i, delay |-> 0,
                                         counts |-> {"email", "ip"}]]
    BY DEF Thr!Arrive
  <1>2. Thr!TypeOK'
    BY <1>1 DEF Thr!Arrive, ThrottleInv, Thr!TypeOK, Thr!Login
  <1>3. ASSUME NEW k \in Kind, NEW v, NEW n
        PROVE  Hasty(k, v, n)' \subseteq Hasty(k, v, n)
    BY <1>1 DEF Hasty, KeyOf, Kind, ThrottleInv, Thr!TypeOK
  <1> QED BY <1>2, <1>3, NoFailureKeeps DEF Thr!Arrive

\* A login that is over.
LEMMA FinishThrottled ==
  ASSUME ThrottleConstants, ThrottleInv, NEW r \in Worker, Thr!Finish(r)
  PROVE  /\ login' \in [Worker -> Thr!Login]
         /\ \A k \in Kind : \A v \in Keys(k) : \A n :
              Hasty(k, v, n)' = Hasty(k, v, n) \ {r}
  <1>1. login' \in [Worker -> Thr!Login]
    BY DEF Thr!Finish, ThrottleInv, Thr!TypeOK, Thr!Login, Thr!NoLogin
  <1>2. ASSUME NEW k \in Kind, NEW v \in Keys(k), NEW n
        PROVE  Hasty(k, v, n)' = Hasty(k, v, n) \ {r}
    <2>1. KeyOf(k, login'[r]) # v
      BY DEF Kind, Keys, KeyOf, ThrottleConstants, ServicesConstants,
             Thr!NothingIsNothing, Thr!Finish, Thr!NoLogin, ThrottleInv, Thr!TypeOK
    <2>2. \A q \in Worker \ {r} : login'[q] = login[q]
      BY DEF Thr!Finish, ThrottleInv, Thr!TypeOK
    <2> QED BY <2>1, <2>2 DEF Hasty
  <1> QED BY <1>1, <1>2

LEMMA LeaveThrottled ==
  ASSUME ThrottleConstants, ThrottleInv, NEW r \in Worker,
         Thr!Succeed(r) \/ Thr!Lose(r)
  PROVE  ThrottleInv'
  <1>1. Thr!Finish(r) /\ UNCHANGED failure
    BY DEF Thr!Succeed, Thr!Lose
  <1>2. Thr!TypeOK'
    BY <1>1, FinishThrottled DEF ThrottleInv, Thr!TypeOK
  <1> QED BY <1>1, <1>2, FinishThrottled, NoFailureKeeps

\* A failure that slides out of the window.
LEMMA ForgetThrottled ==
  ASSUME ThrottleConstants, ThrottleInv, NEW b \in Failure, Thr!Forget(b)
  PROVE  ThrottleInv'
  <1>1. Thr!TypeOK'
    BY DEF Thr!Forget, ThrottleInv, Thr!TypeOK, Thr!NoRow, Thr!FailureRow
  <1>2. ASSUME NEW k \in Kind, NEW v \in Keys(k),
               NEW n \in 1..Cardinality(Failure)
        PROVE  Bounded(k, v, n)'
    <2>1. KeyOf(k, failure'[b]) # v
      BY DEF Kind, Keys, KeyOf, ThrottleConstants, ServicesConstants,
             Thr!NothingIsNothing, Thr!Forget, Thr!NoRow, ThrottleInv, Thr!TypeOK
    <2>2. \A a \in Failure \ {b} : failure'[a] = failure[a]
      BY DEF Thr!Forget, ThrottleInv, Thr!TypeOK
    <2>3. EarlyOf(k, v, n)' \subseteq EarlyOf(k, v, n)
      BY <2>1, <2>2 DEF EarlyOf, RowsOf
    <2>4. Hasty(k, v, n)' = Hasty(k, v, n)
      BY DEF Hasty, Thr!Forget
    <2> QED BY <2>3, <2>4, FewerStayBounded DEF ThrottleInv
  <1> QED BY <1>1, <1>2 DEF ThrottleInv

\* A failure takes the place of the login that made it.
LEMMA FailThrottled ==
  ASSUME ThrottleConstants, ThrottleInv, NEW r \in Worker, Thr!Fail(r)
  PROVE  ThrottleInv'
  <1>1. PICK b \in Failure :
          /\ failure[b] = Thr!NoRow
          /\ failure' = [failure EXCEPT ![b] =
               [email |-> login[r].email, ip |-> login[r].ip,
                waited |-> login[r].delay]]
    BY DEF Thr!Fail
  <1>2. Thr!Finish(r) /\ login[r] \in Thr!Login /\ login[r].counts = {}
    BY DEF Thr!Fail, Thr!Sleeps, ThrottleInv, Thr!TypeOK
  <1>3. Thr!TypeOK'
    BY <1>1, <1>2, FinishThrottled
    DEF ThrottleInv, Thr!TypeOK, Thr!Login, Thr!FailureRow
  <1>4. ASSUME NEW k \in Kind, NEW v \in Keys(k),
               NEW n \in 1..Cardinality(Failure)
        PROVE  Bounded(k, v, n)'
    <2> DEFINE early == EarlyOf(k, v, n)
               hasty == Hasty(k, v, n)
    <2>1. b \notin early
      BY <1>1 DEF EarlyOf, RowsOf, Kind, Keys, KeyOf, ThrottleConstants,
                  ServicesConstants, Thr!NothingIsNothing, Thr!NoRow
    <2>2. hasty' = hasty \ {r}
      BY <1>2, FinishThrottled
    <2>3. /\ \A a \in Failure \ {b} : failure'[a] = failure[a]
          /\ KeyOf(k, failure'[b]) = KeyOf(k, login[r])
          /\ failure'[b].waited = login[r].delay
      BY <1>1 DEF ThrottleInv, Thr!TypeOK, KeyOf
    <2>4. CASE KeyOf(k, login[r]) = v /\ login[r].delay < Delay(n)
      <3>1. r \in hasty
        BY <1>2, <2>4 DEF Hasty
      <3>2. early' = early \cup {b}
        BY <2>3, <2>4 DEF EarlyOf, RowsOf
      <3>3. /\ IsFiniteSet(early) /\ IsFiniteSet(hasty)
            /\ Cardinality(early) \in Nat /\ Cardinality(hasty) \in Nat
            /\ Cardinality(early) + Cardinality(hasty)
                 <= n - 1 + Cardinality(Worker)
        BY Counts DEF ThrottleInv, Bounded
      <3> HIDE DEF early, hasty
      <3>4. /\ Cardinality(early') = Cardinality(early) + 1
            /\ Cardinality(hasty') = Cardinality(hasty) - 1
        BY <2>1, <2>2, <3>1, <3>2, <3>3, FS_AddElement, FS_RemoveElement
      <3>5. Cardinality(early') + Cardinality(hasty')
              = Cardinality(early) + Cardinality(hasty)
        BY <3>3, <3>4
      <3> QED BY <3>3, <3>5 DEF Bounded, early, hasty
    <2>5. CASE ~(KeyOf(k, login[r]) = v /\ login[r].delay < Delay(n))
      <3>1. early' \subseteq early
        BY <2>3, <2>5 DEF EarlyOf, RowsOf
      <3> QED BY <2>2, <3>1, FewerStayBounded DEF ThrottleInv
    <2> QED BY <2>4, <2>5
  <1> QED BY <1>3, <1>4 DEF ThrottleInv

\* A count that is answered delays its login by what its key's failures ask
\* for, so that a login it leaves hasty finds less than n of them.
LEMMA CountedThrottled ==
  ASSUME ThrottleConstants, ThrottleInv, NEW r \in Worker, NEW which \in Kind,
         Thr!Counted(r, which, RowsOf(which, KeyOf(which, login[r])))
  PROVE  ThrottleInv'
  <1> DEFINE rows == RowsOf(which, KeyOf(which, login[r]))
             m == Cardinality(rows)
             later == IF Delay(m) > login[r].delay THEN Delay(m)
                      ELSE login[r].delay
  <1>1. /\ IsFiniteSet(rows) /\ m \in 0..Cardinality(Failure)
        /\ Cardinality(Failure) \in Nat
    <2>1. rows \subseteq Failure
      BY DEF RowsOf
    <2> QED BY <2>1, FS_Subset, FS_CardinalityType DEF ThrottleConstants
  <1>2. Delay(m) \in Nat
    BY <1>1, DelayType DEF ThrottleConstants
  <1>3. /\ login' = [login EXCEPT ![r].counts = login[r].counts \ {which},
                                  ![r].delay = later]
        /\ UNCHANGED failure /\ which \in login[r].counts
    BY SameCardinality DEF Thr!Counted, Delay
  <1>4. login[r] \in Thr!Login /\ login \in [Worker -> Thr!Login]
    BY DEF ThrottleInv, Thr!TypeOK
  <1>5. later \in Nat /\ login[r].delay <= later /\ Delay(m) <= later
    BY <1>2, <1>4 DEF Thr!Login
  <1> HIDE DEF later, m, rows
  <1>6. /\ login'[r].email = login[r].email /\ login'[r].ip = login[r].ip
        /\ login'[r].counts = login[r].counts \ {which}
        /\ login'[r].delay = later
        /\ \A q \in Worker \ {r} : login'[q] = login[q]
        /\ login' \in [Worker -> Thr!Login]
    BY <1>3, <1>4, <1>5 DEF Thr!Login
  <1>7. Thr!TypeOK'
    BY <1>3, <1>6 DEF ThrottleInv, Thr!TypeOK
  <1>8. ASSUME NEW k \in Kind, NEW v \in Keys(k),
               NEW n \in 1..Cardinality(Failure)
        PROVE  Bounded(k, v, n)'
    <2>1. n \in 0..Cardinality(Failure) /\ n \in Nat /\ n >= 1
      BY <1>1
    <2>2. Delay(n) \in Nat
      BY <2>1, DelayType DEF ThrottleConstants
    <2>3. EarlyOf(k, v, n)' = EarlyOf(k, v, n)
      BY <1>3 DEF EarlyOf, RowsOf
    <2>4. CASE k = which /\ KeyOf(k, login[r]) = v /\ later < Delay(n)
      <3>1. m < n
        <4>1. ~(Delay(n) <= Delay(m))
          BY <1>2, <1>5, <2>2, <2>4
        <4> QED BY <1>1, <2>1, <4>1, DelaysGrow DEF ThrottleConstants
      <3>2. EarlyOf(k, v, n) \subseteq rows
        BY <2>4 DEF EarlyOf, rows
      <3>3. Cardinality(EarlyOf(k, v, n)) <= m
        BY <1>1, <3>2, FS_Subset DEF m
      <3>4. /\ Cardinality(EarlyOf(k, v, n)) \in Nat
            /\ Cardinality(Worker) \in Nat
        BY Counts
      <3>5. IsFiniteSet(Worker) /\ Hasty(k, v, n)' \subseteq Worker
        BY DEF Hasty, ThrottleConstants
      <3>6. /\ Cardinality(Hasty(k, v, n)') <= Cardinality(Worker)
            /\ Cardinality(Hasty(k, v, n)') \in Nat
        BY <3>5, FS_Subset, FS_CardinalityType
      <3>7. Cardinality(EarlyOf(k, v, n)) + Cardinality(Hasty(k, v, n)')
              <= n - 1 + Cardinality(Worker)
        BY <1>1, <2>1, <3>1, <3>3, <3>4, <3>6
      <3> QED BY <2>3, <3>7 DEF Bounded
    <2>5. CASE ~(k = which /\ KeyOf(k, login[r]) = v /\ later < Delay(n))
      <3>1. r \in Hasty(k, v, n)' => r \in Hasty(k, v, n)
        BY <1>4, <1>5, <1>6, <2>2, <2>5 DEF Hasty, KeyOf, Thr!Login
      <3>2. Hasty(k, v, n)' \subseteq Hasty(k, v, n)
        BY <1>6, <3>1 DEF Hasty
      <3> QED BY <2>3, <3>2, FewerStayBounded DEF ThrottleInv
    <2> QED BY <2>4, <2>5
  <1> QED BY <1>7, <1>8 DEF ThrottleInv

\* ThrottleInv is inductive.
LEMMA ThrottleInvariant ==
  ASSUME ThrottleConstants PROVE Thr!Spec => []ThrottleInv
  <1>1. ThrottleInv /\ [Thr!Next]_Thr!vars => ThrottleInv'
    <2> SUFFICES ASSUME ThrottleInv, [Thr!Next]_Thr!vars PROVE ThrottleInv'
      OBVIOUS
    <2>1. CASE UNCHANGED Thr!vars
      BY <2>1 DEF Thr!vars, ThrottleInv, Thr!TypeOK, Bounded, EarlyOf, RowsOf,
                  Hasty
    <2>2. ASSUME NEW r \in Worker, Thr!CountEmail(r) PROVE ThrottleInv'
      <3>1. Thr!ByEmail(login[r].email) = RowsOf("email", KeyOf("email", login[r]))
        BY DEF Thr!ByEmail, RowsOf, KeyOf
      <3> QED BY <2>2, <3>1, CountedThrottled DEF Thr!CountEmail, Kind
    <2>3. ASSUME NEW r \in Worker, Thr!CountIp(r) PROVE ThrottleInv'
      <3>1. Thr!ByIp(login[r].ip) = RowsOf("ip", KeyOf("ip", login[r]))
        BY DEF Thr!ByIp, RowsOf, KeyOf
      <3> QED BY <2>3, <3>1, CountedThrottled DEF Thr!CountIp, Kind
    <2> QED BY <2>1, <2>2, <2>3, ArriveThrottled, FailThrottled,
            LeaveThrottled, ForgetThrottled DEF Thr!Next
  <1> QED BY ThrottleStarts, <1>1, PTL DEF Thr!Spec

\* In focus, Throttle takes its own steps only.
LEMMA ThrottleRun ==
  ServicesSpec /\ Focused("throttle") => Thr!Spec
  <1>1. ServicesInit /\ Focused("throttle") => Thr!Init
    BY DEF ServicesInit, Focused
  <1>2. Focused("throttle") /\ [ServicesNext]_servicesVars
          => [Thr!Next]_Thr!vars
    BY DEF ServicesNext, servicesVars, thrVars, Focused, Thr!vars
  <1>3. [ServicesNext]_servicesVars
          => (Focused("throttle")' <=> Focused("throttle"))
    BY FocusStays
  <1> QED BY <1>1, <1>2, <1>3, PTL DEF ServicesSpec, Thr!Spec

\* "progressive-delay throttling by account AND by source" (throttle.service.ts
\* 9-10), not to be bypassed by trying in parallel: of the failures of one key
\* at most n - 1, and one per login served at the same time, have waited less
\* than the n-th is meant to, for any accounts, sources, logins and delays.
THEOREM BackoffIsKept ==
  ASSUME ServicesConstants, IsFiniteSet(Failure), IsFiniteSet(Worker)
  PROVE  ServicesSpec => []BackoffHolds
  <1>1. ThrottleConstants
    BY DEF ThrottleConstants
  <1>2. ThrottleInv => Thr!BackoffHolds
    <2> SUFFICES ASSUME ThrottleInv, NEW n \in 1..Cardinality(Failure),
                        NEW rows \in {Thr!ByEmail(e) : e \in Account}
                                       \cup {Thr!ByIp(i) : i \in Source}
                 PROVE  Cardinality({a \in rows : failure[a].waited < Delay(n)})
                          <= n - 1 + Cardinality(Worker)
      BY SameCardinality DEF Thr!BackoffHolds, Delay
    <2>1. PICK k \in Kind : \E v \in Keys(k) : rows = RowsOf(k, v)
      <3>1. \A v : /\ Thr!ByEmail(v) = RowsOf("email", v)
                   /\ Thr!ByIp(v) = RowsOf("ip", v)
        BY DEF Thr!ByEmail, Thr!ByIp, RowsOf, KeyOf
      <3> QED BY <3>1 DEF Kind, Keys
    <2>2. PICK v \in Keys(k) : rows = RowsOf(k, v)
      BY <2>1
    <2>3. {a \in rows : failure[a].waited < Delay(n)} = EarlyOf(k, v, n)
      BY <2>2 DEF EarlyOf
    <2>4. /\ Cardinality(EarlyOf(k, v, n)) + Cardinality(Hasty(k, v, n))
               <= n - 1 + Cardinality(Worker)
          /\ n \in Nat
      BY DEF ThrottleInv, Bounded
    <2>5. /\ Cardinality(EarlyOf(k, v, n)) \in Nat
          /\ Cardinality(Hasty(k, v, n)) \in Nat /\ Cardinality(Worker) \in Nat
      BY <1>1, Counts
    <2>6. Cardinality(EarlyOf(k, v, n)) <= n - 1 + Cardinality(Worker)
      <3> HIDE DEF EarlyOf, Hasty
      <3> QED BY <2>4, <2>5
    <2> QED BY <2>3, <2>6
  <1>3. Thr!BackoffHolds \/ ~Focused("throttle") => BackoffHolds
    BY DEF BackoffHolds, Focused
  <1>4. [ServicesNext]_servicesVars
          => (Focused("throttle")' <=> Focused("throttle"))
    BY FocusStays
  <1> QED BY <1>1, ThrottleRun, ThrottleInvariant, <1>2, <1>3, <1>4, PTL
          DEF ServicesSpec

---------------------------------------------------------------------------
(* Types *)

\* The types of every part; with them, that names and open tokens are unique,
\* and that what a token or a cookie stands for is there (the TypeOK of each).
THEOREM TypesCorrect ==
  ASSUME ServicesConstants, IsFiniteSet(Failure), IsFiniteSet(Worker)
  PROVE  ServicesSpec => []PartsTyped
  <1>1. OP!Spec => []OP!TypeOK
    BY OP!TypeCorrect
    DEF ServicesConstants, OP!Constants, O!NothingIsNothing,
        OP!NothingIsNothing, O!DemoIsCommercial, OP!DemoIsCommercial
  <1>2. IP!Spec => []IP!TypeOK
    BY IP!TypeCorrect
    DEF ServicesConstants, I!NothingIsNothing, IP!NothingIsNothing
  <1>3. SesP!Spec => []SesP!TypeOK
    BY SesP!TypeCorrect
    DEF ServicesConstants, Ses!NothingIsNothing, SesP!NothingIsNothing
  <1>4. Thr!Spec => []ThrottleInv
    BY ThrottleInvariant DEF ThrottleConstants
  <1>5. /\ ContextInv => Ctx!TypeOK
        /\ StructureInv => Str!TypeOK
        /\ ThrottleInv => Thr!TypeOK
        /\ ClientInv => Web!TypeOK
    BY DEF ContextInv, StructureInv, ThrottleInv, ClientInv
  <1>6. /\ Ctx!TypeOK \/ ~Focused("context")
        /\ OP!TypeOK \/ ~Focused("organizations")
        /\ IP!TypeOK \/ ~Focused("invitations")
        /\ Str!TypeOK \/ ~Focused("structure")
        /\ SesP!TypeOK \/ ~Focused("sessions")
        /\ Thr!TypeOK \/ ~Focused("throttle")
        /\ Web!TypeOK \/ ~Focused("client")
      => PartsTyped
    BY SameOrganizations, SameInvitations, SameSessions, Zenon
    DEF PartsTyped, Focused
  <1>7. [ServicesNext]_servicesVars =>
          /\ Focused("context")' <=> Focused("context")
          /\ Focused("organizations")' <=> Focused("organizations")
          /\ Focused("invitations")' <=> Focused("invitations")
          /\ Focused("structure")' <=> Focused("structure")
          /\ Focused("sessions")' <=> Focused("sessions")
          /\ Focused("throttle")' <=> Focused("throttle")
          /\ Focused("client")' <=> Focused("client")
    BY FocusStays
  <1> QED BY <1>1, <1>2, <1>3, <1>4, <1>5, <1>6, <1>7, ContextRun,
          OrganizationsRun, InvitationsRun, StructureRun, SessionsRun,
          ThrottleRun, ClientRun, ContextInvariant, StructureInvariant,
          ClientInvariant, PTL DEF ServicesSpec
=============================================================================
