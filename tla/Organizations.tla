---------------------------- MODULE Organizations ----------------------------
(***************************************************************************)
(* How Organizations come to be and how Platform Administrators run their  *)
(* life cycle: OrganizationsService (apps/api/src/platform-admin),         *)
(* RegistrationService (apps/api/src/identity), and the acceptance of the  *)
(* initial-owner invitation (apps/api/src/access-control).                 *)
(*                                                                         *)
(* create is two transactions, a suspension is one transaction and then    *)
(* the revocation of sessions: a process may stop in between, and every    *)
(* statement may fail.  A statement at READ COMMITTED sees what is         *)
(* committed; the last writes of a transaction are one step with COMMIT.   *)
(***************************************************************************)
EXTENDS Naturals, FiniteSets

CONSTANTS
  Org, Name,
  Email,             \* normalized e-mail addresses
  Request,           \* requests the API serves concurrently
  CommercialStatus,
  Nothing

\* Of the constants.
NothingIsNothing == Nothing \notin Org \cup Name \cup Email
DemoIsCommercial == "DEMO" \in CommercialStatus

VARIABLES
  org,         \* organizations
  invitation,  \* the INITIAL_OWNER invitation of each Organization
  identity,    \* identities, and what they belong to outside Org
  member,      \* the state of each one's membership of each Organization
  owner,       \* whose membership of an Organization is the owner's
  session,     \* does an identity have an open session?
  lost,        \* Organizations whose owner was never invited, as create ended
               \* between its transactions: it only serves properties
  locks, pc, job

rows == <<org, invitation, identity, member, owner, session>>
vars == <<org, invitation, identity, member, owner, session, lost, locks, pc, job>>

Access == {"NONE", "PROVISIONING", "ACTIVE", "SUSPENDED", "DISABLED"}
OrgRow == [access : Access, commercial : CommercialStatus,
           name : Name \cup {Nothing}]
InvitationRow == [status : {"NONE", "PENDING", "ACCEPTED"}, expired : BOOLEAN,
                  email : Email \cup {Nothing}]
\* "HOME": a member of an Organization that is not in Org.  "BARE": not so, as
\* a Platform Administrator is, whom a script creates.
Identity == {"NONE", "BARE", "HOME"}
\* "INACTIVE": SUSPENDED or REMOVED.
MemberState == {"NONE", "ACTIVE", "INACTIVE"}
\* Since it was opened its Organization was suspended or disabled, or its
\* membership was: a session is "STALE" while that is still to end it, and
\* "LEFT" once the revocation was given up.
SessionState == {"NONE", "OPEN", "STALE", "LEFT"}
Operation == {"none", "create", "register", "transition", "commercial", "accept",
              "acceptExisting", "member"}
Label == {"idle", "check", "insert", "invite", "lock", "read", "commit", "list",
          "revoke", "identity", "session"}
Job ==
  [op : Operation, org : Org \cup {Nothing}, name : Name \cup {Nothing},
   email : Email \cup {Nothing}, from : SUBSET Access, to : Access,
   commercial : CommercialStatus, before : Access, revoke : SUBSET Email]

NoJob == [op |-> "none", org |-> Nothing, name |-> Nothing, email |-> Nothing,
          from |-> {}, to |-> "NONE", commercial |-> "DEMO", before |-> "NONE",
          revoke |-> {}]

Created == {o \in Org : org[o].access # "NONE"}
NameTaken(n) == \E o \in Created : org[o].name = n
Active(o) == {e \in Email : member[o][e] = "ACTIVE"}
Identified(e) == identity[e] # "NONE"
Elsewhere(o, e) ==
  identity[e] = "HOME" \/ \E p \in Org \ {o} : member[p][e] # "NONE"
Free(r, row) == \A q \in Request \ {r} : row \notin locks[q]
At(r, op, label) == job[r].op = op /\ pc[r] = label

Init ==
  /\ org = [o \in Org |-> [access |-> "NONE", commercial |-> "DEMO",
                           name |-> Nothing]]
  /\ invitation = [o \in Org |-> [status |-> "NONE", expired |-> FALSE,
                                  email |-> Nothing]]
  /\ identity \in [Email -> {"NONE", "BARE"}]
  /\ member = [o \in Org |-> [e \in Email |-> "NONE"]]
  /\ owner = [o \in Org |-> Nothing]
  /\ session = [e \in Email |-> "NONE"]
  /\ lost = {}
  /\ locks = [r \in Request |-> {}]
  /\ pc = [r \in Request |-> "idle"]
  /\ job = [r \in Request |-> NoJob]

---------------------------------------------------------------------------
Admit(r, j, label) ==
  /\ pc[r] = "idle"
  /\ pc' = [pc EXCEPT ![r] = label]
  /\ job' = [job EXCEPT ![r] = j]
  /\ UNCHANGED <<rows, locks>>

Goto(r, label) == pc' = [pc EXCEPT ![r] = label]
Proceed(r, label) == Goto(r, label) /\ UNCHANGED <<rows, locks, job>>

Answer(r) ==
  /\ locks' = [locks EXCEPT ![r] = {}]
  /\ pc' = [pc EXCEPT ![r] = "idle"]
  /\ job' = [job EXCEPT ![r] = NoJob]
Refuse(r) == Answer(r) /\ UNCHANGED rows

\* Both create and register look for the name first, and insert under a
\* unique index.
NameCheck(r, op) ==
  /\ At(r, op, "check")
  /\ \/ NameTaken(job[r].name) /\ Refuse(r)
     \/ ~NameTaken(job[r].name) /\ Proceed(r, "insert")

\* The address has an identity from now on.
Identify(e) ==
  identity' = [identity EXCEPT ![e] = IF @ = "NONE" THEN "BARE" ELSE @]

NewOrg(o, n, access) ==
  org' = [org EXCEPT ![o] = [access |-> access, commercial |-> "DEMO",
                             name |-> n]]

---------------------------------------------------------------------------
(* OrganizationsService.create *)

RequestCreate(r) ==
  \E n \in Name, e \in Email :
    Admit(r, [NoJob EXCEPT !.op = "create", !.name = n, !.email = e], "check")

CreateCheck(r) == NameCheck(r, "create")

\* Mutant: no look at the unique name.
CreateInsertAnyway(r) ==
  /\ At(r, "create", "insert")
  /\ \E o \in Org \ Created :
       /\ NewOrg(o, job[r].name, "PROVISIONING")
       /\ job' = [job EXCEPT ![r].org = o]
  /\ Goto(r, "invite")
  /\ UNCHANGED <<invitation, identity, member, owner, session, locks>>

CreateInsert(r) ==
  /\ At(r, "create", "insert")
  /\ \/ NameTaken(job[r].name) /\ Refuse(r)
     \/ /\ ~NameTaken(job[r].name)
        /\ \E o \in Org \ Created :
             /\ NewOrg(o, job[r].name, "PROVISIONING")
             /\ job' = [job EXCEPT ![r].org = o]
        /\ Goto(r, "invite")
        /\ UNCHANGED <<invitation, identity, member, owner, session, locks>>

\* createInitialOwnerInvitation, the second transaction.
CreateInvite(r) ==
  /\ At(r, "create", "invite")
  /\ invitation' = [invitation EXCEPT ![job[r].org] =
       [status |-> "PENDING", expired |-> FALSE, email |-> job[r].email]]
  /\ Answer(r)
  /\ UNCHANGED <<org, identity, member, owner, session>>

---------------------------------------------------------------------------
(* RegistrationService.register *)

RequestRegister(r) ==
  \E n \in Name, e \in Email :
    Admit(r, [NoJob EXCEPT !.op = "register", !.name = n, !.email = e],
          "identity")

RegisterIdentity(r) ==
  /\ At(r, "register", "identity")
  /\ \/ Identified(job[r].email) /\ Refuse(r)
     \/ ~Identified(job[r].email) /\ Proceed(r, "check")

RegisterCheck(r) == NameCheck(r, "register")

\* Mutant: the owner's membership is left out.
RegisterWithoutOwner(r) ==
  LET e == job[r].email
      taken == NameTaken(job[r].name) \/ Identified(e) IN
  /\ At(r, "register", "insert")
  /\ \/ taken /\ Refuse(r)
     \/ /\ ~taken
        /\ \E o \in Org \ Created :
             /\ NewOrg(o, job[r].name, "ACTIVE")
             /\ Identify(e)
        /\ Goto(r, "session")
        /\ UNCHANGED <<member, owner, invitation, session, locks, job>>

\* Identity, Organization and membership in one transaction; the unique
\* indexes decide between registrations and acceptances that race.
RegisterInsert(r) ==
  LET e == job[r].email
      taken == NameTaken(job[r].name) \/ Identified(e) IN
  /\ At(r, "register", "insert")
  /\ \/ taken /\ Refuse(r)
     \/ /\ ~taken
        /\ \E o \in Org \ Created :
             /\ NewOrg(o, job[r].name, "ACTIVE")
             /\ Identify(e)
             /\ member' = [member EXCEPT ![o][e] = "ACTIVE"]
             /\ owner' = [owner EXCEPT ![o] = e]
        /\ Goto(r, "session")
        /\ UNCHANGED <<invitation, session, locks, job>>

\* A further session does not end one that is still to be revoked.
OpenSession(e) ==
  session' = [session EXCEPT ![e] = IF @ = "NONE" THEN "OPEN" ELSE @]

RegisterSession(r) ==
  /\ At(r, "register", "session")
  /\ OpenSession(job[r].email)
  /\ Answer(r)
  /\ UNCHANGED <<org, invitation, identity, member, owner>>

---------------------------------------------------------------------------
(* transitionAccessStatus: suspend, reactivate, disable.                   *)

RequestTransition(r) ==
  \E o \in Org :
    \E t \in {[from |-> {"ACTIVE"}, to |-> "SUSPENDED"],
              [from |-> {"SUSPENDED"}, to |-> "ACTIVE"],
              [from |-> {"ACTIVE", "SUSPENDED"}, to |-> "DISABLED"]} :
      Admit(r, [NoJob EXCEPT !.op = "transition", !.org = o,
                             !.from = t.from, !.to = t.to], "lock")

\* Mutant: the row is read without FOR UPDATE.
TransitionReadUnlocked(r) ==
  LET o == job[r].org IN
  /\ At(r, "transition", "lock")
  /\ \/ org[o].access \notin job[r].from /\ Refuse(r)
     \/ /\ org[o].access \in job[r].from
        /\ job' = [job EXCEPT ![r].before = org[o].access]
        /\ Goto(r, "commit")
        /\ UNCHANGED <<rows, locks>>

TransitionLock(r) ==
  LET o == job[r].org IN
  /\ At(r, "transition", "lock")
  /\ Free(r, o)
  /\ \/ org[o].access \notin job[r].from /\ Refuse(r)
     \/ /\ org[o].access \in job[r].from
        /\ job' = [job EXCEPT ![r].before = org[o].access]
        /\ locks' = [locks EXCEPT ![r] = {o}]
        /\ Goto(r, "commit")
        /\ UNCHANGED rows

TransitionCommit(r) ==
  LET o == job[r].org
      ends == job[r].to \in {"SUSPENDED", "DISABLED"} IN
  /\ At(r, "transition", "commit")
  /\ org' = [org EXCEPT ![o].access = job[r].to]
  /\ session' = [e \in Email |->
       IF ends /\ e \in Active(o) /\ session[e] # "NONE" THEN "STALE"
       ELSE session[e]]
  /\ \/ ~ends /\ Answer(r)
     \/ /\ ends /\ Goto(r, "list")
        /\ locks' = [locks EXCEPT ![r] = {}] /\ UNCHANGED job
  /\ UNCHANGED <<invitation, identity, member, owner>>

\* Mutant: only the owner's sessions are revoked.
ListOwner(r) ==
  /\ At(r, "transition", "list")
  /\ job' = [job EXCEPT ![r].revoke = {owner[job[r].org]}]
  /\ Goto(r, "revoke")
  /\ UNCHANGED <<rows, locks>>

\* The memberships that are ACTIVE by now.
ListMembers(r) ==
  /\ At(r, "transition", "list")
  /\ job' = [job EXCEPT ![r].revoke = Active(job[r].org)]
  /\ Goto(r, "revoke")
  /\ UNCHANGED <<rows, locks>>

\* The request ends before it has the list.
ListFails(r) ==
  /\ At(r, "transition", "list")
  /\ session' = [e \in Email |->
       IF session[e] = "STALE" /\ e \in Active(job[r].org) THEN "LEFT"
       ELSE session[e]]
  /\ Answer(r)
  /\ UNCHANGED <<org, invitation, identity, member, owner>>

\* Promise.all: in any order, and each whether or not another one fails.
Revoking(r, e) ==
  /\ pc[r] = "revoke" /\ e \in job[r].revoke
  /\ job' = [job EXCEPT ![r].revoke = @ \ {e}]
  /\ UNCHANGED <<org, invitation, identity, member, owner, locks, pc>>

RevokeOne(r) ==
  \E e \in Email :
    Revoking(r, e) /\ session' = [session EXCEPT ![e] = "NONE"]

RevokeFails(r) ==
  \E e \in Email :
    /\ Revoking(r, e)
    /\ session' = [session EXCEPT ![e] = IF @ = "STALE" THEN "LEFT" ELSE @]

RevokedAll(r) == pc[r] = "revoke" /\ job[r].revoke = {} /\ Refuse(r)

---------------------------------------------------------------------------
(* updateCommercialStatus *)

RequestCommercial(r) ==
  \E o \in Org, c \in CommercialStatus :
    Admit(r, [NoJob EXCEPT !.op = "commercial", !.org = o, !.commercial = c],
          "lock")

CommercialLock(r) ==
  /\ At(r, "commercial", "lock")
  /\ Free(r, job[r].org)
  /\ \/ job[r].org \notin Created /\ Refuse(r)
     \/ /\ job[r].org \in Created /\ Goto(r, "commit")
        /\ locks' = [locks EXCEPT ![r] = {job[r].org}]
        /\ UNCHANGED <<rows, job>>

CommercialCommit(r) ==
  /\ At(r, "commercial", "commit")
  /\ org' = [org EXCEPT ![job[r].org].commercial = job[r].commercial]
  /\ Answer(r)
  /\ UNCHANGED <<invitation, identity, member, owner, session>>

---------------------------------------------------------------------------
(* acceptCore, for an initial-owner invitation.                            *)

Invited == {o \in Org : invitation[o].status # "NONE"}

\* The invited address: as a new identity, or with a session of its own.
RequestAccept(r) ==
  \E o \in Invited, op \in {"accept", "acceptExisting"} :
    /\ op = "acceptExisting" => session[invitation[o].email] # "NONE"
    /\ Admit(r, [NoJob EXCEPT !.op = op, !.org = o,
                              !.email = invitation[o].email], "lock")

Accepting(r, label) == At(r, "accept", label) \/ At(r, "acceptExisting", label)

\* The lock on the invitation; it keeps other acceptances out.
AcceptLock(r) ==
  LET i == invitation[job[r].org] IN
  /\ Accepting(r, "lock")
  /\ \A q \in Request :
       job[q].org = job[r].org => ~Accepting(q, "read") /\ ~Accepting(q, "commit")
  /\ \/ (i.status # "PENDING" \/ i.expired) /\ Refuse(r)
     \/ i.status = "PENDING" /\ ~i.expired /\ Proceed(r, "read")

\* A known identity must log in first.  The memberships of one that has done so
\* are read without a lock: whichever the query returns first may be of another
\* Organization, and then it cannot accept.
AcceptRead(r) ==
  LET o == job[r].org
      e == job[r].email
      new == job[r].op = "accept" IN
  /\ Accepting(r, "read")
  /\ \/ (IF new THEN Identified(e) ELSE Elsewhere(o, e)) /\ Refuse(r)
     \/ /\ IF new THEN ~Identified(e)
           ELSE Elsewhere(o, e) => member[o][e] # "NONE"
        /\ Proceed(r, "commit")

\* The unique e-mail of identities decides between those who create one at the
\* same time.  Only a membership that is created is made the owner's.  The
\* Organization's row is read without a lock and updated: the UPDATE waits for
\* its lock.  InvitationsController.accept goes on to open a session for the
\* new identity, acceptExisting answers.
AcceptCommit(r) ==
  LET o == job[r].org
      e == job[r].email
      new == job[r].op = "accept" IN
  /\ Accepting(r, "commit")
  /\ \/ new /\ Identified(e) /\ Refuse(r)
     \/ /\ new => ~Identified(e)
        /\ Free(r, o)
        /\ Identify(e)
        /\ member' = [member EXCEPT ![o][e] = "ACTIVE"]
        /\ owner' = [owner EXCEPT ![o] = IF member[o][e] = "NONE" THEN e ELSE @]
        /\ invitation' = [invitation EXCEPT ![o].status = "ACCEPTED"]
        /\ org' = IF org[o].access = "PROVISIONING"
                  THEN [org EXCEPT ![o].access = "ACTIVE"] ELSE org
        /\ \/ new /\ Goto(r, "session") /\ UNCHANGED <<locks, job>>
           \/ ~new /\ Answer(r)
        /\ UNCHANGED session

AcceptSession(r) ==
  /\ At(r, "accept", "session")
  /\ OpenSession(job[r].email)
  /\ Answer(r)
  /\ UNCHANGED <<org, invitation, identity, member, owner>>

---------------------------------------------------------------------------
(* What happens meanwhile. *)

\* Module Membership: a member other than the owner is suspended or removed,
\* and its sessions are revoked afterwards.
SuspendMember(r) ==
  /\ pc[r] = "idle"
  /\ \E o \in Org : \E e \in Active(o) \ {owner[o]} :
       /\ member' = [member EXCEPT ![o][e] = "INACTIVE"]
       /\ session' = [session EXCEPT ![e] = IF @ = "NONE" THEN @ ELSE "STALE"]
       /\ job' = [job EXCEPT ![r] = [NoJob EXCEPT !.op = "member", !.revoke = {e}]]
  /\ Goto(r, "revoke")
  /\ UNCHANGED <<org, invitation, identity, owner, locks>>

\* Module Membership: it is reactivated, or accepts an invitation again.
Reinstate(o, e) ==
  /\ member[o][e] = "INACTIVE"
  /\ member' = [member EXCEPT ![o][e] = "ACTIVE"]
  /\ UNCHANGED <<org, invitation, identity, owner, session, locks, pc, job>>

\* Module Invitations: somebody joins as a collaborator.
Join(o, e) ==
  /\ owner[o] # Nothing /\ member[o][e] = "NONE" /\ ~Elsewhere(o, e)
  /\ Identify(e)
  /\ member' = [member EXCEPT ![o][e] = "ACTIVE"]
  /\ UNCHANGED <<org, invitation, owner, session, locks, pc, job>>

\* The same in an Organization that is not in Org.
Appear(e) ==
  /\ ~Identified(e)
  /\ identity' = [identity EXCEPT ![e] = "HOME"]
  /\ UNCHANGED <<org, invitation, member, owner, session, locks, pc, job>>

\* Module Sessions.  Neither looks at the Organization.
Login(e) ==
  /\ Identified(e) /\ session[e] = "NONE"
  /\ OpenSession(e)
  /\ UNCHANGED <<org, invitation, identity, member, owner, locks, pc, job>>
Logout(e) ==
  /\ session[e] # "NONE"
  /\ session' = [session EXCEPT ![e] = "NONE"]
  /\ UNCHANGED <<org, invitation, identity, member, owner, locks, pc, job>>

Expire(o) ==
  /\ invitation[o].status = "PENDING" /\ ~invitation[o].expired
  /\ invitation' = [invitation EXCEPT ![o].expired = TRUE]
  /\ UNCHANGED <<org, identity, member, owner, session, locks, pc, job>>

\* SessionAuthGuard and OrgMemberGuard: a session and an active membership are
\* enough.
MayWork(o, e) == session[e] # "NONE" /\ member[o][e] = "ACTIVE"

\* A transaction is lost and rolled back, or no session is opened after it.
Timeout(r) == pc[r] \notin {"idle", "invite", "list", "revoke"} /\ Refuse(r)

\* create ends between its two transactions.
LoseInvite(r) ==
  /\ At(r, "create", "invite")
  /\ lost' = lost \cup {job[r].org}
  /\ Refuse(r)

---------------------------------------------------------------------------
Arrive(r) ==
  \/ RequestCreate(r) \/ RequestRegister(r) \/ RequestTransition(r)
  \/ RequestCommercial(r) \/ RequestAccept(r) \/ SuspendMember(r)

Serve(r) ==
  \/ CreateCheck(r) \/ CreateInsert(r) \/ CreateInvite(r)
  \/ RegisterIdentity(r) \/ RegisterCheck(r) \/ RegisterInsert(r)
  \/ RegisterSession(r)
  \/ TransitionLock(r) \/ TransitionCommit(r) \/ ListMembers(r) \/ RevokeOne(r)
  \/ RevokedAll(r)
  \/ CommercialLock(r) \/ CommercialCommit(r)
  \/ AcceptLock(r) \/ AcceptRead(r) \/ AcceptCommit(r) \/ AcceptSession(r)

\* A crash is one or several of these, of the requests it ends.
Fail(r) == Timeout(r) \/ ListFails(r) \/ RevokeFails(r)

Next ==
  \/ /\ \/ \E r \in Request : Arrive(r) \/ Serve(r) \/ Fail(r)
        \/ \E o \in Org, e \in Email : Join(o, e) \/ Reinstate(o, e)
        \/ \E e \in Email : Appear(e) \/ Login(e) \/ Logout(e)
        \/ \E o \in Org : Expire(o)
     /\ UNCHANGED lost
  \/ \E r \in Request : LoseInvite(r)

Spec == Init /\ [][Next]_vars

---------------------------------------------------------------------------
(* Properties *)

\* The types, and one name per Organization.
TypeOK ==
  /\ org \in [Org -> OrgRow]
  /\ \A o, p \in Created : org[o].name = org[p].name => o = p
  /\ invitation \in [Org -> InvitationRow]
  /\ identity \in [Email -> Identity]
  /\ member \in [Org -> [Email -> MemberState]]
  /\ owner \in [Org -> Email \cup {Nothing}]
  /\ session \in [Email -> SessionState]
  /\ lost \subseteq Org
  /\ locks \in [Request -> SUBSET Org]
  /\ pc \in [Request -> Label]
  /\ job \in [Request -> Job]

\* "terminal disablement has no reactivation path" and no other transition is
\* possible than the code names (organizations-lifecycle.test.ts 49-72), and
\* the evidence of each names the status it really replaced, whoever else is
\* changing the Organization.
LifecycleStep ==
  \A o \in Org :
    org'[o].access # org[o].access =>
      \/ org[o].access = "NONE"
      \/ org[o].access = "PROVISIONING" /\ org'[o].access = "ACTIVE"
      \/ \E r \in Request :
           /\ At(r, "transition", "commit") /\ job[r].org = o
           /\ org[o].access \in job[r].from
           /\ org[o].access = job[r].before
LifecycleIsFollowed == [][LifecycleStep]_vars

\* An Organization has no member and no owner exactly while it is being
\* provisioned, and its owner is an active member from then on.  While it is
\* being provisioned it has an owner's invitation to wait for, or is about to
\* get one, unless create ended between its two transactions: nothing sends it
\* later.
OwnedOnceActive ==
  \A o \in Org :
    /\ org[o].access \in {"NONE", "PROVISIONING"} <=> owner[o] = Nothing
    /\ owner[o] # Nothing => member[o][owner[o]] = "ACTIVE"
    /\ owner[o] = Nothing => \A e \in Email : member[o][e] = "NONE"
    /\ org[o].access = "PROVISIONING" /\ invitation[o].status # "PENDING" =>
         \/ o \in lost
         \/ \E r \in Request : At(r, "create", "invite") /\ job[r].org = o

\* "suspend/disable ends every open session belonging to this Organization's
\* members right away" (organizations.service.ts 158-159), as far as it does: a
\* session that was open, of a member active then, when the Organization was
\* suspended or disabled is about to be revoked, by this request or by the one
\* that suspended the member meanwhile, whatever joins, logins, reactivations
\* and reinstatements come in between; until the revocation itself fails.
StaleSessionIsOwed ==
  \A e \in Email :
    session[e] = "STALE" =>
      \E r \in Request :
        \/ pc[r] = "list" /\ e \in Active(job[r].org)
        \/ pc[r] = "revoke" /\ e \in job[r].revoke

\* "This permanently ends access for every member" (OrganizationDetailPanel.tsx
\* 162, of disabling): nobody with a session opened since works in an
\* Organization that is DISABLED.
DisabledEndsAccess ==
  \A o \in Org, e \in Email :
    org[o].access = "DISABLED" /\ session[e] = "OPEN" => ~MayWork(o, e)
=============================================================================
