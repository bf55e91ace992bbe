---------------------------- MODULE Invitations ----------------------------
(***************************************************************************)
(* COLLABORATOR invitations of several Organizations, as                   *)
(* InvitationsService runs them (apps/api/src/access-control), from the    *)
(* create, resend and revoke of an Administrator to the acceptance by a    *)
(* new or an existing identity.                                            *)
(*                                                                         *)
(* Requests run as in Membership: one statement at a time at READ          *)
(* COMMITTED, the last writes together with the COMMIT.  Only acceptance   *)
(* locks the invitation it reads; create, resend and revoke read it        *)
(* without a lock and write it by its id alone.                            *)
(***************************************************************************)
EXTENDS Naturals, FiniteSets

CONSTANTS
  Org,      \* Organizations that invite
  Email,    \* normalized e-mail addresses, each of at most one identity
  Token,    \* secrets; the one a row is inserted with also stands for its id
  Request,  \* requests the API serves concurrently
  Known,    \* e-mails of identities that never belonged to an Organization
  Nothing

\* Of the constants.
KnownAreEmails == Known \subseteq Email
NothingIsNothing == Nothing \notin Email \cup Token \cup Org

VARIABLES
  invitation,  \* invitations
  identity,    \* identities, HOME when it registered an Organization itself
  member,      \* memberships of the inviting Organizations
  issued,      \* the tokens that were put into a committed e-mail
  locks, pc, job

rows == <<invitation, identity, member, issued>>
vars == <<invitation, identity, member, issued, locks, pc, job>>

Invitation ==
  [status : {"NONE", "PENDING", "ACCEPTED", "REVOKED"},
   org : Org \cup {Nothing}, email : Email \cup {Nothing},
   token : Token \cup {Nothing}, expired : BOOLEAN,
   acceptedBy : Email \cup {Nothing}]
Operation ==
  {"none", "create", "resend", "revoke", "acceptNew", "acceptExisting"}
Label ==
  {"idle", "read", "find", "write", "lock", "identity", "membership",
   "create", "overwrite"}
Job ==
  [op : Operation, org : Org \cup {Nothing}, email : Email \cup {Nothing},
   token : Token \cup {Nothing}, row : Token \cup {Nothing}]

NoInvitation ==
  [status |-> "NONE", org |-> Nothing, email |-> Nothing, token |-> Nothing,
   expired |-> FALSE, acceptedBy |-> Nothing]
NoJob == [op |-> "none", org |-> Nothing, email |-> Nothing,
          token |-> Nothing, row |-> Nothing]

Sent == {i \in Token : invitation[i].status # "NONE"}
PendingFor(o, e) ==
  {i \in Token : /\ invitation[i].status = "PENDING"
                 /\ invitation[i].org = o /\ invitation[i].email = e}
Elsewhere(o, e) ==
  identity[e] = "HOME" \/ \E p \in Org \ {o} : member[p][e] # "NONE"

Free(r, row) == \A q \in Request \ {r} : row \notin locks[q]
At(r, ops, label) == pc[r] = label /\ job[r].op \in ops
Fresh(t) == t \notin issued /\ \A q \in Request : job[q].token # t

Init ==
  /\ invitation = [i \in Token |-> NoInvitation]
  /\ identity = [e \in Email |-> IF e \in Known THEN "BARE" ELSE "NONE"]
  /\ member = [o \in Org |-> [e \in Email |-> "NONE"]]
  /\ issued = {}
  /\ locks = [r \in Request |-> {}]
  /\ pc = [r \in Request |-> "idle"]
  /\ job = [r \in Request |-> NoJob]

---------------------------------------------------------------------------
Admit(r, j, label) ==
  /\ pc[r] = "idle"
  /\ pc' = [pc EXCEPT ![r] = label]
  /\ job' = [job EXCEPT ![r] = j]
  /\ UNCHANGED <<rows, locks>>

Proceed(r, label) ==
  pc' = [pc EXCEPT ![r] = label] /\ UNCHANGED <<rows, locks, job>>

\* The statement found the invitation i; the handler goes on with it.
Found(r, i, label) ==
  /\ pc' = [pc EXCEPT ![r] = label]
  /\ job' = [job EXCEPT ![r].row = i]
  /\ UNCHANGED rows

Answer(r) ==
  /\ locks' = [locks EXCEPT ![r] = {}]
  /\ pc' = [pc EXCEPT ![r] = "idle"]
  /\ job' = [job EXCEPT ![r] = NoJob]
Refuse(r) == Answer(r) /\ UNCHANGED rows

---------------------------------------------------------------------------
(* create and resend: createOrReplaceInvitation.  Each generates its token *)
(* first; the e-mail that carries it is enqueued in the same transaction.  *)

RequestCreate(r) ==
  \E o \in Org, e \in Email, t \in Token :
    /\ Fresh(t)
    /\ Admit(r, [NoJob EXCEPT !.op = "create", !.org = o, !.email = e,
                              !.token = t], "find")

RequestResend(r) ==
  \E i \in Sent, t \in Token :
    /\ Fresh(t)
    /\ Admit(r, [op |-> "resend", org |-> invitation[i].org,
                 email |-> invitation[i].email, token |-> t, row |-> i],
             "read")

ReadPending(r, label) ==
  \/ invitation[job[r].row].status = "PENDING" /\ Proceed(r, label)
  \/ invitation[job[r].row].status # "PENDING" /\ Refuse(r)

ResendRead(r) == At(r, {"resend"}, "read") /\ ReadPending(r, "find")

\* Which row is written is decided by this read.
FindPending(r) ==
  LET open == PendingFor(job[r].org, job[r].email) IN
  /\ At(r, {"create", "resend"}, "find")
  /\ \/ \E i \in open : Found(r, i, "write")
     \/ open = {} /\ Found(r, Nothing, "write")
  /\ UNCHANGED locks

\* Mutant: there is no unique index on the PENDING invitation.
InsertAnyway(r) ==
  /\ At(r, {"create", "resend"}, "write") /\ job[r].row = Nothing
  /\ invitation' = [invitation EXCEPT ![job[r].token] =
       [status |-> "PENDING", org |-> job[r].org, email |-> job[r].email,
        token |-> job[r].token, expired |-> FALSE, acceptedBy |-> Nothing]]
  /\ issued' = issued \cup {job[r].token}
  /\ Answer(r)
  /\ UNCHANGED <<identity, member>>

\* The unique index on the PENDING invitation of an address decides.
Insert(r) ==
  LET open == PendingFor(job[r].org, job[r].email) IN
  /\ At(r, {"create", "resend"}, "write") /\ job[r].row = Nothing
  /\ \/ open # {} /\ Refuse(r)
     \/ /\ open = {}
        /\ invitation' = [invitation EXCEPT ![job[r].token] =
             [status |-> "PENDING", org |-> job[r].org, email |-> job[r].email,
              token |-> job[r].token, expired |-> FALSE,
              acceptedBy |-> Nothing]]
        /\ issued' = issued \cup {job[r].token}
        /\ Answer(r)
        /\ UNCHANGED <<identity, member>>

\* The row may meanwhile have been accepted or revoked: it gets the new
\* token and expiry all the same, and its e-mail goes out.
Replace(r) ==
  LET i == job[r].row IN
  /\ At(r, {"create", "resend"}, "write") /\ i # Nothing
  /\ Free(r, i)
  /\ invitation' = [invitation EXCEPT ![i].token = job[r].token,
                                      ![i].expired = FALSE]
  /\ issued' = issued \cup {job[r].token}
  /\ Answer(r)
  /\ UNCHANGED <<identity, member>>

---------------------------------------------------------------------------
(* revokeInvitation *)

RequestRevoke(r) ==
  \E i \in Sent :
    Admit(r, [NoJob EXCEPT !.op = "revoke", !.row = i], "read")

RevokeRead(r) == At(r, {"revoke"}, "read") /\ ReadPending(r, "write")

RevokeCommit(r) ==
  LET i == job[r].row IN
  /\ At(r, {"revoke"}, "write")
  /\ Free(r, i)
  /\ invitation' = [invitation EXCEPT ![i].status = "REVOKED"]
  /\ Answer(r)
  /\ UNCHANGED <<identity, member, issued>>

---------------------------------------------------------------------------
(* acceptForNewIdentity and acceptForExistingIdentity: acceptCore.         *)

Accepting == {"acceptNew", "acceptExisting"}

RequestAccept(r) ==
  \E t \in issued :
    \/ Admit(r, [NoJob EXCEPT !.op = "acceptNew", !.token = t], "lock")
    \/ \E e \in {x \in Email : identity[x] # "NONE"} :
         Admit(r, [NoJob EXCEPT !.op = "acceptExisting", !.token = t,
                                !.email = e], "lock")

ByToken(t) == {i \in Sent : invitation[i].token = t}
Acceptable(i) == invitation[i].status = "PENDING" /\ ~invitation[i].expired

\* Mutant: a token that no row carries is not refused.
AcceptUnknownToo(r) ==
  LET found == ByToken(job[r].token) IN
  /\ At(r, Accepting, "lock")
  /\ \/ /\ found = {} /\ Found(r, Nothing, "identity")
        /\ UNCHANGED locks
     \/ \E i \in found :
          /\ Free(r, i)
          /\ \/ ~Acceptable(i) /\ Refuse(r)
             \/ /\ Acceptable(i) /\ Found(r, i, "identity")
                /\ locks' = [locks EXCEPT ![r] = {i}]

\* Mutant: the invitation is read without FOR UPDATE.
AcceptWithoutLock(r) ==
  LET found == ByToken(job[r].token) IN
  /\ At(r, Accepting, "lock")
  /\ \/ found = {} /\ Refuse(r)
     \/ \E i \in found :
          \/ ~Acceptable(i) /\ Refuse(r)
          \/ Acceptable(i) /\ Found(r, i, "identity") /\ UNCHANGED locks

\* A token that a resend replaced finds no row.  An expired invitation is set
\* to EXPIRED and then refused: the exception rolls the UPDATE back.
AcceptLock(r) ==
  LET found == ByToken(job[r].token) IN
  /\ At(r, Accepting, "lock")
  /\ \/ found = {} /\ Refuse(r)
     \/ \E i \in found :
          /\ Free(r, i)
          /\ \/ ~Acceptable(i) /\ Refuse(r)
             \/ /\ Acceptable(i) /\ Found(r, i, "identity")
                /\ locks' = [locks EXCEPT ![r] = {i}]

\* The new identity's address, or the caller's, is the invitation's.
AcceptIdentity(r) ==
  LET e == invitation[job[r].row].email
      mine == IF job[r].op = "acceptNew" THEN identity[e] = "NONE"
              ELSE job[r].email = e IN
  /\ At(r, Accepting, "identity")
  /\ \/ ~mine /\ Refuse(r)
     \/ mine /\ job[r].op = "acceptNew" /\ Proceed(r, "create")
     \/ mine /\ job[r].op = "acceptExisting" /\ Proceed(r, "membership")

\* Mutant: a membership of another Organization is no obstacle.
AcceptMembershipHere(r) ==
  LET i == invitation[job[r].row] IN
  /\ At(r, {"acceptExisting"}, "membership")
  /\ \/ member[i.org][i.email] # "NONE" /\ Proceed(r, "overwrite")
     \/ member[i.org][i.email] = "NONE" /\ Proceed(r, "create")

\* SEC-13.  An identity with several memberships, if there is one, is judged
\* by whichever of them the query returns first.
AcceptMembership(r) ==
  LET i == invitation[job[r].row] IN
  /\ At(r, {"acceptExisting"}, "membership")
  /\ \/ Elsewhere(i.org, i.email) /\ Refuse(r)
     \/ member[i.org][i.email] # "NONE" /\ Proceed(r, "overwrite")
     \/ /\ ~Elsewhere(i.org, i.email) /\ member[i.org][i.email] = "NONE"
        /\ Proceed(r, "create")

Join(r) ==
  LET i == invitation[job[r].row] IN
  /\ member' = [member EXCEPT ![i.org][i.email] = "ACTIVE"]
  /\ identity' = [identity EXCEPT ![i.email] = IF @ = "NONE" THEN "BARE" ELSE @]
  /\ invitation' = [invitation EXCEPT ![job[r].row].status = "ACCEPTED",
                                      ![job[r].row].acceptedBy = i.email]
  /\ Answer(r)
  /\ UNCHANGED issued

\* The unique e-mail of identities decides between acceptances and
\* registrations that create it at the same time.
AcceptCommit(r) ==
  LET taken == /\ job[r].op = "acceptNew"
               /\ identity[invitation[job[r].row].email] # "NONE" IN
  /\ At(r, Accepting, "create") \/ At(r, Accepting, "overwrite")
  /\ \/ taken /\ Refuse(r)
     \/ ~taken /\ Join(r)

---------------------------------------------------------------------------
(* What other parts of the system do meanwhile. *)

\* A member is suspended or removed (module Membership).
Leave(o, e) ==
  /\ member[o][e] = "ACTIVE"
  /\ member' = [member EXCEPT ![o][e] = "ENDED"]
  /\ UNCHANGED <<invitation, identity, issued, locks, pc, job>>

\* RegistrationService.register: identity, Organization and membership.
Register(e) ==
  /\ identity[e] = "NONE"
  /\ identity' = [identity EXCEPT ![e] = "HOME"]
  /\ UNCHANGED <<invitation, member, issued, locks, pc, job>>

Expire(i) ==
  /\ invitation[i].status = "PENDING" /\ ~invitation[i].expired
  /\ invitation' = [invitation EXCEPT ![i].expired = TRUE]
  /\ UNCHANGED <<identity, member, issued, locks, pc, job>>

\* A transaction is lost: its timeout, its connection or the process.
Timeout(r) == pc[r] # "idle" /\ Refuse(r)

---------------------------------------------------------------------------
Arrive(r) ==
  RequestCreate(r) \/ RequestResend(r) \/ RequestRevoke(r) \/ RequestAccept(r)

Serve(r) ==
  \/ ResendRead(r) \/ FindPending(r) \/ Insert(r) \/ Replace(r)
  \/ RevokeRead(r) \/ RevokeCommit(r)
  \/ AcceptLock(r) \/ AcceptIdentity(r) \/ AcceptMembership(r)
  \/ AcceptCommit(r)

Next ==
  \/ \E r \in Request : Arrive(r) \/ Serve(r) \/ Timeout(r)
  \/ \E o \in Org, e \in Email : Leave(o, e)
  \/ \E e \in Email : Register(e)
  \/ \E i \in Token : Expire(i)

Spec == Init /\ [][Next]_vars

---------------------------------------------------------------------------
(* Properties *)

TypeOK ==
  /\ invitation \in [Token -> Invitation]
  /\ identity \in [Email -> {"NONE", "BARE", "HOME"}]
  /\ member \in [Org -> [Email -> {"NONE", "ACTIVE", "ENDED"}]]
  /\ issued \subseteq Token
  /\ locks \in [Request -> SUBSET Token]
  /\ pc \in [Request -> Label]
  /\ job \in [Request -> Job]
  /\ \A r \in Request :
       pc[r] \in {"identity", "membership", "create", "overwrite"} =>
         job[r].row \in Sent

\* An Organization never has two open invitations for one address, though
\* every create and resend looks for the open one without a lock
\* (invitations.service.ts 207-209).
OnePendingPerEmail ==
  \A o \in Org, e \in Email : Cardinality(PendingFor(o, e)) <= 1

\* Whoever becomes a member does so by an invitation of that Organization to
\* that address which is still open at that very moment, with the token of
\* its latest e-mail, and uses it up: a revoked, a replaced or an accepted
\* token admits nobody, however the requests interleave.
JoinStep ==
  \A o \in Org, e \in Email :
    member'[o][e] = "ACTIVE" /\ member[o][e] # "ACTIVE" =>
      \E i \in PendingFor(o, e), r \in Request :
        /\ job[r].op \in Accepting /\ job[r].token = invitation[i].token
        /\ invitation'[i].status = "ACCEPTED"
JoinNeedsOpenInvitation == [][JoinStep]_vars

\* SEC-13: an identity belongs, or has belonged, to one Organization at most
\* (schema.prisma 8-10, invitations.service.ts 399-405).
OneOrganizationOf(e) ==
  LET joined == {o \in Org : member[o][e] # "NONE"} IN
  /\ Cardinality(joined) <= 1
  /\ identity[e] = "HOME" => joined = {}
OneOrganization == \A e \in Email : OneOrganizationOf(e)
===========================================================================
