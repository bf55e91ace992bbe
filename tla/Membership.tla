---------------------------- MODULE Membership ----------------------------
(***************************************************************************)
(* The members of ONE Organization and the transfer of its ownership, as   *)
(* MembershipService runs them (apps/api/src/access-control).              *)
(*                                                                         *)
(* Every HTTP request is a process.  It is admitted by the guards, which   *)
(* read the caller's membership in a transaction of their own, and then    *)
(* runs the statements of its service transaction one at a time against    *)
(* PostgreSQL at READ COMMITTED:                                           *)
(*   - a plain SELECT sees the rows committed at that moment and locks     *)
(*     nothing, so what it saw may be stale when the request writes;       *)
(*   - SELECT ... FOR UPDATE waits for the row and holds it to the end;    *)
(*   - the last writes of a transaction are seen by nobody until it        *)
(*     commits, so they and the COMMIT are one step, which waits for a row *)
(*     that another transaction has locked;                                *)
(*   - an exception rolls the transaction back and releases its locks.     *)
(* After the commit some handlers revoke sessions, in a step of their own. *)
(***************************************************************************)
EXTENDS Naturals, FiniteSets

CONSTANTS
  Member,          \* identities that have, or may get, a membership row here
  Proposal,        \* ids of ownership transfer proposals
  Request,         \* requests the API serves concurrently
  Operations,      \* the endpoints called (a bound on the instance)
  CrashesAllowed,  \* may the API process die and restart?
  NoOne

Transitions == {"suspend", "reactivate", "remove"}
AllOperations ==
  Transitions \cup {"promote", "propose", "cancel", "accept", "join"}

ASSUME RowsAreDistinct == Member \cap Proposal = {}
ASSUME OperationsAreKnown == Operations \subseteq AllOperations
ASSUME CrashesAllowedIsBoolean == CrashesAllowed \in BOOLEAN
ASSUME NoOneIsNoRow == NoOne \notin Member \cup Proposal

VARIABLES
  profile,   \* memberships.profile
  state,     \* memberships.state, "NONE" when there is no row
  isOwner,   \* memberships.is_owner
  proposal,  \* ownership_transfer_proposals
  locks,     \* the rows each open transaction holds FOR UPDATE
  pc,        \* the next statement of each request
  job,       \* what each request was asked to do
  stale      \* what became of the sessions a member had opened before a
             \* committed change that is meant to end them

rows == <<profile, state, isOwner, proposal>>
vars == <<profile, state, isOwner, proposal, locks, pc, job, stale>>

Profile == {"USER", "ADMINISTRATOR"}
State == {"NONE", "ACTIVE", "SUSPENDED", "REMOVED"}
ProposalRow ==
  [status : {"NONE", "PENDING", "CANCELLED", "ACCEPTED"},
   proposer : Member \cup {NoOne}, successor : Member \cup {NoOne},
   expired : BOOLEAN]
Label ==
  {"idle", "lock", "lockProposer", "lockSuccessor", "read", "count",
   "pending", "write", "create", "revoke"}
Job ==
  [op : AllOperations \cup {"none"}, actor : Member \cup {NoOne},
   target : Member \cup {NoOne}, proposal : Proposal \cup {NoOne}]

\* OWED: still open, and to be revoked.  LEFT: their revocation failed or was
\* forgotten in a crash, so they stay open.
Fate == {"NONE", "OWED", "LEFT"}

NoJob == [op |-> "none", actor |-> NoOne, target |-> NoOne, proposal |-> NoOne]
NoProposal == [status |-> "NONE", proposer |-> NoOne, successor |-> NoOne,
               expired |-> FALSE]

\* What each lifecycle transition accepts, and what it makes of the row.
From(op) == CASE op = "suspend" -> {"ACTIVE"}
              [] op = "reactivate" -> {"SUSPENDED"}
              [] op = "remove" -> {"ACTIVE", "SUSPENDED"}
              [] OTHER -> {}
To(op) == CASE op = "suspend" -> "SUSPENDED"
            [] op = "reactivate" -> "ACTIVE"
            [] OTHER -> "REMOVED"

ActiveAdministrators ==
  {m \in Member : profile[m] = "ADMINISTRATOR" /\ state[m] = "ACTIVE"}
Pending == {p \in Proposal : proposal[p].status = "PENDING"}

Free(r, row) == \A q \in Request \ {r} : row \notin locks[q]
At(r, ops, label) == pc[r] = label /\ job[r].op \in ops

---------------------------------------------------------------------------
(* An Organization whose owner has accepted; others may already be in it.  *)

Init ==
  /\ \E owner \in Member :
       /\ isOwner = [m \in Member |-> m = owner]
       /\ profile \in [Member -> Profile]
       /\ state \in [Member -> {"NONE", "ACTIVE"}]
       /\ profile[owner] = "ADMINISTRATOR" /\ state[owner] = "ACTIVE"
       /\ \A m \in Member : state[m] = "NONE" => profile[m] = "USER"
  /\ proposal = [p \in Proposal |-> NoProposal]
  /\ locks = [r \in Request |-> {}]
  /\ pc = [r \in Request |-> "idle"]
  /\ job = [r \in Request |-> NoJob]
  /\ stale = [m \in Member |-> "NONE"]

---------------------------------------------------------------------------
(* How a request moves. *)

Goto(r, label) == pc' = [pc EXCEPT ![r] = label] /\ UNCHANGED job
Proceed(r, label) == Goto(r, label) /\ UNCHANGED <<rows, locks, stale>>
Lock(r, row, label) ==
  /\ Free(r, row)
  /\ locks' = [locks EXCEPT ![r] = @ \cup {row}]
  /\ Goto(r, label)
  /\ UNCHANGED <<rows, stale>>

\* Mutant: the transaction is left open, its row locks with it.
LeaveOpen(r) == locks' = [locks EXCEPT ![r] = @]

\* The transaction ends, its locks go; the request is answered.
Release(r) == locks' = [locks EXCEPT ![r] = {}]
Answer(r) ==
  /\ Release(r)
  /\ pc' = [pc EXCEPT ![r] = "idle"]
  /\ job' = [job EXCEPT ![r] = NoJob]
Refuse(r) == Answer(r) /\ UNCHANGED <<rows, stale>>

\* The transaction commits and the handler goes on to revoke sessions.
AnswerAfterRevoking(r) ==
  /\ Release(r)
  /\ Goto(r, "revoke")
  /\ stale' = [stale EXCEPT ![job[r].target] = "OWED"]

Admit(r, j, label) ==
  /\ pc[r] = "idle" /\ j.op \in Operations
  /\ pc' = [pc EXCEPT ![r] = label]
  /\ job' = [job EXCEPT ![r] = j]
  /\ UNCHANGED <<rows, locks, stale>>

---------------------------------------------------------------------------
(* suspend, reactivate, remove: transitionState. *)

\* OrgMemberGuard and CapabilityGuard: some active member calls; which one
\* is not looked at again.
RequestTransition(r) ==
  /\ \E a \in Member : state[a] = "ACTIVE"
  /\ \E op \in Transitions, t \in Member :
       Admit(r, [NoJob EXCEPT !.op = op, !.target = t], "lock")

\* Mutant: the target is read without FOR UPDATE.
TransitionWithoutLock(r) ==
  /\ At(r, Transitions, "lock")
  /\ \/ state[job[r].target] = "NONE" /\ Refuse(r)
     \/ state[job[r].target] # "NONE" /\ Proceed(r, "read")

\* Mutant: the caller's row is locked in place of the target's.
TransitionLockCaller(r) ==
  /\ At(r, Transitions, "lock")
  /\ \/ state[job[r].target] = "NONE" /\ Refuse(r)
     \/ state[job[r].target] # "NONE" /\ Lock(r, job[r].actor, "read")

TransitionLock(r) ==
  /\ At(r, Transitions, "lock")
  /\ \/ state[job[r].target] = "NONE" /\ Refuse(r)
     \/ state[job[r].target] # "NONE" /\ Lock(r, job[r].target, "read")

CheckLifecycle(r) ==
  \/ state[job[r].target] \in From(job[r].op) /\ Proceed(r, "write")
  \/ state[job[r].target] \notin From(job[r].op) /\ Refuse(r)

\* Mutant: the owner is not exempt from suspension and removal.
TransitionReadOwnerToo(r) ==
  /\ At(r, Transitions, "read")
  /\ \/ /\ job[r].op # "reactivate" /\ profile[job[r].target] = "ADMINISTRATOR"
        /\ Proceed(r, "count")
     \/ /\ ~(job[r].op # "reactivate"
               /\ profile[job[r].target] = "ADMINISTRATOR")
        /\ CheckLifecycle(r)

TransitionRead(r) ==
  LET t == job[r].target
      blocks == job[r].op \in {"suspend", "remove"} IN
  /\ At(r, Transitions, "read")
  /\ \/ blocks /\ isOwner[t] /\ Refuse(r)
     \/ blocks /\ ~isOwner[t] /\ profile[t] = "ADMINISTRATOR"
          /\ Proceed(r, "count")
     \/ ~(blocks /\ (isOwner[t] \/ profile[t] = "ADMINISTRATOR"))
          /\ CheckLifecycle(r)

TransitionCount(r) ==
  /\ At(r, Transitions, "count")
  /\ \/ Cardinality(ActiveAdministrators) <= 1 /\ Refuse(r)
     \/ Cardinality(ActiveAdministrators) > 1 /\ CheckLifecycle(r)

\* Mutant: revokeSessions is false for every transition.
TransitionCommitOnly(r) ==
  LET t == job[r].target IN
  /\ At(r, Transitions, "write")
  /\ state' = [state EXCEPT ![t] = To(job[r].op)]
  /\ stale' = IF job[r].op = "reactivate" THEN stale
              ELSE [stale EXCEPT ![t] = "OWED"]
  /\ Answer(r)
  /\ UNCHANGED <<profile, isOwner, proposal>>

TransitionCommit(r) ==
  LET t == job[r].target IN
  /\ At(r, Transitions, "write")
  /\ state' = [state EXCEPT ![t] = To(job[r].op)]
  /\ \/ job[r].op = "reactivate" /\ Answer(r) /\ UNCHANGED stale
     \/ job[r].op # "reactivate" /\ AnswerAfterRevoking(r)
  /\ UNCHANGED <<profile, isOwner, proposal>>

\* revokeAllForIdentity ends every session the member has.
Revoke(r) ==
  /\ pc[r] = "revoke"
  /\ stale' = [stale EXCEPT ![job[r].target] = "NONE"]
  /\ Answer(r)
  /\ UNCHANGED rows

\* The revocation throws: the change stays committed, the caller gets a 500,
\* and nothing tries again.
GiveUp(fate) == IF fate = "OWED" THEN "LEFT" ELSE fate
RevokeFails(r) ==
  /\ pc[r] = "revoke"
  /\ stale' = [stale EXCEPT ![job[r].target] = GiveUp(@)]
  /\ Answer(r)
  /\ UNCHANGED rows

---------------------------------------------------------------------------
(* promote: the owner makes an active USER an Administrator.  The row is   *)
(* read without a lock and written by its id alone.                        *)

RequestPromote(r) ==
  /\ \E a \in Member : state[a] = "ACTIVE" /\ isOwner[a]
  /\ \E t \in Member :
       Admit(r, [NoJob EXCEPT !.op = "promote", !.target = t], "read")

PromoteRead(r) ==
  LET t == job[r].target
      eligible == profile[t] = "USER" /\ state[t] = "ACTIVE" IN
  /\ At(r, {"promote"}, "read")
  /\ \/ eligible /\ Proceed(r, "write")
     \/ ~eligible /\ Refuse(r)

PromoteCommit(r) ==
  LET t == job[r].target IN
  /\ At(r, {"promote"}, "write")
  /\ Free(r, t)
  /\ profile' = [profile EXCEPT ![t] = "ADMINISTRATOR"]
  /\ AnswerAfterRevoking(r)
  /\ UNCHANGED <<state, isOwner, proposal>>

---------------------------------------------------------------------------
(* proposeOwnershipTransfer: that the caller is the owner is known from    *)
(* the guard's read only.                                                  *)

\* The id of the new row is fixed here: a request is admitted only while an
\* unused one is left (the bound on proposals).
RequestPropose(r) ==
  \E a, s \in Member, p \in Proposal :
    /\ proposal[p].status = "NONE"
    /\ \A q \in Request : job[q].proposal # p
    /\ state[a] = "ACTIVE" /\ isOwner[a]
    /\ Admit(r, [NoJob EXCEPT !.op = "propose", !.actor = a, !.target = s,
                              !.proposal = p], "read")

ProposeRead(r) ==
  LET s == job[r].target
      eligible == s \in ActiveAdministrators /\ ~isOwner[s] IN
  /\ At(r, {"propose"}, "read")
  /\ \/ eligible /\ Proceed(r, "pending")
     \/ ~eligible /\ Refuse(r)

ProposeCheckPending(r) ==
  /\ At(r, {"propose"}, "pending")
  /\ \/ Pending = {} /\ Proceed(r, "write")
     \/ Pending # {} /\ Refuse(r)

\* Mutant: there is no unique index on the PENDING proposal.
ProposeInsertAnyway(r) ==
  LET a == job[r].actor
      s == job[r].target IN
  /\ At(r, {"propose"}, "write") /\ Free(r, a) /\ Free(r, s)
  /\ proposal' = [proposal EXCEPT ![job[r].proposal] =
       [status |-> "PENDING", proposer |-> a, successor |-> s,
        expired |-> FALSE]]
  /\ Answer(r)
  /\ UNCHANGED <<profile, state, isOwner, stale>>

\* The unique index on the PENDING proposal decides; the foreign keys wait
\* for a member row that is locked FOR UPDATE.
ProposeInsert(r) ==
  LET a == job[r].actor
      s == job[r].target IN
  /\ At(r, {"propose"}, "write")
  /\ \/ Pending # {} /\ Refuse(r)
     \/ /\ Pending = {} /\ Free(r, a) /\ Free(r, s)
        /\ proposal' = [proposal EXCEPT ![job[r].proposal] =
             [status |-> "PENDING", proposer |-> a, successor |-> s,
              expired |-> FALSE]]
        /\ Answer(r)
        /\ UNCHANGED <<profile, state, isOwner, stale>>

---------------------------------------------------------------------------
(* cancelOwnershipTransfer *)

Resolve(p, status) == proposal' = [proposal EXCEPT ![p].status = status]

RequestCancel(r) ==
  \E a \in Member, p \in Proposal :
    /\ proposal[p].status # "NONE"
    /\ state[a] = "ACTIVE" /\ isOwner[a]
    /\ Admit(r, [NoJob EXCEPT !.op = "cancel", !.actor = a, !.proposal = p],
             "lock")

\* Mutant: cancel reads the proposal without FOR UPDATE.
CancelWithoutLock(r) ==
  LET p == job[r].proposal
      mine == proposal[p].status = "PENDING"
                /\ proposal[p].proposer = job[r].actor IN
  /\ At(r, {"cancel"}, "lock")
  /\ \/ mine /\ Proceed(r, "write")
     \/ ~mine /\ Refuse(r)

CancelLock(r) ==
  LET p == job[r].proposal
      mine == proposal[p].status = "PENDING"
                /\ proposal[p].proposer = job[r].actor IN
  /\ At(r, {"cancel"}, "lock")
  /\ \/ mine /\ Lock(r, p, "write")
     \/ ~mine /\ Free(r, p) /\ Refuse(r)

CancelCommit(r) ==
  LET p == job[r].proposal IN
  /\ At(r, {"cancel"}, "write")
  /\ Resolve(p, "CANCELLED")
  /\ Answer(r)
  /\ UNCHANGED <<profile, state, isOwner, stale>>

---------------------------------------------------------------------------
(* acceptOwnershipTransfer: the proposal, the proposer and the successor   *)
(* are locked in this order before the members are read.                   *)

RequestAccept(r) ==
  \E a \in Member, p \in Proposal :
    /\ proposal[p].status # "NONE"
    /\ state[a] = "ACTIVE"
    /\ Admit(r, [NoJob EXCEPT !.op = "accept", !.actor = a, !.proposal = p],
             "lock")

\* An expired proposal is set to EXPIRED and then refused: the exception
\* rolls the UPDATE back, so nothing of it stays.
AcceptLock(r) ==
  LET p == job[r].proposal
      open == /\ proposal[p].status = "PENDING"
              /\ proposal[p].successor = job[r].actor
              /\ ~proposal[p].expired IN
  /\ At(r, {"accept"}, "lock")
  /\ \/ open /\ Lock(r, p, "lockProposer")
     \/ ~open /\ Free(r, p) /\ Refuse(r)

AcceptLockProposer(r) ==
  /\ At(r, {"accept"}, "lockProposer")
  /\ Lock(r, proposal[job[r].proposal].proposer, "lockSuccessor")

\* Mutant: the successor is read without FOR UPDATE.
AcceptWithoutLockingSuccessor(r) ==
  At(r, {"accept"}, "lockSuccessor") /\ Proceed(r, "read")

AcceptLockSuccessor(r) ==
  /\ At(r, {"accept"}, "lockSuccessor")
  /\ Lock(r, proposal[job[r].proposal].successor, "read")

AcceptRead(r) ==
  LET row == proposal[job[r].proposal]
      eligible == /\ isOwner[row.proposer] /\ state[row.proposer] = "ACTIVE"
                  /\ row.successor \in ActiveAdministrators IN
  /\ At(r, {"accept"}, "read")
  /\ \/ eligible /\ Proceed(r, "write")
     \/ ~eligible /\ Refuse(r)

AcceptCommit(r) ==
  LET p == job[r].proposal IN
  /\ At(r, {"accept"}, "write")
  /\ isOwner' = [isOwner EXCEPT ![proposal[p].proposer] = FALSE,
                                ![proposal[p].successor] = TRUE]
  /\ Resolve(p, "ACCEPTED")
  /\ Answer(r)
  /\ UNCHANGED <<profile, state, stale>>

---------------------------------------------------------------------------
(* acceptCore of InvitationsService, as far as it touches memberships: an  *)
(* accepted COLLABORATOR invitation, which always carries the profile      *)
(* USER, creates the membership or overwrites the one its identity already *)
(* has.  Accepting locks the invitation, and at most one is PENDING for an *)
(* email, so one such request runs for a member at a time.                 *)

RequestJoin(r) ==
  \E m \in Member :
    /\ \A q \in Request : ~(job[q].op = "join" /\ job[q].target = m)
    /\ Admit(r, [NoJob EXCEPT !.op = "join", !.target = m], "read")

JoinRead(r) ==
  /\ At(r, {"join"}, "read")
  /\ \/ state[job[r].target] = "NONE" /\ Proceed(r, "create")
     \/ state[job[r].target] # "NONE" /\ Proceed(r, "write")

JoinCommit(r) ==
  LET m == job[r].target IN
  /\ \/ At(r, {"join"}, "write") /\ Free(r, m) /\ UNCHANGED isOwner
     \/ At(r, {"join"}, "create")
          /\ isOwner' = [isOwner EXCEPT ![m] = FALSE]
  /\ profile' = [profile EXCEPT ![m] = "USER"]
  /\ state' = [state EXCEPT ![m] = "ACTIVE"]
  /\ Answer(r)
  /\ UNCHANGED <<proposal, stale>>

---------------------------------------------------------------------------
(* Time and failures. *)

\* A pending proposal reaches its expires_at.
Expire(p) ==
  /\ proposal[p].status = "PENDING" /\ ~proposal[p].expired
  /\ proposal' = [proposal EXCEPT ![p].expired = TRUE]
  /\ UNCHANGED <<profile, state, isOwner, locks, pc, job, stale>>

\* The interactive transaction exceeds its timeout or loses its connection;
\* after the commit no transaction is open (RevokeFails).
Timeout(r) == pc[r] \notin {"idle", "revoke"} /\ Refuse(r)

\* The API process dies: open transactions roll back, and whatever was still
\* to be done after a commit is forgotten.
Crash ==
  /\ CrashesAllowed
  /\ locks' = [r \in Request |-> {}]
  /\ pc' = [r \in Request |-> "idle"]
  /\ job' = [r \in Request |-> NoJob]
  /\ stale' = [m \in Member |-> GiveUp(stale[m])]
  /\ UNCHANGED rows

---------------------------------------------------------------------------
Arrive(r) ==
  \/ RequestTransition(r) \/ RequestPromote(r) \/ RequestPropose(r)
  \/ RequestCancel(r) \/ RequestAccept(r) \/ RequestJoin(r)

Serve(r) ==
  \/ TransitionLock(r) \/ TransitionRead(r) \/ TransitionCount(r)
  \/ TransitionCommit(r) \/ Revoke(r)
  \/ PromoteRead(r) \/ PromoteCommit(r)
  \/ ProposeRead(r) \/ ProposeCheckPending(r) \/ ProposeInsert(r)
  \/ CancelLock(r) \/ CancelCommit(r)
  \/ AcceptLock(r) \/ AcceptLockProposer(r) \/ AcceptLockSuccessor(r)
  \/ AcceptRead(r) \/ AcceptCommit(r)
  \/ JoinRead(r) \/ JoinCommit(r)

Next ==
  \/ \E r \in Request : Arrive(r) \/ Serve(r) \/ Timeout(r) \/ RevokeFails(r)
  \/ \E p \in Proposal : Expire(p)
  \/ Crash

Spec == Init /\ [][Next]_vars

\* The event loop resumes every handler that can go on, and PostgreSQL grants
\* a row lock in the order it was asked for, so a waiter is not passed over
\* for ever.
FairSpec == Spec /\ \A r \in Request : SF_vars(Serve(r))

---------------------------------------------------------------------------
(* Properties *)

TypeOK ==
  /\ profile \in [Member -> Profile]
  /\ state \in [Member -> State]
  /\ isOwner \in [Member -> BOOLEAN]
  /\ proposal \in [Proposal -> ProposalRow]
  /\ locks \in [Request -> SUBSET (Member \cup Proposal)]
  /\ pc \in [Request -> Label]
  /\ job \in [Request -> Job]
  /\ stale \in [Member -> Fate]

\* SEC-08, first half: at every moment exactly one member carries is_owner,
\* and that member is ACTIVE, whatever suspensions, removals, rejoins and
\* transfers race (membership.service.ts 188-194).
ExactlyOneActiveOwner ==
  \E m \in Member :
    isOwner[m] /\ state[m] = "ACTIVE" /\ \A n \in Member : isOwner[n] => n = m

\* SEC-08, second half: the Organization never loses its last active
\* Administrator.  The count in assertNotLastActiveAdministrator locks
\* nothing, so two suspensions can both see two Administrators.
AtLeastOneActiveAdministrator == ActiveAdministrators # {}

\* No two transfers are open at once, though propose looks for an open one
\* without a lock (membership.service.ts 321-324).
AtMostOnePending ==
  \A p, q \in Pending : p = q

\* Ownership arrives only at an active Administrator, and only from the owner
\* who offered it to that member, at the very moment it commits: what accept
\* checked some statements earlier has not become stale.
OwnershipMovesByConsent ==
  [][\A m \in Member :
       isOwner'[m] /\ ~isOwner[m] =>
         /\ m \in ActiveAdministrators
         /\ \E p \in Pending :
              /\ proposal[p].successor = m /\ isOwner[proposal[p].proposer]
              /\ proposal'[p].status = "ACCEPTED"]_vars

\* SEC-07: a session opened before its member was suspended, removed or
\* promoted is about to be revoked by a request that is still running, unless
\* a revocation failed or the process died (membership.service.ts 241-243 and
\* 282): no order of requests and refusals forgets one.
StaleSessionIsOwed ==
  \A m \in Member : stale[m] = "OWED" =>
    \E r \in Request : pc[r] = "revoke" /\ job[r].target = m

\* Every request is answered: no order of row locks makes requests wait for
\* each other for ever (the order of membership.service.ts 416-424).
RequestsAreAnswered ==
  \A r \in Request : pc[r] # "idle" ~> pc[r] = "idle"

---------------------------------------------------------------------------
(* The abstract Ownership these transactions implement: the owner is the   *)
(* row that carries is_owner, the offer is the PENDING proposal.           *)

NoOffer == [by |-> NoOne, to |-> NoOne]
OwnerRow == CHOOSE m \in Member : isOwner[m]
OpenOffer ==
  LET p == CHOOSE q \in Pending : TRUE IN
  IF Pending = {} THEN NoOffer
  ELSE [by |-> proposal[p].proposer, to |-> proposal[p].successor]

Promise == INSTANCE Ownership WITH owner <- OwnerRow, offer <- OpenOffer

\* Every step of the members' transactions is a step of Ownership or leaves
\* owner and offer alone: in particular a cancel admitted long ago withdraws
\* nothing that is not the owner's (membership.service.ts 350-380).
ImplementsOwnership == Promise!Spec
===========================================================================
