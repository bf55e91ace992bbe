----------------------------- MODULE Permissions -----------------------------
(***************************************************************************)
(* The capabilities and scope grants of ONE membership, as its two writers *)
(* replace them: MembershipService.updatePermissions, and the acceptance   *)
(* of an invitation by a former member (InvitationsService.acceptCore).    *)
(*                                                                         *)
(* Both delete all rows and insert new ones, in one transaction at READ    *)
(* COMMITTED.  A DELETE removes the rows that are committed when it starts *)
(* and waits for those that another transaction is deleting; rows that     *)
(* become visible while it waits it does not remove.  The inserts are one  *)
(* step with COMMIT; an update then revokes the member's sessions.         *)
(***************************************************************************)
EXTENDS EffectiveAccess, Naturals, FiniteSets

CONSTANTS
  Capability,
  Offered,    \* the permissions clients ask for (a bound on the instance)
  Request,    \* requests the API serves concurrently
  MaxChange   \* bound: how many changes are ever submitted

ASSUME MaxChangeIsNatural == MaxChange \in Nat
ASSUME CapabilitiesAreNoGrants == Capability \cap Grant = {}

VARIABLES
  permission,  \* membership_capabilities and membership_scope_grants
  profile,     \* of the membership
  live,        \* the ACTIVE Companies and Business Scopes
  invitation,  \* the former member's invitation
  stale,       \* what became of the sessions the member had opened before an
               \* update of the permissions that is meant to end them
  changes,     \* changes submitted so far; each numbers the rows it inserts
  pc, job

rows == <<permission, profile, live, invitation, stale>>
vars == <<permission, profile, live, invitation, stale, changes, pc, job>>

Row == [change : 1..MaxChange, what : Capability \cup Grant]
Table == {"capability", "grant"}
Wanted == [capabilities : SUBSET Capability, grants : SUBSET Grant]
ASSUME OfferedIsWanted == Offered \subseteq Wanted

\* OWED: still open, and to be revoked.  LEFT: their revocation failed or was
\* forgotten in a crash, so they stay open.
Fate == {"NONE", "OWED", "LEFT"}
Label == {"idle", "read", "join", "capability", "grant", "waiting",
          "filter", "insert", "revoke"}
\* "seen" is what the running DELETE found, "gone" what the transaction has
\* deleted; "were" and "targets" serve properties: the rows, and for an
\* acceptance what was ACTIVE, when the request arrived.
Job ==
  [op : {"none", "update", "accept"}, change : 0..MaxChange, want : Wanted,
   table : Table, seen : SUBSET Row, gone : SUBSET Row, were : SUBSET Row,
   targets : SUBSET (Company \cup Scope)]

Nobody == [capabilities |-> {}, grants |-> {}]
NoJob == [op |-> "none", change |-> 0, want |-> Nobody, table |-> "capability",
          seen |-> {}, gone |-> {}, were |-> {}, targets |-> {}]

In(table, S) ==
  {x \in S : IF table = "capability" THEN x.what \in Capability
             ELSE x.what \in Grant}
LiveTargets(grants) ==
  FilterLiveGrants(grants, live \cap Company, live \cap Scope)
At(r, op, label) == job[r].op = op /\ pc[r] = label
Accepting(r) == job[r].op = "accept" /\ pc[r] # "read"

Init ==
  /\ permission = {}
  /\ profile = "USER"
  /\ live = Company \cup Scope
  /\ invitation = [status |-> "NONE", repeats |-> FALSE, want |-> Nobody]
  /\ stale = "NONE"
  /\ changes = 0
  /\ pc = [r \in Request |-> "idle"]
  /\ job = [r \in Request |-> NoJob]

---------------------------------------------------------------------------
Submit(r, op, want) ==
  /\ pc[r] = "idle" /\ changes < MaxChange
  /\ changes' = changes + 1
  /\ pc' = [pc EXCEPT ![r] = "read"]
  /\ job' = [job EXCEPT ![r] = [NoJob EXCEPT !.op = op, !.change = changes + 1,
                                             !.want = want, !.were = permission,
                                             !.targets = IF op = "accept"
                                                         THEN live ELSE {}]]
  /\ UNCHANGED rows

Goto(r, label) ==
  pc' = [pc EXCEPT ![r] = label] /\ UNCHANGED <<rows, changes, job>>

Answer(r) ==
  /\ pc' = [pc EXCEPT ![r] = "idle"]
  /\ job' = [job EXCEPT ![r] = NoJob]
  /\ UNCHANGED changes
Refuse(r) == Answer(r) /\ UNCHANGED rows

---------------------------------------------------------------------------
(* updatePermissions *)

RequestUpdate(r) == \E want \in Offered : Submit(r, "update", want)

UpdateRead(r) ==
  /\ At(r, "update", "read")
  /\ \/ profile # "USER" /\ Refuse(r)
     \/ profile = "USER" /\ Goto(r, "capability")

---------------------------------------------------------------------------
(* acceptCore: the invitation is locked, then the membership's row.        *)

RequestAccept(r) ==
  invitation.status # "NONE" /\ Submit(r, "accept", Nobody)

\* Mutant: the invitation is read without FOR UPDATE.
AcceptReadUnlocked(r) ==
  /\ At(r, "accept", "read")
  /\ \/ invitation.status # "PENDING" /\ Refuse(r)
     \/ invitation.status = "PENDING" /\ Goto(r, "join")

AcceptRead(r) ==
  /\ At(r, "accept", "read")
  /\ \A q \in Request : ~Accepting(q)
  /\ \/ invitation.status # "PENDING" /\ Refuse(r)
     \/ invitation.status = "PENDING" /\ Goto(r, "join")

\* The UPDATE of the membership locks its row until COMMIT.
AcceptJoin(r) == At(r, "accept", "join") /\ Goto(r, "capability")

---------------------------------------------------------------------------
(* Both: replaceGrantsAndCapabilities.                                     *)

\* DELETE FROM a table starts.
Delete(r) ==
  /\ pc[r] \in Table
  /\ pc' = [pc EXCEPT ![r] = "waiting"]
  /\ job' = [job EXCEPT ![r].table = pc[r], ![r].seen = In(pc[r], permission)]
  /\ UNCHANGED <<rows, changes>>

AfterDelete(r) ==
  IF job[r].table = "capability" THEN "grant"
  ELSE IF job[r].op = "accept" THEN "filter" ELSE "insert"

\* Mutant: the scope grants are not deleted.
DeletedCapabilitiesOnly(r) ==
  /\ pc[r] = "waiting"
  /\ pc' = [pc EXCEPT ![r] = AfterDelete(r)]
  /\ job' = [job EXCEPT ![r].seen = {},
               ![r].gone = @ \cup In("capability", job[r].seen \cap permission)]
  /\ UNCHANGED <<rows, changes>>

\* It ends when nobody else is deleting its rows; those that are gone by now
\* are skipped.
Deleted(r) ==
  /\ pc[r] = "waiting"
  /\ \A q \in Request \ {r} : job[q].gone \cap job[r].seen = {}
  /\ pc' = [pc EXCEPT ![r] = AfterDelete(r)]
  /\ job' = [job EXCEPT ![r].seen = {},
                        ![r].gone = @ \cup (job[r].seen \cap permission)]
  /\ UNCHANGED <<rows, changes>>

\* filterLiveGrants, with the grants the invitation was made with.
AcceptFilter(r) ==
  /\ At(r, "accept", "filter")
  /\ pc' = [pc EXCEPT ![r] = "insert"]
  /\ job' = [job EXCEPT ![r].want =
               [capabilities |-> invitation.want.capabilities,
                grants |-> LiveTargets(invitation.want.grants)]]
  /\ UNCHANGED <<rows, changes>>

Inserted(r) ==
  {[change |-> job[r].change, what |-> w] :
     w \in job[r].want.capabilities \cup job[r].want.grants}

\* A membership has a capability once.
CapabilityTaken(r) ==
  \E x \in permission \ job[r].gone : x.what \in job[r].want.capabilities

Replace(r) == permission' = (permission \ job[r].gone) \cup Inserted(r)

UpdateAndRevoke(r) ==
  /\ Replace(r)
  /\ stale' = "OWED"
  /\ pc' = [pc EXCEPT ![r] = "revoke"]
  /\ UNCHANGED <<profile, live, invitation, changes, job>>

\* Mutant: the membership's row is not updated.
UpdateCommitAtOnce(r) ==
  /\ At(r, "update", "insert")
  /\ \/ CapabilityTaken(r) /\ Refuse(r)
     \/ ~CapabilityTaken(r) /\ UpdateAndRevoke(r)

\* Only now does updatePermissions update the membership's row.
UpdateCommit(r) ==
  /\ At(r, "update", "insert")
  /\ \/ CapabilityTaken(r) /\ Refuse(r)
     \/ /\ ~CapabilityTaken(r)
        /\ \A q \in Request : ~(Accepting(q) /\ pc[q] # "join")
        /\ UpdateAndRevoke(r)

\* Mutant: another member's sessions are revoked.
UpdateRevokeOthers(r) == At(r, "update", "revoke") /\ Refuse(r)

UpdateRevoke(r) ==
  /\ At(r, "update", "revoke")
  /\ stale' = "NONE"
  /\ Answer(r)
  /\ UNCHANGED <<permission, profile, live, invitation>>

\* The revocation throws, or the process dies before it: the update stays
\* committed, and nothing tries again.
RevokeFails(r) ==
  /\ At(r, "update", "revoke")
  /\ stale' = IF stale = "OWED" THEN "LEFT" ELSE stale
  /\ Answer(r)
  /\ UNCHANGED <<permission, profile, live, invitation>>

\* Unlike an update, the acceptance inserts a capability that the invitation
\* repeats twice, and fails.
AcceptCommit(r) ==
  LET fails == \/ CapabilityTaken(r)
               \/ invitation.repeats /\ job[r].want.capabilities # {} IN
  /\ At(r, "accept", "insert")
  /\ \/ fails /\ Refuse(r)
     \/ /\ ~fails
        /\ Replace(r) /\ Answer(r)
        /\ profile' = "USER"
        /\ invitation' = [invitation EXCEPT !.status = "ACCEPTED"]
        /\ UNCHANGED <<live, stale>>

---------------------------------------------------------------------------
(* What other requests do meanwhile. *)

\* Module Invitations: the former member is invited, once in a behaviour.
Invite ==
  /\ invitation.status = "NONE"
  /\ \E want \in Offered, repeats \in BOOLEAN :
       invitation' = [status |-> "PENDING", repeats |-> repeats, want |-> want]
  /\ UNCHANGED <<permission, profile, live, stale, changes, pc, job>>

\* The revocation waits for an acceptance that has locked the invitation.
Revoke ==
  /\ invitation.status = "PENDING"
  /\ \A r \in Request : ~Accepting(r)
  /\ invitation' = [invitation EXCEPT !.status = "REVOKED"]
  /\ UNCHANGED <<permission, profile, live, stale, changes, pc, job>>

\* Module Membership: promotion waits for the membership's row.
Promote ==
  /\ profile = "USER"
  /\ \A r \in Request : ~(Accepting(r) /\ pc[r] # "join")
  /\ profile' = "ADMINISTRATOR"
  /\ UNCHANGED <<permission, live, invitation, stale, changes, pc, job>>

\* Module Structure.
Deactivate ==
  /\ \E x \in live : live' = live \ {x}
  /\ UNCHANGED <<permission, profile, invitation, stale, changes, pc, job>>

\* The transaction is lost: its timeout, the end of its process, or the
\* database's choice among transactions that wait for each other.  After the
\* commit none is open (RevokeFails).
Lose(r) == pc[r] \notin {"idle", "revoke"} /\ Refuse(r)

Serve(r) ==
  \/ UpdateRead(r) \/ AcceptRead(r) \/ AcceptJoin(r) \/ Delete(r) \/ Deleted(r)
  \/ AcceptFilter(r) \/ UpdateCommit(r) \/ UpdateRevoke(r)
  \/ AcceptCommit(r)

Next ==
  \/ \E r \in Request :
       \/ RequestUpdate(r) \/ RequestAccept(r) \/ Serve(r)
       \/ Lose(r) \/ RevokeFails(r)
  \/ Invite \/ Revoke \/ Promote \/ Deactivate

Spec == Init /\ [][Next]_vars

---------------------------------------------------------------------------
(* Properties *)

\* The types; no capability twice; and an invitation that is being accepted
\* stays open until the acceptance commits.
TypeOK ==
  /\ permission \subseteq Row
  /\ \A x, y \in In("capability", permission) : x.what = y.what => x = y
  /\ profile \in {"USER", "ADMINISTRATOR"}
  /\ live \subseteq Company \cup Scope
  /\ invitation \in [status : {"NONE", "PENDING", "ACCEPTED", "REVOKED"},
                     repeats : BOOLEAN, want : Wanted]
  /\ stale \in Fate
  /\ changes \in 0..MaxChange
  /\ pc \in [Request -> Label]
  /\ job \in [Request -> Job]
  /\ \A r \in Request : Accepting(r) => invitation.status = "PENDING"

\* Permissions are reduced for good: what a member had when a change was
\* submitted is gone when it commits, even if it is granted anew, whichever
\* other changes come in between.
ReplacesWhatItFound ==
  [][permission' # permission =>
       \E r \in Request :
         pc[r] = "insert" /\ permission' \cap job[r].were = {}]_vars

\* SEC-07: "permission reduction immediately invalidates stale access"
\* (membership.service.ts 123-125): a session opened before an update committed
\* is about to be revoked by a running request, whichever of two that overlap
\* gets to it, unless a revocation failed or a process died before its own.
StaleSessionIsOwed ==
  stale = "OWED" => \E r \in Request : At(r, "update", "revoke")

GrantsOn(targets) ==
  {g \in invitation.want.grants : {g.company, g.scope} \cap targets # {}}

\* "always replace rather than merge with any stale prior grants"
\* (invitations.service.ts 432-434): once a former member has accepted, also
\* when an update is under way, the permissions are the invitation's, no more
\* and no less: its capabilities, none of its grants of which every target was
\* deactivated before the request came, and all of which a target is still
\* ACTIVE at the commit.  A grant of two targets counts as live while either is
\* (lines 288-290).
AcceptanceReplaces ==
  [][\A r \in Request :
       At(r, "accept", "insert") /\ permission' # permission =>
         /\ permission' = Inserted(r)
         /\ job[r].want.capabilities = invitation.want.capabilities
         /\ GrantsOn(live) \subseteq job[r].want.grants
         /\ job[r].want.grants \subseteq GrantsOn(job[r].targets)]_vars
=============================================================================
