----------------------------- MODULE MembersPage -----------------------------
(***************************************************************************)
(* The members of an Organization, their rights, the open invitations and  *)
(* the transfer of ownership, as an Administrator sees and changes them    *)
(* (apps/web/src/app/org/members/page.tsx).                                *)
(*                                                                         *)
(* Only the form of an invitation waits while it is sent, and it can be    *)
(* closed and opened again: actions overlap.  Every one of them ends with  *)
(* refresh, which reads its lists in parallel and shows them together.     *)
(* Companies and Business Scopes, of which the page changes nothing, are   *)
(* left out, as are the notices.  The API is as in Membership, Invitations *)
(* and Permissions, each request in one step.                              *)
(***************************************************************************)
EXTENDS PageRequests, Naturals, FiniteSets

CONSTANTS
  Member,
  Me,         \* whose page it is
  Invitation,
  Right,      \* capabilities and grants
  MaxChange,  \* bound: how many changes are ever made
  Opening     \* bound: what members and invitations there may be at first

\* Of the constants.
NothingIsNothing == Nothing \notin Member \cup Invitation \cup Flow
MeIsAMember == Me \in Member
Standing == {"none", "user", "suspended", "administrator", "owner"}
OpeningsAreOwned == \A opening \in Opening :
  /\ opening \in [standing : [Member -> Standing], invited : SUBSET Invitation]
  /\ opening.standing[Me] \in {"administrator", "owner"}
  /\ \E m \in Member : \A n \in Member : opening.standing[n] = "owner" <=> n = m
ViewsAreListed == View = {"members", "invitations", "transfer"}
ChangesAreCounted == MaxChange \in Nat

VARIABLES
  member, owner, invited, transfer,  \* memberships, which of them is the
                                     \* owner's, invitations, the open proposal
  changes,                           \* made so far
  isOwner,                           \* useOrg: as the layout found it
  members, invitations, pendingTransfer, transferSuccessor,
  edit,                              \* the member whose rights are edited, and
                                     \* the rights as edited
  given                              \* for a property only: the rights ever
                                     \* chosen for a member

rows == <<member, owner, invited, transfer, changes>>
lists == <<members, invitations, pendingTransfer>>
vars == <<requests, rows, isOwner, lists, transferSuccessor, edit,
          given>>

State == {"NONE", "ACTIVE", "SUSPENDED", "REMOVED"}
MemberRow == [state : State, profile : {"USER", "ADMINISTRATOR"},
              rights : SUBSET Right]
InvitationStatus == {"NONE", "PENDING", "ACCEPTED", "REVOKED"}
\* A proposal is known by the number of the change that made it.
Proposal == [number : 0..MaxChange, to : Member]
NoEdit == [member |-> Nothing, rights |-> {}]

Existing == {m \in Member : member[m].state # "NONE"}
Snapshot ==
  [members |-> [m \in Existing |-> [row |-> member[m], isOwner |-> owner = m]],
   invitations |-> invited,
   transfer |-> transfer]

Call == [op : {"list", "suspend", "reactivate", "remove", "promote", "save",
               "invite", "resend", "revoke", "propose", "cancel", "accept"},
         member : Member \cup {Nothing}, rights : SUBSET Right,
         invitation : Invitation \cup {Nothing}, number : 0..MaxChange]
NewCall(op) == [op |-> op, member |-> Nothing, rights |-> {},
                invitation |-> Nothing, number |-> 0]
OnMember(op, m) == [NewCall(op) EXCEPT !.member = m]

Row(standing) ==
  [rights |-> {},
   state |-> CASE standing = "none" -> "NONE"
               [] standing = "suspended" -> "SUSPENDED"
               [] OTHER -> "ACTIVE",
   profile |-> IF standing \in {"administrator", "owner"} THEN "ADMINISTRATOR"
               ELSE "USER"]

\* The page is opened: its first list is under way.
Init ==
  /\ \E opening \in Opening :
       /\ member = [m \in Member |-> Row(opening.standing[m])]
       /\ owner \in {m \in Member : opening.standing[m] = "owner"}
       /\ transfer \in {Nothing} \cup
            {[number |-> 0, to |-> m] :
               m \in {n \in Member : opening.standing[n] = "administrator"}}
       /\ invited = [i \in Invitation |->
            IF i \in opening.invited THEN "PENDING" ELSE "NONE"]
  /\ changes = 0
  /\ isOwner = (owner = Me)
  /\ members = <<>> /\ invitations = [i \in Invitation |-> "NONE"]
  /\ pendingTransfer = Nothing /\ transferSuccessor = Nothing
  /\ edit = NoEdit /\ given = [m \in Member |-> {}]
  /\ \E f \in Flow :
       flow = [g \in Flow |->
         IF g = f THEN Asked(NewCall("list"), View, {}) ELSE NoFlow]
  /\ unseen = {} /\ excused = {}

---------------------------------------------------------------------------
(* The editor of rights *)

Keep == UNCHANGED <<rows, isOwner, lists, transferSuccessor>>

\* Mutant: a row that is clicked while another is edited keeps the rights.
ClickKeepingRights == \E m \in DOMAIN members :
  /\ members[m].row.profile = "USER"
  /\ edit' = [member |-> m, rights |-> IF edit.member # Nothing THEN edit.rights
                                       ELSE members[m].row.rights]
  /\ Keep /\ UNCHANGED <<requests, given>>

\* A click on the row that is edited closes the editor.
Click == \E m \in DOMAIN members :
  /\ members[m].row.profile = "USER"
  /\ edit' = IF edit.member = m THEN NoEdit
             ELSE [member |-> m, rights |-> members[m].row.rights]
  /\ Keep /\ UNCHANGED <<requests, given>>

EditorShown == edit.member \in DOMAIN members

Toggle == \E r \in Right :
  /\ EditorShown
  /\ edit' = [edit EXCEPT !.rights = IF r \in @ THEN @ \ {r} ELSE @ \cup {r}]
  /\ given' = [given EXCEPT ![edit.member] = @ \cup {r}]
  /\ Keep /\ UNCHANGED requests

Cancel == EditorShown /\ edit' = NoEdit /\ Keep /\ UNCHANGED <<requests, given>>

---------------------------------------------------------------------------
(* runAction: an action, then refresh. *)

Still == Keep /\ UNCHANGED <<edit, given>>

Act(f, call, touches) == Ask(f, call, {}, touches) /\ Still

Save(f) ==
  /\ EditorShown
  /\ Act(f, [OnMember("save", edit.member) EXCEPT !.rights = edit.rights],
         {"members"})

\* The buttons of a row.
MemberAction(f) == \E m \in DOMAIN members :
  LET row == members[m].row IN
  \/ /\ row.profile = "USER" /\ row.state = "ACTIVE" /\ isOwner
     /\ Act(f, OnMember("promote", m), {"members"})
  \/ /\ ~members[m].isOwner
     /\ \/ row.state = "ACTIVE" /\ Act(f, OnMember("suspend", m), {"members"})
        \/ row.state = "SUSPENDED" /\ Act(f, OnMember("reactivate", m), {"members"})
        \/ row.state # "REMOVED" /\ Act(f, OnMember("remove", m), {"members"})

Invite(f) == Act(f, NewCall("invite"), {"invitations"})

InvitationAction(f) == \E i \in Invitation, op \in {"resend", "revoke"} :
  /\ invitations[i] = "PENDING"
  /\ Act(f, [NewCall(op) EXCEPT !.invitation = i], {"invitations"})

\* Only an active Administrator is on offer; a choice stays when the list
\* changes.
ChooseSuccessor == \E m \in DOMAIN members :
  /\ isOwner /\ pendingTransfer = Nothing
  /\ members[m].row.profile = "ADMINISTRATOR" /\ members[m].row.state = "ACTIVE"
  /\ ~members[m].isOwner
  /\ transferSuccessor' = m
  /\ UNCHANGED <<requests, rows, isOwner, lists, edit, given>>

TransferAction(f) ==
  \/ /\ isOwner /\ pendingTransfer = Nothing /\ transferSuccessor # Nothing
     /\ Act(f, OnMember("propose", transferSuccessor), {"transfer"})
  \/ /\ isOwner /\ pendingTransfer # Nothing
     /\ Act(f, [NewCall("cancel") EXCEPT !.number = pendingTransfer.number],
            {"transfer"})
  \/ /\ pendingTransfer # Nothing /\ pendingTransfer.to = Me
     /\ Act(f, [NewCall("accept") EXCEPT !.number = pendingTransfer.number],
            {"members", "transfer"})

\* Mutant: the lists are not read again.
ActedUnlisted(f) ==
  /\ flow[f].stage = "answered" /\ flow[f].call.op # "list"
  /\ End(f) /\ Still

Acted(f) ==
  /\ flow[f].stage = "answered" /\ flow[f].call.op # "list"
  /\ \/ flow[f].ok /\ Then(f, NewCall("list"), View)
     \/ ~flow[f].ok /\ End(f)
  /\ Still

Listed(f) ==
  /\ Comes(f, "list")
  /\ flow' = [flow EXCEPT ![f] = NoFlow]
  /\ \/ /\ flow[f].ok /\ Showing(f)
        /\ members' = flow[f].answer.members
        /\ invitations' = flow[f].answer.invitations
        /\ pendingTransfer' = flow[f].answer.transfer
     \/ ~flow[f].ok /\ NotShowing(f) /\ UNCHANGED lists
  /\ UNCHANGED <<rows, isOwner, transferSuccessor, edit, given>>

---------------------------------------------------------------------------
(* The API, and others. *)

Counted == changes < MaxChange /\ changes' = changes + 1

\* What an operation does to memberships.
Becomes(m, row) ==
  /\ member' = [member EXCEPT ![m] = row]
  /\ UNCHANGED <<owner, invited, transfer>>
SetMember(op, m, rights) ==
  LET row == member[m] IN
  \/ /\ op = "suspend" /\ row.state = "ACTIVE" /\ owner # m
     /\ Becomes(m, [row EXCEPT !.state = "SUSPENDED"])
  \/ /\ op = "reactivate" /\ row.state = "SUSPENDED"
     /\ Becomes(m, [row EXCEPT !.state = "ACTIVE"])
  \/ /\ op = "remove" /\ row.state \in {"ACTIVE", "SUSPENDED"} /\ owner # m
     /\ Becomes(m, [row EXCEPT !.state = "REMOVED"])
  \/ /\ op = "promote" /\ row.state = "ACTIVE" /\ row.profile = "USER"
     /\ Becomes(m, [row EXCEPT !.profile = "ADMINISTRATOR"])
  \/ /\ op = "save" /\ row.profile = "USER"
     /\ Becomes(m, [row EXCEPT !.rights = rights])

SetInvitation(op, i) ==
  /\ \/ /\ op = "invite" /\ invited[i] = "NONE"
        /\ invited' = [invited EXCEPT ![i] = "PENDING"]
     \/ op = "resend" /\ invited[i] = "PENDING" /\ UNCHANGED invited
     \/ /\ op = "revoke" /\ invited[i] = "PENDING"
        /\ invited' = [invited EXCEPT ![i] = "REVOKED"]
  /\ UNCHANGED <<member, owner, transfer>>

SetTransfer(op, m, number) ==
  \/ /\ op = "propose" /\ owner = Me /\ transfer = Nothing
     /\ member[m].profile = "ADMINISTRATOR" /\ member[m].state = "ACTIVE"
     /\ transfer' = [number |-> changes', to |-> m]
     /\ UNCHANGED <<member, owner, invited>>
  \/ /\ op = "cancel" /\ owner = Me
     /\ transfer # Nothing /\ transfer.number = number
     /\ transfer' = Nothing
     /\ UNCHANGED <<member, owner, invited>>
  \/ /\ op = "accept" /\ transfer # Nothing
     /\ transfer.number = number /\ transfer.to = Me
     /\ owner' = Me /\ transfer' = Nothing
     /\ UNCHANGED <<member, invited>>

ServeAction(f) ==
  LET call == flow[f].call IN
  /\ flow[f].stage = "asked" /\ call.op # "list"
  /\ \/ Refuse(f) /\ UNCHANGED rows
     \/ /\ Counted
        /\ \/ call.member # Nothing /\ SetMember(call.op, call.member, call.rights)
           \/ call.op = "invite" /\ \E i \in Invitation : SetInvitation("invite", i)
           \/ call.invitation # Nothing /\ SetInvitation(call.op, call.invitation)
           \/ SetTransfer(call.op, call.member, call.number)
        /\ Change(f, Nothing)
  /\ UNCHANGED <<isOwner, lists, transferSuccessor, edit, given>>

\* One of the lists is read; a list that fails fails them all.
ServeList(f) ==
  /\ Waits(f, "list")
  /\ \/ Refuse(f)
     \/ \E v \in View \ flow[f].read :
          LET got == flow[f].answer
              read == flow[f].read \cup {v} IN
          /\ flow' = [flow EXCEPT
               ![f].answer = [w \in read |-> IF w = v THEN Snapshot[v] ELSE got[w]],
               ![f].read = read,
               ![f].ok = (read = View),
               ![f].stage = IF read = View THEN "answered" ELSE "asked"]
          /\ UNCHANGED <<unseen, excused>>
  /\ Still

LoseAnswer(f) == Drop(f) /\ Still

\* Another Administrator, the owner, an invited person, a proposed successor;
\* or Me in another tab.
OnMembers == \E m \in Existing :
  \/ /\ \E op \in {"suspend", "reactivate", "remove", "promote"} :
          SetMember(op, m, {})
     /\ UNCHANGED given
  \/ \E rights \in SUBSET Right :
       /\ SetMember("save", m, rights)
       /\ given' = [given EXCEPT ![m] = @ \cup rights]

OnInvitations == \E i \in Invitation :
  \/ \E op \in {"invite", "resend", "revoke"} : SetInvitation(op, i)
  \/ \E m \in Member \ Existing :
       /\ invited[i] = "PENDING"
       /\ invited' = [invited EXCEPT ![i] = "ACCEPTED"]
       /\ member' = [member EXCEPT ![m].state = "ACTIVE"]
       /\ UNCHANGED <<owner, transfer>>

OnTransfer ==
  \/ /\ transfer # Nothing /\ transfer' = Nothing
     /\ owner' = transfer.to \/ (owner # Me /\ UNCHANGED owner)
     /\ UNCHANGED <<member, invited>>
  \/ /\ transfer = Nothing /\ owner # Me
     /\ transfer' = [number |-> changes', to |-> Me]
     /\ UNCHANGED <<member, owner, invited>>

Others ==
  /\ Counted
  /\ OnMembers \/ ((OnInvitations \/ OnTransfer) /\ UNCHANGED given)
  /\ UNCHANGED <<requests, isOwner, lists, transferSuccessor, edit>>

Next ==
  \/ \E f \in Flow :
       \/ Save(f) \/ MemberAction(f) \/ Invite(f) \/ InvitationAction(f)
       \/ TransferAction(f) \/ Acted(f) \/ Listed(f)
       \/ ServeAction(f) \/ ServeList(f) \/ LoseAnswer(f)
  \/ Click \/ Toggle \/ Cancel \/ ChooseSuccessor \/ Others

Spec == Init /\ [][Next]_vars

---------------------------------------------------------------------------
(* Properties *)

\* The types.
TypeOK ==
  /\ member \in [Member -> MemberRow]
  /\ owner \in Member
  /\ invited \in [Invitation -> InvitationStatus]
  /\ {transfer, pendingTransfer} \subseteq Proposal \cup {Nothing}
  /\ changes \in 0..MaxChange
  /\ isOwner \in BOOLEAN
  /\ DOMAIN members \subseteq Member
  /\ \A m \in DOMAIN members : members[m] \in [row : MemberRow, isOwner : BOOLEAN]
  /\ invitations \in [Invitation -> InvitationStatus]
  /\ transferSuccessor \in Member \cup {Nothing}
  /\ edit \in [member : Member \cup {Nothing}, rights : SUBSET Right]
  /\ given \in [Member -> SUBSET Right]
  /\ \A f \in Flow : flow[f] # NoFlow => flow[f].call \in Call

\* The editor keeps one set of rights for all rows, across lists that come and
\* saves that fail: still no member gets, or is about to get, a right that no
\* Administrator ever chose for that member.
RightsBelongToTheirMember ==
  /\ \A m \in Member : member[m].rights \subseteq given[m]
  /\ edit.member # Nothing => edit.rights \subseteq given[edit.member]
  /\ \A f \in Flow :
       LET call == flow[f].call IN
       flow[f] # NoFlow /\ call.op = "save" =>
         call.rights \subseteq given[call.member]
=============================================================================
