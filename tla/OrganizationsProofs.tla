------------------------ MODULE OrganizationsProofs ------------------------
(***************************************************************************)
(* Theorems about Organizations, for all sets of Organizations, names,     *)
(* addresses, commercial statuses and concurrent requests.                 *)
(***************************************************************************)
EXTENDS Organizations, TLAPS

\* What the constants are.
Constants == NothingIsNothing /\ DemoIsCommercial

---------------------------------------------------------------------------
(* The inductive invariant: what each statement of a request may rely on.  *)

\* Who there is, as TypeOK has it.
PeopleTyped ==
  /\ identity \in [Email -> Identity]
  /\ member \in [Org -> [Email -> MemberState]]
  /\ owner \in [Org -> Email \cup {Nothing}]
  /\ session \in [Email -> SessionState]

LocksExclusive ==
  \A r, q \in Request : r # q => locks[r] \cap locks[q] = {}

\* An invitation is an Organization's and somebody's.
InvitationsAreWhole ==
  \A o \in Invited : o \in Created /\ invitation[o].email \in Email

Transitions ==
  {[from |-> {"ACTIVE"}, to |-> "SUSPENDED"],
   [from |-> {"SUSPENDED"}, to |-> "ACTIVE"],
   [from |-> {"ACTIVE", "SUSPENDED"}, to |-> "DISABLED"]}

\* What a request is about, and which statements its operation has.
JobIsWhole(r) ==
  LET j == job[r] IN
  /\ j.op \in {"create", "register"} => j.name \in Name /\ j.email \in Email
  /\ j.op \in {"transition", "commercial"} => j.org \in Org
  /\ j.op = "transition" => \E t \in Transitions : j.from = t.from /\ j.to = t.to
  /\ j.op \in {"accept", "acceptExisting"} =>
       j.org \in Created \cap Invited /\ j.email \in Email
  /\ pc[r] = "invite" => j.op = "create" /\ j.org \in Created
  /\ pc[r] = "list" => j.op = "transition"

\* The row a transition has locked keeps the status that it found there.
RowIsHeld(r) ==
  /\ pc[r] = "commit" /\ job[r].op \in {"transition", "commercial"} =>
       locks[r] = {job[r].org} /\ job[r].org \in Created
  /\ ~(pc[r] = "commit" /\ job[r].op \in {"transition", "commercial"}) =>
       locks[r] = {}
  /\ At(r, "transition", "commit") =>
       /\ org[job[r].org].access \in job[r].from
       /\ org[job[r].org].access = job[r].before

Knows(r) == JobIsWhole(r) /\ RowIsHeld(r)

IInv ==
  /\ TypeOK /\ LocksExclusive /\ InvitationsAreWhole
  /\ \A r \in Request : Knows(r)

\* An idle request has a job of the right type, and names nothing.
LEMMA NoJobType ==
  ASSUME Constants
  PROVE  NoJob \in Job /\ NoJob.op = "none"
  BY DEF NoJob, Job, Operation, Access, Constants, DemoIsCommercial

\* IInv holds at the start.
LEMMA InitIInv == ASSUME Constants, Init PROVE IInv
  <1>1. TypeOK
    <2>1. [access |-> "NONE", commercial |-> "DEMO", name |-> Nothing] \in OrgRow
      BY DEF OrgRow, Access, Constants, DemoIsCommercial
    <2>2. [status |-> "NONE", expired |-> FALSE, email |-> Nothing]
            \in InvitationRow
      BY DEF InvitationRow
    <2>3. PeopleTyped
      BY DEF Init, PeopleTyped, Identity, MemberState, SessionState
    <2>4. Created = {}
      BY DEF Init, Created
    <2> QED BY <2>1, <2>2, <2>3, <2>4, NoJobType
        DEF Init, TypeOK, PeopleTyped, Label
  <1>2. Invited = {}
    BY DEF Init, Invited
  <1>3. \A r \in Request : pc[r] = "idle" /\ job[r] = NoJob /\ locks[r] = {}
    BY DEF Init
  <1>4. LocksExclusive /\ InvitationsAreWhole /\ \A r \in Request : Knows(r)
    BY <1>2, <1>3, NoJobType
    DEF LocksExclusive, InvitationsAreWhole, Knows, JobIsWhole, RowIsHeld, At
  <1> QED BY <1>1, <1>4 DEF IInv

---------------------------------------------------------------------------
(* What a step of one request leaves to the others. *)

\* Organizations and their invitations stay, and an Organization that another
\* request has locked keeps its status.
Leaves(q) ==
  /\ Created \subseteq Created' /\ Invited \subseteq Invited'
  /\ \A o \in locks[q] : org'[o].access = org[o].access

\* What a request knows stays true while others write: they leave it the rows
\* it relies on.
LEMMA OthersKnow ==
  ASSUME IInv, NEW q \in Request, Leaves(q),
         locks'[q] = locks[q], pc'[q] = pc[q], job'[q] = job[q]
  PROVE  Knows(q)'
  <1>1. Knows(q)
    BY DEF IInv
  <1>2. JobIsWhole(q)'
    BY <1>1 DEF Knows, JobIsWhole, Leaves
  <1>3. RowIsHeld(q)'
    BY <1>1 DEF Knows, RowIsHeld, Leaves, At
  <1> QED BY <1>2, <1>3 DEF Knows

---------------------------------------------------------------------------
(* The steps: a request is admitted, goes on or is answered.               *)

\* "label" and "j" are where the request is then and its bookkeeping, "mine"
\* the locks it holds.  Whatever it writes, it leaves to the others what they
\* know.
LEMMA StepKeeps ==
  ASSUME IInv, NEW r \in Request, NEW label \in Label, NEW j \in Job, NEW mine,
         pc' = [pc EXCEPT ![r] = label], job' = [job EXCEPT ![r] = j],
         locks' = [locks EXCEPT ![r] = mine], mine \subseteq Org,
         \A q \in Request \ {r} : mine \cap locks[q] = {} /\ Leaves(q),
         org' \in [Org -> OrgRow], invitation' \in [Org -> InvitationRow],
         PeopleTyped', lost' \subseteq Org,
         (\A o, p \in Created : org[o].name = org[p].name => o = p)',
         InvitationsAreWhole', JobIsWhole(r)', RowIsHeld(r)'
  PROVE  IInv'
  <1>1. TypeOK /\ LocksExclusive
    BY DEF IInv
  <1>2. /\ pc'[r] = label /\ job'[r] = j /\ locks'[r] = mine
        /\ \A q \in Request \ {r} :
             pc'[q] = pc[q] /\ job'[q] = job[q] /\ locks'[q] = locks[q]
        /\ pc' \in [Request -> Label] /\ job' \in [Request -> Job]
        /\ locks' \in [Request -> SUBSET Org]
    BY <1>1 DEF TypeOK
  <1>3. TypeOK'
    BY <1>2 DEF TypeOK, PeopleTyped
  <1>4. LocksExclusive'
    BY <1>1, <1>2 DEF LocksExclusive
  <1>5. \A q \in Request \ {r} : Knows(q)'
    BY <1>2, OthersKnow
  <1> QED BY <1>3, <1>4, <1>5 DEF IInv, Knows

\* A step that writes no row.
LEMMA QuietStepKeeps ==
  ASSUME IInv, NEW r \in Request, NEW label \in Label, NEW j \in Job, NEW mine,
         pc' = [pc EXCEPT ![r] = label], job' = [job EXCEPT ![r] = j],
         locks' = [locks EXCEPT ![r] = mine], mine \subseteq Org,
         \A q \in Request \ {r} : mine \cap locks[q] = {},
         UNCHANGED rows, lost' \subseteq Org, JobIsWhole(r)', RowIsHeld(r)'
  PROVE  IInv'
  <1>1. TypeOK /\ InvitationsAreWhole
    BY DEF IInv
  <1>2. /\ UNCHANGED <<org, invitation, identity, member, owner, session>>
        /\ Created' = Created /\ Invited' = Invited
    BY DEF rows, Created, Invited
  <1>3. /\ org' \in [Org -> OrgRow] /\ invitation' \in [Org -> InvitationRow]
        /\ PeopleTyped'
    BY <1>1, <1>2 DEF TypeOK, PeopleTyped
  <1>4. (\A o, p \in Created : org[o].name = org[p].name => o = p)'
    BY <1>1, <1>2 DEF TypeOK
  <1>5. InvitationsAreWhole'
    BY <1>1, <1>2 DEF InvitationsAreWhole
  <1>6. \A q \in Request \ {r} : mine \cap locks[q] = {} /\ Leaves(q)
    BY <1>2 DEF Leaves
  <1> QED BY <1>3, <1>4, <1>5, <1>6, StepKeeps

\* A request that is answered leaves rows that are right, and no lock.
LEMMA AnswerKeeps ==
  ASSUME Constants, IInv, NEW r \in Request, Answer(r),
         \A q \in Request \ {r} : Leaves(q),
         org' \in [Org -> OrgRow], invitation' \in [Org -> InvitationRow],
         PeopleTyped', lost' \subseteq Org,
         (\A o, p \in Created : org[o].name = org[p].name => o = p)',
         InvitationsAreWhole'
  PROVE  IInv'
  <1> DEFINE mine == {}
  <1>1. /\ pc' = [pc EXCEPT ![r] = "idle"] /\ job' = [job EXCEPT ![r] = NoJob]
        /\ locks' = [locks EXCEPT ![r] = mine]
        /\ mine \subseteq Org /\ \A q \in Request \ {r} : mine \cap locks[q] = {}
    BY DEF Answer
  <1>2. "idle" \in Label /\ NoJob \in Job
    BY NoJobType DEF Label
  <1>3. pc'[r] = "idle" /\ job'[r] = NoJob /\ locks'[r] = {}
    BY <1>1 DEF IInv, TypeOK
  <1>4. JobIsWhole(r)' /\ RowIsHeld(r)'
    BY <1>3, NoJobType DEF JobIsWhole, RowIsHeld, At
  <1> HIDE DEF mine
  <1> QED BY <1>1, <1>2, <1>4, StepKeeps

\* A refused request rolls back: rows stay, and its locks are released.
LEMMA RefuseKeeps ==
  ASSUME Constants, IInv, NEW r \in Request, Refuse(r), lost' \subseteq Org
  PROVE  IInv'
  <1> DEFINE mine == {}
  <1>1. /\ pc' = [pc EXCEPT ![r] = "idle"] /\ job' = [job EXCEPT ![r] = NoJob]
        /\ locks' = [locks EXCEPT ![r] = mine] /\ UNCHANGED rows
        /\ mine \subseteq Org /\ \A q \in Request \ {r} : mine \cap locks[q] = {}
    BY DEF Refuse, Answer
  <1>2. "idle" \in Label /\ NoJob \in Job
    BY NoJobType DEF Label
  <1>3. pc'[r] = "idle" /\ job'[r] = NoJob /\ locks'[r] = {}
    BY <1>1 DEF IInv, TypeOK
  <1>4. JobIsWhole(r)' /\ RowIsHeld(r)'
    BY <1>3, NoJobType DEF JobIsWhole, RowIsHeld, At
  <1> HIDE DEF mine
  <1> QED BY <1>1, <1>2, <1>4, QuietStepKeeps

\* The request changes neither rows nor locks, and holds none.
LEMMA MoveKeeps ==
  ASSUME IInv, NEW r \in Request, NEW label \in Label, NEW j \in Job,
         pc' = [pc EXCEPT ![r] = label], job' = [job EXCEPT ![r] = j],
         UNCHANGED <<rows, locks, lost>>, locks[r] = {}, JobIsWhole(r)',
         label = "commit" => j.op \notin {"transition", "commercial"}
  PROVE  IInv'
  <1> DEFINE mine == locks[r]
  <1>1. TypeOK
    BY DEF IInv
  <1>2. /\ locks' = [locks EXCEPT ![r] = mine] /\ mine \subseteq Org
        /\ \A q \in Request \ {r} : mine \cap locks[q] = {}
    BY <1>1 DEF TypeOK
  <1>3. UNCHANGED rows /\ lost' \subseteq Org
    BY <1>1 DEF TypeOK
  <1>4. pc'[r] = label /\ job'[r] = j /\ locks'[r] = {}
    BY <1>1 DEF TypeOK
  <1>5. RowIsHeld(r)'
    BY <1>4 DEF RowIsHeld, At
  <1> HIDE DEF mine
  <1> QED BY <1>2, <1>3, <1>5, QuietStepKeeps

---------------------------------------------------------------------------
(* Every action *)

\* A request enters with what the route lets it name.
LEMMA AdmitKeeps ==
  ASSUME IInv, NEW r \in Request, NEW j \in Job,
         NEW label \in {"check", "identity", "lock"}, Admit(r, j, label),
         UNCHANGED lost,
         j.op \in {"create", "register"} => j.name \in Name /\ j.email \in Email,
         j.op \in {"transition", "commercial"} => j.org \in Org,
         j.op = "transition" => \E t \in Transitions : j.from = t.from /\ j.to = t.to,
         j.op \in {"accept", "acceptExisting"} =>
           j.org \in Created \cap Invited /\ j.email \in Email
  PROVE  IInv'
  <1>1. TypeOK /\ Knows(r) /\ pc[r] = "idle"
    BY DEF IInv, Admit
  <1>2. locks[r] = {} /\ label \in Label
    BY <1>1 DEF Knows, RowIsHeld, Label
  <1>3. /\ pc' = [pc EXCEPT ![r] = label] /\ job' = [job EXCEPT ![r] = j]
        /\ UNCHANGED <<rows, locks, lost>>
    BY DEF Admit
  <1>4. pc'[r] = label /\ job'[r] = j
        /\ Created' = Created /\ Invited' = Invited
    BY <1>1, <1>3 DEF TypeOK, rows, Created, Invited
  <1>5. JobIsWhole(r)'
    BY <1>4 DEF JobIsWhole
  <1> QED BY <1>2, <1>3, <1>5, MoveKeeps

\* A member's suspension is its own and the sessions' affair.
LEMMA SuspendMemberKeeps ==
  ASSUME Constants, IInv, NEW r \in Request, SuspendMember(r), UNCHANGED lost
  PROVE  IInv'
  <1>1. TypeOK /\ Knows(r) /\ InvitationsAreWhole /\ lost' \subseteq Org
    BY DEF IInv, TypeOK
  <1>2. PICK o \in Org, e \in Email :
          /\ member' = [member EXCEPT ![o][e] = "INACTIVE"]
          /\ session' = [session EXCEPT ![e] = IF @ = "NONE" THEN @ ELSE "STALE"]
          /\ job' = [job EXCEPT ![r] =
                       [NoJob EXCEPT !.op = "member", !.revoke = {e}]]
          /\ pc[r] = "idle" /\ pc' = [pc EXCEPT ![r] = "revoke"]
          /\ UNCHANGED <<org, invitation, identity, owner, locks>>
    BY DEF SuspendMember, Active, Goto
  <1> DEFINE j == [NoJob EXCEPT !.op = "member", !.revoke = {e}]
             mine == locks[r]
  <1>3. j \in Job /\ j.op = "member" /\ "revoke" \in Label
    BY NoJobType DEF NoJob, Job, Operation, Label
  <1>4. mine = {}
    BY <1>1, <1>2 DEF Knows, RowIsHeld
  <1>5. locks' = [locks EXCEPT ![r] = mine] /\ job' = [job EXCEPT ![r] = j]
    BY <1>1, <1>2 DEF TypeOK
  <1> HIDE DEF j, mine
  <1>6. pc'[r] = "revoke" /\ job'[r] = j /\ locks'[r] = {}
    BY <1>1, <1>2, <1>4, <1>5 DEF TypeOK
  <1>7. JobIsWhole(r)' /\ RowIsHeld(r)'
    BY <1>3, <1>6 DEF JobIsWhole, RowIsHeld, At
  <1>8. Created' = Created /\ Invited' = Invited
    BY <1>2 DEF Created, Invited
  <1>9. PeopleTyped'
    BY <1>1, <1>2 DEF TypeOK, PeopleTyped, MemberState, SessionState
  <1>10. /\ org' \in [Org -> OrgRow] /\ invitation' \in [Org -> InvitationRow]
         /\ (\A p, q \in Created : org[p].name = org[q].name => p = q)'
         /\ InvitationsAreWhole'
    BY <1>1, <1>2, <1>8 DEF TypeOK, InvitationsAreWhole
  <1>11. \A q \in Request \ {r} : mine \cap locks[q] = {} /\ Leaves(q)
    BY <1>2, <1>4, <1>8 DEF Leaves
  <1> QED BY <1>1, <1>2, <1>3, <1>4, <1>5, <1>7, <1>9, <1>10, <1>11, StepKeeps

\* A request that arrives knows nothing yet that could turn false.
LEMMA ArriveKeeps ==
  ASSUME Constants, IInv, NEW r \in Request, Arrive(r), UNCHANGED lost
  PROVE  IInv'
  <1>1. CASE RequestCreate(r)
    <2>1. PICK n \in Name, e \in Email :
            Admit(r, [NoJob EXCEPT !.op = "create", !.name = n, !.email = e], "check")
      BY <1>1 DEF RequestCreate
    <2> DEFINE j == [NoJob EXCEPT !.op = "create", !.name = n, !.email = e]
    <2>2. j \in Job /\ j.op = "create" /\ j.name = n /\ j.email = e
      BY NoJobType DEF NoJob, Job, Operation
    <2> HIDE DEF j
    <2> QED BY <2>1, <2>2, AdmitKeeps DEF j
  <1>2. CASE RequestRegister(r)
    <2>1. PICK n \in Name, e \in Email :
            Admit(r, [NoJob EXCEPT !.op = "register", !.name = n, !.email = e],
                  "identity")
      BY <1>2 DEF RequestRegister
    <2> DEFINE j == [NoJob EXCEPT !.op = "register", !.name = n, !.email = e]
    <2>2. j \in Job /\ j.op = "register" /\ j.name = n /\ j.email = e
      BY NoJobType DEF NoJob, Job, Operation
    <2> HIDE DEF j
    <2> QED BY <2>1, <2>2, AdmitKeeps DEF j
  <1>3. CASE RequestTransition(r)
    <2>1. PICK o \in Org, t \in Transitions :
            Admit(r, [NoJob EXCEPT !.op = "transition", !.org = o,
                                   !.from = t.from, !.to = t.to], "lock")
      BY <1>3 DEF RequestTransition, Transitions
    <2>2. t.from \subseteq Access /\ t.to \in Access
      BY DEF Transitions, Access
    <2> DEFINE j == [NoJob EXCEPT !.op = "transition", !.org = o,
                                  !.from = t.from, !.to = t.to]
    <2>3. /\ j \in Job /\ j.op = "transition" /\ j.org = o
          /\ j.from = t.from /\ j.to = t.to
      BY <2>2, NoJobType DEF NoJob, Job, Operation
    <2> HIDE DEF j
    <2> QED BY <2>1, <2>3, AdmitKeeps DEF j
  <1>4. CASE RequestCommercial(r)
    <2>1. PICK o \in Org, c \in CommercialStatus :
            Admit(r, [NoJob EXCEPT !.op = "commercial", !.org = o,
                                   !.commercial = c], "lock")
      BY <1>4 DEF RequestCommercial
    <2> DEFINE j == [NoJob EXCEPT !.op = "commercial", !.org = o,
                                  !.commercial = c]
    <2>2. j \in Job /\ j.op = "commercial" /\ j.org = o
      BY NoJobType DEF NoJob, Job, Operation
    <2> HIDE DEF j
    <2> QED BY <2>1, <2>2, AdmitKeeps DEF j
  <1>5. CASE RequestAccept(r)
    <2>1. PICK o \in Invited, op \in {"accept", "acceptExisting"} :
            Admit(r, [NoJob EXCEPT !.op = op, !.org = o,
                                   !.email = invitation[o].email], "lock")
      BY <1>5 DEF RequestAccept
    <2> DEFINE e == invitation[o].email
               j == [NoJob EXCEPT !.op = op, !.org = o, !.email = e]
    <2>2. o \in Created \cap Invited /\ o \in Org /\ e \in Email
      BY DEF IInv, InvitationsAreWhole, Invited
    <2> HIDE DEF e
    <2>3. j \in Job /\ j.op = op /\ j.org = o /\ j.email = e
      BY <2>2, NoJobType DEF NoJob, Job, Operation
    <2>4. Admit(r, j, "lock")
      BY <2>1 DEF e
    <2> HIDE DEF j
    <2> QED BY <2>2, <2>3, <2>4, AdmitKeeps
  <1>6. CASE SuspendMember(r)
    BY <1>6, SuspendMemberKeeps
  <1> QED BY <1>1, <1>2, <1>3, <1>4, <1>5, <1>6 DEF Arrive

\* A statement that writes nothing changes no row.
LEMMA ProceedKeeps ==
  ASSUME IInv, NEW r \in Request, NEW label \in Label \ {"invite", "list", "revoke"},
         Proceed(r, label), UNCHANGED lost, pc[r] # "commit",
         label = "commit" => job[r].op \notin {"transition", "commercial"}
  PROVE  IInv'
  <1> DEFINE j == job[r]
  <1>1. TypeOK /\ Knows(r) /\ j \in Job
    BY DEF IInv, TypeOK
  <1>2. locks[r] = {}
    BY <1>1 DEF Knows, RowIsHeld
  <1>3. /\ pc' = [pc EXCEPT ![r] = label] /\ job' = [job EXCEPT ![r] = j]
        /\ UNCHANGED <<rows, locks, lost>>
    BY <1>1 DEF Proceed, Goto, TypeOK
  <1>4. pc'[r] = label /\ job'[r] = job[r]
        /\ Created' = Created /\ Invited' = Invited
    BY <1>1, <1>3 DEF TypeOK, rows, Created, Invited
  <1>5. JobIsWhole(r)'
    BY <1>1, <1>4 DEF Knows, JobIsWhole
  <1>6. label = "commit" => j.op \notin {"transition", "commercial"}
    OBVIOUS
  <1> HIDE DEF j
  <1> QED BY <1>1, <1>2, <1>3, <1>5, <1>6, MoveKeeps

\* The checks of create, register and accept change no row.
LEMMA ChecksKeep ==
  ASSUME Constants, IInv, NEW r \in Request, UNCHANGED lost,
         \/ CreateCheck(r) \/ RegisterIdentity(r) \/ RegisterCheck(r)
         \/ AcceptLock(r) \/ AcceptRead(r)
  PROVE  IInv'
  <1>1. lost' \subseteq Org
    BY DEF IInv, TypeOK
  <1>2. CASE Refuse(r)
    BY <1>1, <1>2, RefuseKeeps
  <1>3. CASE ~Refuse(r)
    <2>1. PICK label \in {"insert", "check", "read", "commit"} :
            /\ Proceed(r, label) /\ pc[r] \in {"check", "identity", "lock", "read"}
            /\ job[r].op \in {"create", "register", "accept", "acceptExisting"}
      BY <1>3 DEF CreateCheck, RegisterIdentity, RegisterCheck, AcceptLock,
         AcceptRead, NameCheck, At, Accepting
    <2>2. label \in Label \ {"invite", "list", "revoke"}
      BY DEF Label
    <2>3. /\ pc[r] # "commit"
          /\ label = "commit" => job[r].op \notin {"transition", "commercial"}
      BY <2>1
    <2> QED BY <2>1, <2>2, <2>3, ProceedKeeps
  <1> QED BY <1>2, <1>3

\* What the INSERT of an Organization writes, under the unique name.
LEMMA NewOrgWrites ==
  ASSUME Constants, TypeOK, NEW o \in Org \ Created, NEW n \in Name,
         NEW access \in Access \ {"NONE"}, NewOrg(o, n, access), ~NameTaken(n)
  PROVE  /\ org' \in [Org -> OrgRow]
         /\ Created' = Created \cup {o}
         /\ org'[o].access = access
         /\ \A p \in Org \ {o} : org'[p] = org[p]
         /\ (\A p, q \in Created : org[p].name = org[q].name => p = q)'
  <1> DEFINE new == [access |-> access, commercial |-> "DEMO", name |-> n]
  <1>1. new \in OrgRow /\ new.access = access /\ new.name = n
    BY DEF OrgRow, Constants, DemoIsCommercial
  <1>2. org' = [org EXCEPT ![o] = new]
    BY DEF NewOrg
  <1> HIDE DEF new
  <1>3. /\ org' \in [Org -> OrgRow] /\ org'[o] = new
        /\ \A p \in Org \ {o} : org'[p] = org[p]
    BY <1>1, <1>2 DEF TypeOK
  <1>4. Created' = Created \cup {o}
    BY <1>1, <1>3 DEF Created
  <1>5. (\A p, q \in Created : org[p].name = org[q].name => p = q)'
    BY <1>1, <1>3, <1>4 DEF TypeOK, NameTaken, Created
  <1> QED BY <1>1, <1>3, <1>4, <1>5

\* Nobody has locked an Organization that is not there.
LEMMA LockedAreCreated ==
  ASSUME IInv, NEW q \in Request
  PROVE  locks[q] \subseteq Created
  BY DEF IInv, Knows, RowIsHeld

\* INSERT of an Organization finds its name free by the unique index.
LEMMA CreateInsertKeeps ==
  ASSUME Constants, IInv, NEW r \in Request, CreateInsert(r), UNCHANGED lost
  PROVE  IInv'
  <1>1. TypeOK /\ Knows(r) /\ InvitationsAreWhole /\ lost' \subseteq Org
    BY DEF IInv, TypeOK
  <1>2. CASE Refuse(r)
    BY <1>1, <1>2, RefuseKeeps
  <1>3. CASE ~Refuse(r)
    <2>1. PICK o \in Org \ Created :
            /\ NewOrg(o, job[r].name, "PROVISIONING") /\ ~NameTaken(job[r].name)
            /\ job' = [job EXCEPT ![r].org = o] /\ Goto(r, "invite")
            /\ UNCHANGED <<invitation, identity, member, owner, session, locks>>
      BY <1>3 DEF CreateInsert
    <2> DEFINE j == [job[r] EXCEPT !.org = o]
               mine == locks[r]
    <2>2. job[r] \in Job /\ job[r].op = "create" /\ pc[r] = "insert"
      BY <1>1 DEF CreateInsert, At, TypeOK
    <2>3. job[r].name \in Name /\ job[r].email \in Email /\ mine = {}
      BY <1>1, <2>2 DEF Knows, JobIsWhole, RowIsHeld
    <2>4. /\ j \in Job /\ j.op = "create" /\ j.org = o
          /\ j.name = job[r].name /\ j.email = job[r].email
      BY <2>2 DEF Job
    <2>5. "PROVISIONING" \in Access \ {"NONE"} /\ "invite" \in Label
      BY DEF Access, Label
    <2>6. /\ org' \in [Org -> OrgRow] /\ Created' = Created \cup {o}
          /\ \A p \in Org \ {o} : org'[p] = org[p]
          /\ (\A p, q \in Created : org[p].name = org[q].name => p = q)'
      BY <1>1, <2>1, <2>3, <2>5, NewOrgWrites
    <2>7. /\ pc' = [pc EXCEPT ![r] = "invite"] /\ job' = [job EXCEPT ![r] = j]
          /\ locks' = [locks EXCEPT ![r] = mine]
      BY <1>1, <2>1 DEF Goto, TypeOK
    <2> HIDE DEF j, mine
    <2>8. pc'[r] = "invite" /\ job'[r] = j /\ locks'[r] = {}
      BY <1>1, <2>3, <2>7 DEF TypeOK
    <2>9. JobIsWhole(r)' /\ RowIsHeld(r)'
      BY <2>3, <2>4, <2>6, <2>8 DEF JobIsWhole, RowIsHeld, At
    <2>10. /\ mine \subseteq Org
           /\ \A q \in Request \ {r} : mine \cap locks[q] = {} /\ Leaves(q)
      BY <1>1, <2>3, <2>6, <2>1, LockedAreCreated DEF Leaves, Invited, TypeOK
    <2>11. InvitationsAreWhole'
      BY <1>1, <2>1, <2>6 DEF InvitationsAreWhole, Invited
    <2>12. /\ invitation' \in [Org -> InvitationRow]
           /\ PeopleTyped'
      BY <1>1, <2>1 DEF TypeOK, PeopleTyped
    <2> QED BY <1>1, <2>4, <2>5, <2>6, <2>7, <2>9, <2>10, <2>11, <2>12, StepKeeps
  <1> QED BY <1>2, <1>3

\* The second transaction of create invites the owner.
LEMMA CreateInviteKeeps ==
  ASSUME Constants, IInv, NEW r \in Request, CreateInvite(r), UNCHANGED lost
  PROVE  IInv'
  <1> DEFINE o == job[r].org
             new == [status |-> "PENDING", expired |-> FALSE, email |-> job[r].email]
  <1>1. TypeOK /\ Knows(r) /\ InvitationsAreWhole /\ lost' \subseteq Org
    BY DEF IInv, TypeOK
  <1>2. o \in Created /\ o \in Org /\ job[r].email \in Email
    BY <1>1 DEF CreateInvite, At, Knows, JobIsWhole, Created
  <1>3. /\ new \in InvitationRow /\ new.email = job[r].email
        /\ new.status = "PENDING"
    BY <1>2 DEF InvitationRow
  <1>4. /\ invitation' = [invitation EXCEPT ![o] = new] /\ Answer(r)
        /\ UNCHANGED <<org, identity, member, owner, session>>
    BY DEF CreateInvite
  <1> HIDE DEF o, new
  <1>5. /\ invitation' \in [Org -> InvitationRow] /\ invitation'[o] = new
        /\ \A p \in Org \ {o} : invitation'[p] = invitation[p]
    BY <1>1, <1>2, <1>3, <1>4 DEF TypeOK
  <1>6. Created' = Created
    BY <1>4 DEF Created
  <1>7. InvitationsAreWhole'
    BY <1>1, <1>2, <1>3, <1>5, <1>6 DEF InvitationsAreWhole, Invited
  <1>8. \A q \in Request \ {r} : Leaves(q)
    BY <1>3, <1>4, <1>5, <1>6 DEF Leaves, Invited
  <1>9. /\ org' \in [Org -> OrgRow] /\ PeopleTyped'
        /\ (\A p, q \in Created : org[p].name = org[q].name => p = q)'
    BY <1>1, <1>4, <1>6 DEF TypeOK, PeopleTyped
  <1> QED BY <1>1, <1>4, <1>5, <1>7, <1>8, <1>9, AnswerKeeps

\* Somebody is a member from now on.
LEMMA PeopleWritten ==
  ASSUME TypeOK, NEW o \in Org, NEW e \in Email, Identify(e),
         member' = [member EXCEPT ![o][e] = "ACTIVE"]
  PROVE  /\ identity' \in [Email -> Identity]
         /\ member' \in [Org -> [Email -> MemberState]]
         /\ member'[o][e] = "ACTIVE"
         /\ \A p \in Org, x \in Email :
              p # o \/ x # e => member'[p][x] = member[p][x]
  BY DEF TypeOK, Identify, Identity, MemberState

\* register inserts an Organization with its owner, active at once.
LEMMA RegisterInsertKeeps ==
  ASSUME Constants, IInv, NEW r \in Request, RegisterInsert(r), UNCHANGED lost
  PROVE  IInv'
  <1>1. TypeOK /\ Knows(r) /\ InvitationsAreWhole /\ lost' \subseteq Org
    BY DEF IInv, TypeOK
  <1>2. CASE Refuse(r)
    BY <1>1, <1>2, RefuseKeeps
  <1>3. CASE ~Refuse(r)
    <2> DEFINE e == job[r].email
    <2>1. PICK o \in Org \ Created :
            /\ NewOrg(o, job[r].name, "ACTIVE") /\ ~NameTaken(job[r].name)
            /\ Identify(e) /\ member' = [member EXCEPT ![o][e] = "ACTIVE"]
            /\ owner' = [owner EXCEPT ![o] = e]
            /\ Goto(r, "session") /\ UNCHANGED <<invitation, session, locks, job>>
      BY <1>3 DEF RegisterInsert
    <2> DEFINE j == job[r]
               mine == locks[r]
    <2>2. j \in Job /\ j.op = "register" /\ pc[r] = "insert" /\ j = job[r]
      BY <1>1 DEF RegisterInsert, At, TypeOK
    <2>3. job[r].name \in Name /\ e \in Email /\ mine = {}
      BY <1>1, <2>2 DEF Knows, JobIsWhole, RowIsHeld
    <2>4. "ACTIVE" \in Access \ {"NONE"} /\ "session" \in Label
      BY DEF Access, Label
    <2>5. /\ org' \in [Org -> OrgRow] /\ Created' = Created \cup {o}
          /\ \A p \in Org \ {o} : org'[p] = org[p]
          /\ (\A p, q \in Created : org[p].name = org[q].name => p = q)'
      BY <1>1, <2>1, <2>3, <2>4, NewOrgWrites
    <2>6. /\ pc' = [pc EXCEPT ![r] = "session"] /\ job' = [job EXCEPT ![r] = j]
          /\ locks' = [locks EXCEPT ![r] = mine]
      BY <1>1, <2>1 DEF Goto, TypeOK
    <2>7. PeopleTyped' /\ invitation' \in [Org -> InvitationRow]
      BY <1>1, <2>1, <2>3, PeopleWritten DEF TypeOK, PeopleTyped
    <2> HIDE DEF e, j, mine
    <2>8. pc'[r] = "session" /\ job'[r] = j /\ locks'[r] = {}
      BY <1>1, <2>3, <2>6 DEF TypeOK
    <2>9. JobIsWhole(r)' /\ RowIsHeld(r)'
      BY <1>1, <2>2, <2>8 DEF Knows, JobIsWhole, RowIsHeld, At
    <2>10. /\ mine \subseteq Org
           /\ \A q \in Request \ {r} : mine \cap locks[q] = {} /\ Leaves(q)
      BY <1>1, <2>3, <2>5, <2>1, LockedAreCreated DEF Leaves, Invited, TypeOK
    <2>11. InvitationsAreWhole'
      BY <1>1, <2>1, <2>5 DEF InvitationsAreWhole, Invited
    <2> QED BY <1>1, <2>2, <2>4, <2>5, <2>6, <2>7, <2>9, <2>10, <2>11, StepKeeps
  <1> QED BY <1>2, <1>3

\* Only sessions are written: by a new session, a login or a logout.
LEMMA OpenSessionWrites ==
  ASSUME TypeOK, NEW e \in Email, OpenSession(e)
  PROVE  /\ session' \in [Email -> SessionState]
         /\ \A x \in Email : session'[x] = "STALE" => session[x] = "STALE"
  BY DEF OpenSession, TypeOK, SessionState

\* Opening a session after the COMMIT touches no row of the Organization.
LEMMA SessionKeeps ==
  ASSUME Constants, IInv, NEW r \in Request, UNCHANGED lost,
         RegisterSession(r) \/ AcceptSession(r)
  PROVE  IInv'
  <1>1. TypeOK /\ Knows(r) /\ InvitationsAreWhole /\ lost' \subseteq Org
    BY DEF IInv, TypeOK
  <1>2. /\ Answer(r) /\ OpenSession(job[r].email)
        /\ job[r].op \in {"register", "accept"}
        /\ UNCHANGED <<org, invitation, identity, member, owner>>
    BY DEF RegisterSession, AcceptSession, At
  <1>3. job[r].email \in Email
    BY <1>1, <1>2 DEF Knows, JobIsWhole
  <1>4. session' \in [Email -> SessionState]
    BY <1>1, <1>2, <1>3, OpenSessionWrites
  <1>5. Created' = Created /\ Invited' = Invited
    BY <1>2 DEF Created, Invited
  <1>6. /\ org' \in [Org -> OrgRow] /\ invitation' \in [Org -> InvitationRow]
        /\ PeopleTyped' /\ InvitationsAreWhole'
        /\ (\A p, q \in Created : org[p].name = org[q].name => p = q)'
    BY <1>1, <1>2, <1>4, <1>5 DEF TypeOK, PeopleTyped, InvitationsAreWhole
  <1>7. \A q \in Request \ {r} : Leaves(q)
    BY <1>2, <1>5 DEF Leaves
  <1> QED BY <1>1, <1>2, <1>6, <1>7, AnswerKeeps

\* The lock of a transition, or of a change of the commercial status, keeps
\* the other transitions out.
LEMMA TransitionLockKeeps ==
  ASSUME Constants, IInv, NEW r \in Request, TransitionLock(r), UNCHANGED lost
  PROVE  IInv'
  <1>1. TypeOK /\ Knows(r) /\ lost' \subseteq Org
    BY DEF IInv, TypeOK
  <1>2. CASE Refuse(r)
    BY <1>1, <1>2, RefuseKeeps
  <1>3. CASE ~Refuse(r)
    <2> DEFINE o == job[r].org
               j == [job[r] EXCEPT !.before = org[o].access]
               mine == {o}
    <2>1. /\ At(r, "transition", "lock") /\ Free(r, o)
          /\ org[o].access \in job[r].from
          /\ job' = [job EXCEPT ![r] = j] /\ locks' = [locks EXCEPT ![r] = mine]
          /\ pc' = [pc EXCEPT ![r] = "commit"] /\ UNCHANGED rows
      BY <1>3 DEF TransitionLock, Goto
    <2>2. /\ o \in Org /\ job[r] \in Job
          /\ \E t \in Transitions : job[r].from = t.from /\ job[r].to = t.to
      BY <1>1, <2>1 DEF At, Knows, JobIsWhole, TypeOK
    <2>3. org[o].access \in Access
      BY <1>1, <2>2 DEF TypeOK, OrgRow
    <2>4. /\ j \in Job /\ j.op = "transition" /\ j.org = o /\ j.from = job[r].from
          /\ j.to = job[r].to /\ j.before = org[o].access
      <3>1. job[r].op = "transition"
        BY <2>1 DEF At
      <3> QED BY <2>2, <2>3, <3>1 DEF Job
    <2>5. org[o].access # "NONE"
      BY <2>1, <2>2 DEF Transitions
    <2>6. "commit" \in Label
      BY DEF Label
    <2>7. /\ mine \subseteq Org /\ mine = {o}
          /\ \A q \in Request \ {r} : mine \cap locks[q] = {}
      BY <2>1, <2>2 DEF Free
    <2> HIDE DEF j, mine, o
    <2>8. /\ pc'[r] = "commit" /\ job'[r] = j /\ locks'[r] = {o} /\ org' = org
          /\ Created' = Created
      BY <1>1, <2>1, <2>6, <2>7 DEF TypeOK, rows, Created
    <2>9. JobIsWhole(r)'
      BY <2>2, <2>4, <2>8 DEF JobIsWhole
    <2>10. RowIsHeld(r)'
      BY <2>1, <2>2, <2>4, <2>5, <2>8 DEF RowIsHeld, At, Created
    <2> QED BY <1>1, <2>1, <2>4, <2>6, <2>7, <2>9, <2>10, QuietStepKeeps
  <1> QED BY <1>2, <1>3

\* A change of the commercial status locks the row of its Organization.
LEMMA CommercialLockKeeps ==
  ASSUME Constants, IInv, NEW r \in Request, CommercialLock(r), UNCHANGED lost
  PROVE  IInv'
  <1>1. TypeOK /\ Knows(r) /\ lost' \subseteq Org
    BY DEF IInv, TypeOK
  <1>2. CASE Refuse(r)
    BY <1>1, <1>2, RefuseKeeps
  <1>3. CASE ~Refuse(r)
    <2> DEFINE o == job[r].org
               j == job[r]
               mine == {o}
    <2>1. /\ At(r, "commercial", "lock") /\ Free(r, o) /\ o \in Created
          /\ job' = [job EXCEPT ![r] = j] /\ locks' = [locks EXCEPT ![r] = mine]
          /\ pc' = [pc EXCEPT ![r] = "commit"] /\ UNCHANGED rows
      BY <1>1, <1>3 DEF CommercialLock, Goto, TypeOK
    <2>2. j \in Job /\ j.op = "commercial" /\ j.org = o /\ o \in Org
      BY <1>1, <2>1 DEF At, TypeOK, Created
    <2>3. "commit" \in Label
      BY DEF Label
    <2>4. /\ mine \subseteq Org /\ mine = {o}
          /\ \A q \in Request \ {r} : mine \cap locks[q] = {}
      BY <2>1, <2>2 DEF Free
    <2> HIDE DEF j, mine, o
    <2>5. /\ pc'[r] = "commit" /\ job'[r] = j /\ locks'[r] = {o}
          /\ Created' = Created
      BY <1>1, <2>1, <2>3, <2>4 DEF TypeOK, rows, Created
    <2>6. JobIsWhole(r)' /\ RowIsHeld(r)'
      BY <2>1, <2>2, <2>5 DEF JobIsWhole, RowIsHeld, At
    <2> QED BY <1>1, <2>1, <2>2, <2>3, <2>4, <2>6, QuietStepKeeps
  <1> QED BY <1>2, <1>3

\* An UPDATE of an Organization: not its name, and it stays.
LEMMA OrgWritten ==
  ASSUME TypeOK, NEW o \in Created, NEW new \in OrgRow, new.access # "NONE",
         new.name = org[o].name, org' = [org EXCEPT ![o] = new]
  PROVE  /\ org' \in [Org -> OrgRow] /\ org'[o] = new
         /\ \A p \in Org \ {o} : org'[p] = org[p]
         /\ Created' = Created
         /\ (\A p, q \in Created : org[p].name = org[q].name => p = q)'
  <1>1. o \in Org
    BY DEF Created
  <1>2. /\ org' \in [Org -> OrgRow] /\ org'[o] = new
        /\ \A p \in Org \ {o} : org'[p] = org[p]
    BY <1>1 DEF TypeOK
  <1>3. Created' = Created
    BY <1>1, <1>2 DEF Created
  <1>4. \A p \in Created : p \in Org /\ org'[p].name = org[p].name
    BY <1>2 DEF Created
  <1> QED BY <1>2, <1>3, <1>4 DEF TypeOK

\* A transition replaces the status of the row it holds.
LEMMA TransitionCommitKeeps ==
  ASSUME Constants, IInv, NEW r \in Request, TransitionCommit(r), UNCHANGED lost
  PROVE  IInv'
  <1> DEFINE o == job[r].org
             old == org[o]
             new == [old EXCEPT !.access = job[r].to]
  <1>1. /\ TypeOK /\ Knows(r) /\ InvitationsAreWhole /\ LocksExclusive
        /\ lost' \subseteq Org /\ job[r] \in Job
    BY DEF IInv, TypeOK
  <1>2. /\ job[r].op = "transition" /\ pc[r] = "commit"
        /\ org' = [org EXCEPT ![o] = new]
        /\ UNCHANGED <<invitation, identity, member, owner>>
    BY DEF TransitionCommit, At
  <1>3. /\ o \in Created /\ o \in Org /\ locks[r] = {o}
        /\ \E t \in Transitions : job[r].to = t.to
    BY <1>1, <1>2 DEF Knows, RowIsHeld, JobIsWhole
  <1>4. old \in OrgRow /\ job[r].to \in Access \ {"NONE"}
    BY <1>1, <1>3 DEF TypeOK, Transitions, Access
  <1>5. new \in OrgRow /\ new.access # "NONE" /\ new.name = old.name
    <2> HIDE DEF old
    <2> QED BY <1>4 DEF OrgRow
  <1> HIDE DEF new
  <1>6. /\ org' \in [Org -> OrgRow] /\ Created' = Created
        /\ \A p \in Org \ {o} : org'[p] = org[p]
        /\ (\A p, q \in Created : org[p].name = org[q].name => p = q)'
    BY <1>1, <1>2, <1>3, <1>5, OrgWritten
  <1>7. session' \in [Email -> SessionState]
    BY <1>1 DEF TransitionCommit, TypeOK, SessionState
  <1>8. /\ invitation' \in [Org -> InvitationRow]
        /\ PeopleTyped' /\ InvitationsAreWhole'
    BY <1>1, <1>2, <1>6, <1>7
    DEF TypeOK, PeopleTyped, InvitationsAreWhole, Invited
  <1>9. \A q \in Request \ {r} : Leaves(q)
    BY <1>1, <1>2, <1>3, <1>6 DEF Leaves, Invited, LocksExclusive, TypeOK
  <1>10. CASE Answer(r)
    BY <1>1, <1>6, <1>8, <1>9, <1>10, AnswerKeeps
  <1>11. CASE Goto(r, "list") /\ locks' = [locks EXCEPT ![r] = {}] /\ UNCHANGED job
    <2> DEFINE j == job[r]
               mine == {}
    <2>1. /\ pc' = [pc EXCEPT ![r] = "list"] /\ job' = [job EXCEPT ![r] = j]
          /\ locks' = [locks EXCEPT ![r] = mine] /\ mine \subseteq Org /\ mine = {}
          /\ \A q \in Request \ {r} : mine \cap locks[q] = {} /\ Leaves(q)
      BY <1>1, <1>9, <1>11 DEF Goto, TypeOK
    <2>2. j \in Job /\ j = job[r] /\ "list" \in Label
      BY <1>1 DEF Label
    <2> HIDE DEF j, mine
    <2>3. pc'[r] = "list" /\ job'[r] = job[r] /\ locks'[r] = {}
      BY <1>1, <2>1, <2>2 DEF TypeOK
    <2>4. JobIsWhole(r)' /\ RowIsHeld(r)'
      BY <1>1, <1>2, <1>6, <2>3 DEF Knows, JobIsWhole, RowIsHeld, At
    <2> QED BY <1>1, <1>6, <1>8, <2>1, <2>2, <2>4, StepKeeps
  <1> QED BY <1>10, <1>11 DEF TransitionCommit

\* A change of the commercial status leaves the life cycle alone.
LEMMA CommercialCommitKeeps ==
  ASSUME Constants, IInv, NEW r \in Request, CommercialCommit(r), UNCHANGED lost
  PROVE  IInv'
  <1> DEFINE o == job[r].org
             old == org[o]
             new == [old EXCEPT !.commercial = job[r].commercial]
  <1>1. /\ TypeOK /\ Knows(r) /\ InvitationsAreWhole /\ LocksExclusive
        /\ lost' \subseteq Org /\ job[r] \in Job
    BY DEF IInv, TypeOK
  <1>2. /\ job[r].op = "commercial" /\ pc[r] = "commit" /\ Answer(r)
        /\ org' = [org EXCEPT ![o] = new]
        /\ UNCHANGED <<invitation, identity, member, owner, session>>
    BY DEF CommercialCommit, At
  <1>3. o \in Created /\ o \in Org /\ locks[r] = {o}
    BY <1>1, <1>2 DEF Knows, RowIsHeld, Created
  <1>4. /\ old \in OrgRow /\ old.access # "NONE"
        /\ job[r].commercial \in CommercialStatus
    BY <1>1, <1>3 DEF TypeOK, Created, Job
  <1>5. new \in OrgRow /\ new.access # "NONE" /\ new.name = old.name
    <2> HIDE DEF old
    <2> QED BY <1>4 DEF OrgRow
  <1> HIDE DEF new
  <1>6. /\ org' \in [Org -> OrgRow] /\ Created' = Created
        /\ \A p \in Org \ {o} : org'[p] = org[p]
        /\ (\A p, q \in Created : org[p].name = org[q].name => p = q)'
    BY <1>1, <1>2, <1>3, <1>5, OrgWritten
  <1>7. /\ invitation' \in [Org -> InvitationRow]
        /\ PeopleTyped' /\ InvitationsAreWhole'
    BY <1>1, <1>2, <1>6 DEF TypeOK, PeopleTyped, InvitationsAreWhole, Invited
  <1>8. \A q \in Request \ {r} : Leaves(q)
    BY <1>1, <1>2, <1>3, <1>6 DEF Leaves, Invited, LocksExclusive, TypeOK
  <1> QED BY <1>1, <1>2, <1>6, <1>7, <1>8, AnswerKeeps

\* A revocation is done or given up, and the request goes on to the next one.
LEMMA RevokingKeeps ==
  ASSUME Constants, IInv, NEW r \in Request, NEW e \in Email, Revoking(r, e),
         UNCHANGED lost, session' \in [Email -> SessionState]
  PROVE  IInv'
  <1> DEFINE S == job[r].revoke \ {e}
             j == [job[r] EXCEPT !.revoke = S]
             mine == locks[r]
  <1>1. /\ TypeOK /\ Knows(r) /\ InvitationsAreWhole /\ lost' \subseteq Org
        /\ job[r] \in Job
    BY DEF IInv, TypeOK
  <1>2. /\ job' = [job EXCEPT ![r] = j] /\ pc[r] = "revoke"
        /\ UNCHANGED <<org, invitation, identity, member, owner, locks, pc>>
    BY DEF Revoking
  <1>3. S \subseteq Email
    BY <1>1 DEF Job
  <1>4. /\ j \in Job /\ j.op = job[r].op /\ j.org = job[r].org
        /\ j.name = job[r].name /\ j.email = job[r].email
        /\ j.from = job[r].from /\ j.to = job[r].to
    <2> HIDE DEF S
    <2> QED BY <1>1, <1>3 DEF Job
  <1>5. "revoke" \in Label /\ mine = {}
    BY <1>1, <1>2 DEF Label, Knows, RowIsHeld
  <1> HIDE DEF j, mine
  <1>6. /\ pc' = [pc EXCEPT ![r] = "revoke"] /\ pc'[r] = "revoke"
        /\ job'[r] = j /\ locks' = [locks EXCEPT ![r] = mine] /\ locks'[r] = {}
    BY <1>1, <1>2, <1>5 DEF TypeOK, mine
  <1>7. Created' = Created /\ Invited' = Invited
    BY <1>2 DEF Created, Invited
  <1>8. JobIsWhole(r)' /\ RowIsHeld(r)'
    BY <1>1, <1>2, <1>4, <1>6, <1>7 DEF Knows, JobIsWhole, RowIsHeld, At
  <1>9. /\ org' \in [Org -> OrgRow] /\ invitation' \in [Org -> InvitationRow]
        /\ PeopleTyped' /\ InvitationsAreWhole'
        /\ (\A p, q \in Created : org[p].name = org[q].name => p = q)'
    BY <1>1, <1>2, <1>7 DEF TypeOK, PeopleTyped, InvitationsAreWhole
  <1>10. /\ mine \subseteq Org
         /\ \A q \in Request \ {r} : mine \cap locks[q] = {} /\ Leaves(q)
    BY <1>2, <1>5, <1>7 DEF Leaves
  <1>11. /\ pc' = [pc EXCEPT ![r] = "revoke"] /\ job' = [job EXCEPT ![r] = j]
         /\ locks' = [locks EXCEPT ![r] = mine] /\ lost' \subseteq Org
         /\ j \in Job /\ "revoke" \in Label
    BY <1>1, <1>2, <1>4, <1>5, <1>6
  <1> QED BY <1>8, <1>9, <1>10, <1>11, StepKeeps

\* The revocations after a suspension write sessions only.
LEMMA RevocationKeeps ==
  ASSUME Constants, IInv, NEW r \in Request, UNCHANGED lost,
         \/ ListMembers(r) \/ ListFails(r)
         \/ RevokeOne(r) \/ RevokeFails(r) \/ RevokedAll(r)
  PROVE  IInv'
  <1>1. /\ TypeOK /\ Knows(r) /\ InvitationsAreWhole /\ lost' \subseteq Org
        /\ job[r] \in Job
    BY DEF IInv, TypeOK
  <1>2. CASE ListMembers(r)
    <2> DEFINE j == [job[r] EXCEPT !.revoke = Active(job[r].org)]
    <2>1. /\ job' = [job EXCEPT ![r] = j] /\ pc' = [pc EXCEPT ![r] = "revoke"]
          /\ UNCHANGED <<rows, locks, lost>> /\ job[r].op = "transition"
          /\ pc[r] = "list"
      BY <1>2 DEF ListMembers, Goto, At
    <2>2. Active(job[r].org) \subseteq Email
      BY DEF Active
    <2>3. /\ j \in Job /\ j.op = "transition" /\ j.org = job[r].org
          /\ j.from = job[r].from /\ j.to = job[r].to
      BY <1>1, <2>1, <2>2 DEF Job
    <2>4. "revoke" \in Label /\ locks[r] = {}
      BY <1>1, <2>1 DEF Label, Knows, RowIsHeld
    <2> HIDE DEF j
    <2>5. pc'[r] = "revoke" /\ job'[r] = j
      BY <1>1, <2>1 DEF TypeOK
    <2>6. JobIsWhole(r)'
      BY <1>1, <2>1, <2>3, <2>5 DEF Knows, JobIsWhole
    <2> QED BY <2>1, <2>3, <2>4, <2>6, MoveKeeps
  <1>3. CASE ListFails(r)
    <2>1. Answer(r) /\ UNCHANGED <<org, invitation, identity, member, owner>>
      BY <1>3 DEF ListFails
    <2>2. session' \in [Email -> SessionState]
      BY <1>1, <1>3 DEF ListFails, TypeOK, SessionState
    <2>3. Created' = Created /\ Invited' = Invited
      BY <2>1 DEF Created, Invited
    <2>4. /\ org' \in [Org -> OrgRow] /\ invitation' \in [Org -> InvitationRow]
          /\ PeopleTyped' /\ InvitationsAreWhole'
          /\ (\A p, q \in Created : org[p].name = org[q].name => p = q)'
      BY <1>1, <2>1, <2>2, <2>3 DEF TypeOK, PeopleTyped, InvitationsAreWhole
    <2>5. \A q \in Request \ {r} : Leaves(q)
      BY <2>1, <2>3 DEF Leaves
    <2> QED BY <1>1, <2>1, <2>4, <2>5, AnswerKeeps
  <1>4. ASSUME NEW e \in Email, Revoking(r, e),
               \/ session' = [session EXCEPT ![e] = "NONE"]
               \/ session' = [session EXCEPT ![e] = IF @ = "STALE" THEN "LEFT"
                                                   ELSE @]
        PROVE  IInv'
    <2>1. session' \in [Email -> SessionState]
      BY <1>1, <1>4 DEF TypeOK, SessionState
    <2> QED BY <1>4, <2>1, RevokingKeeps
  <1>5. CASE RevokedAll(r)
    BY <1>1, <1>5, RefuseKeeps DEF RevokedAll
  <1> QED BY <1>2, <1>3, <1>4, <1>5 DEF RevokeOne, RevokeFails

\* What a successful acceptance writes, and that it leaves the others alone.
LEMMA AcceptWrites ==
  ASSUME Constants, IInv, NEW r \in Request, AcceptCommit(r), ~Refuse(r)
  PROVE  LET o == job[r].org
             e == job[r].email
         IN /\ o \in Created /\ o \in Org /\ e \in Email /\ locks[r] = {}
            /\ job[r].op \in {"accept", "acceptExisting"}
            /\ Identify(e) /\ member' = [member EXCEPT ![o][e] = "ACTIVE"]
            /\ owner' =
                 [owner EXCEPT ![o] = IF member[o][e] = "NONE" THEN e ELSE @]
            /\ session' = session
            /\ org' \in [Org -> OrgRow] /\ Created' = Created
            /\ \A p \in Org \ {o} : org'[p] = org[p]
            /\ org'[o].access \notin {"NONE", "PROVISIONING"}
            /\ org[o].access # "PROVISIONING" => org'[o].access = org[o].access
            /\ (\A p, q \in Created : org[p].name = org[q].name => p = q)'
            /\ invitation' \in [Org -> InvitationRow] /\ InvitationsAreWhole'
            /\ \A p \in Org \ {o} : invitation'[p] = invitation[p]
            /\ Invited \subseteq Invited' /\ \A q \in Request \ {r} : Leaves(q)
  <1> DEFINE o == job[r].org
             e == job[r].email
             new == [org[o] EXCEPT !.access = "ACTIVE"]
             inv == [invitation[o] EXCEPT !.status = "ACCEPTED"]
  <1>1. TypeOK /\ Knows(r) /\ InvitationsAreWhole /\ job[r] \in Job
    BY DEF IInv, TypeOK
  <1>2. pc[r] = "commit" /\ job[r].op \in {"accept", "acceptExisting"}
    BY DEF AcceptCommit, Accepting, At
  <1>3. o \in Created /\ o \in Org /\ e \in Email /\ locks[r] = {}
    BY <1>1, <1>2 DEF Knows, JobIsWhole, RowIsHeld, Created
  <1>4. /\ Free(r, o) /\ session' = session
        /\ Identify(e) /\ member' = [member EXCEPT ![o][e] = "ACTIVE"]
        /\ owner' =
             [owner EXCEPT ![o] = IF member[o][e] = "NONE" THEN e ELSE @]
        /\ invitation' = [invitation EXCEPT ![o] = inv]
        /\ org' = IF org[o].access = "PROVISIONING"
                  THEN [org EXCEPT ![o] = new] ELSE org
    BY DEF AcceptCommit
  <1>6. org[o] \in OrgRow /\ org[o].access # "NONE"
    BY <1>1, <1>3 DEF TypeOK, Created
  <1>7. new \in OrgRow /\ new.access = "ACTIVE" /\ new.name = org[o].name
    <2> DEFINE old == org[o]
    <2>1. old \in OrgRow /\ new = [old EXCEPT !.access = "ACTIVE"]
      BY <1>6
    <2> HIDE DEF old, new
    <2>2. new \in OrgRow /\ new.access = "ACTIVE" /\ new.name = old.name
      BY <2>1 DEF OrgRow, Access
    <2> QED BY <2>2 DEF old
  <1>8. /\ inv \in InvitationRow /\ inv.email = invitation[o].email
        /\ inv.status = "ACCEPTED"
    <2> DEFINE old == invitation[o]
    <2>1. old \in InvitationRow /\ inv = [old EXCEPT !.status = "ACCEPTED"]
      BY <1>1, <1>3 DEF TypeOK
    <2> HIDE DEF old, inv
    <2>2. /\ inv \in InvitationRow /\ inv.email = old.email
          /\ inv.status = "ACCEPTED"
      BY <2>1 DEF InvitationRow
    <2> QED BY <2>2 DEF old
  <1> HIDE DEF new, inv
  <1>9. /\ org' \in [Org -> OrgRow] /\ Created' = Created
        /\ \A p \in Org \ {o} : org'[p] = org[p]
        /\ org'[o].access \notin {"NONE", "PROVISIONING"}
        /\ org[o].access # "PROVISIONING" => org'[o].access = org[o].access
        /\ (\A p, q \in Created : org[p].name = org[q].name => p = q)'
    <2>1. CASE org[o].access = "PROVISIONING"
      <3>1. org' = [org EXCEPT ![o] = new]
        BY <1>4, <2>1
      <3>2. /\ org' \in [Org -> OrgRow] /\ org'[o] = new
            /\ \A p \in Org \ {o} : org'[p] = org[p]
            /\ Created' = Created
            /\ (\A p, q \in Created : org[p].name = org[q].name => p = q)'
        BY <1>1, <1>3, <1>7, <3>1, OrgWritten
      <3> QED BY <1>7, <2>1, <3>2
    <2>2. CASE org[o].access # "PROVISIONING"
      <3>1. org' = org /\ Created' = Created
        BY <1>4, <2>2 DEF Created
      <3>2. (\A p, q \in Created : org[p].name = org[q].name => p = q)'
        BY <1>1, <3>1 DEF TypeOK
      <3> QED BY <1>1, <1>6, <2>2, <3>1, <3>2 DEF TypeOK
    <2> QED BY <2>1, <2>2
  <1>10. /\ invitation' \in [Org -> InvitationRow] /\ invitation'[o] = inv
         /\ \A p \in Org \ {o} : invitation'[p] = invitation[p]
    BY <1>1, <1>3, <1>4, <1>8 DEF TypeOK
  <1>11. InvitationsAreWhole'
    <2>1. o \in Invited
      BY <1>1, <1>2 DEF Knows, JobIsWhole
    <2> QED BY <1>1, <1>3, <1>8, <1>9, <1>10, <2>1 DEF InvitationsAreWhole, Invited
  <1>12. Invited \subseteq Invited' /\ \A q \in Request \ {r} : Leaves(q)
    BY <1>1, <1>4, <1>8, <1>9, <1>10 DEF Leaves, Free, Invited, TypeOK
  <1> QED BY <1>2, <1>3, <1>4, <1>9, <1>10, <1>11, <1>12

\* The owner's acceptance activates the Organization and spends the invitation.
LEMMA AcceptCommitKeeps ==
  ASSUME Constants, IInv, NEW r \in Request, AcceptCommit(r), UNCHANGED lost
  PROVE  IInv'
  <1>1. TypeOK /\ Knows(r) /\ lost' \subseteq Org /\ job[r] \in Job
    BY DEF IInv, TypeOK
  <1>2. CASE Refuse(r)
    BY <1>1, <1>2, RefuseKeeps
  <1>3. CASE ~Refuse(r)
    <2>1. /\ job[r].org \in Org /\ job[r].email \in Email /\ locks[r] = {}
          /\ Identify(job[r].email)
          /\ member' = [member EXCEPT ![job[r].org][job[r].email] = "ACTIVE"]
          /\ owner' = [owner EXCEPT ![job[r].org] =
               IF member[job[r].org][job[r].email] = "NONE" THEN job[r].email
               ELSE @]
          /\ session' = session
          /\ Created' = Created
      BY <1>3, AcceptWrites
    <2>2. /\ org' \in [Org -> OrgRow] /\ invitation' \in [Org -> InvitationRow]
          /\ (\A p, q \in Created : org[p].name = org[q].name => p = q)'
          /\ InvitationsAreWhole' /\ \A q \in Request \ {r} : Leaves(q)
      BY <1>3, AcceptWrites
    <2>3. PeopleTyped'
      BY <1>1, <2>1, PeopleWritten DEF TypeOK, PeopleTyped
    <2>4. CASE Answer(r)
      BY <1>1, <2>2, <2>3, <2>4, AnswerKeeps
    <2>5. CASE /\ job[r].op = "accept" /\ Goto(r, "session")
               /\ UNCHANGED <<locks, job>>
      <3> DEFINE j == job[r]
                 mine == locks[r]
      <3>1. /\ pc' = [pc EXCEPT ![r] = "session"] /\ job' = [job EXCEPT ![r] = j]
            /\ locks' = [locks EXCEPT ![r] = mine] /\ mine \subseteq Org
            /\ \A q \in Request \ {r} : mine \cap locks[q] = {} /\ Leaves(q)
        BY <1>1, <2>1, <2>2, <2>5 DEF Goto, TypeOK
      <3>2. j \in Job /\ "session" \in Label
        BY <1>1 DEF Label
      <3>3. pc'[r] = "session" /\ job'[r] = job[r] /\ locks'[r] = {}
        BY <1>1, <2>1, <2>5 DEF Goto, TypeOK
      <3>4. Invited \subseteq Invited'
        BY <1>3, AcceptWrites
      <3>5. JobIsWhole(r)' /\ RowIsHeld(r)'
        BY <1>1, <2>1, <2>5, <3>3, <3>4 DEF Knows, JobIsWhole, RowIsHeld, At
      <3> HIDE DEF j, mine
      <3> QED BY <1>1, <2>2, <2>3, <3>1, <3>2, <3>5, StepKeeps
    <2> QED BY <1>3, <2>4, <2>5 DEF AcceptCommit
  <1> QED BY <1>2, <1>3

\* A step that is nobody's leaves the Organizations alone.
LEMMA OutsideKeeps ==
  ASSUME IInv, UNCHANGED <<org, owner, lost, locks, pc, job>>,
         \A o \in Org : /\ invitation'[o].status = invitation[o].status
                        /\ invitation'[o].email = invitation[o].email,
         invitation' \in [Org -> InvitationRow],
         identity' \in [Email -> Identity],
         member' \in [Org -> [Email -> MemberState]],
         session' \in [Email -> SessionState]
  PROVE  IInv'
  <1>1. TypeOK /\ LocksExclusive /\ InvitationsAreWhole
    BY DEF IInv
  <1>2. Created' = Created /\ Invited' = Invited
    BY DEF Created, Invited
  <1>3. (\A p, q \in Created : org[p].name = org[q].name => p = q)'
    BY <1>1, <1>2 DEF TypeOK
  <1>4. TypeOK'
    BY <1>1, <1>3 DEF TypeOK
  <1>5. LocksExclusive' /\ InvitationsAreWhole'
    BY <1>1, <1>2 DEF LocksExclusive, InvitationsAreWhole, Invited
  <1>6. \A q \in Request : Knows(q)'
    BY <1>2, OthersKnow DEF Leaves
  <1> QED BY <1>4, <1>5, <1>6 DEF IInv

\* Members who join, are reinstated, log in or out, somebody who belongs
\* elsewhere, and invitations that expire, leave every request what it knows.
LEMMA MeanwhileKeeps ==
  ASSUME IInv, UNCHANGED lost,
         \/ \E o \in Org, e \in Email : Join(o, e) \/ Reinstate(o, e)
         \/ \E e \in Email : Appear(e) \/ Login(e) \/ Logout(e)
         \/ \E o \in Org : Expire(o)
  PROVE  IInv'
  <1>1. TypeOK
    BY DEF IInv
  <1>2. ASSUME NEW o \in Org, NEW e \in Email, Join(o, e) \/ Reinstate(o, e)
        PROVE  IInv'
    <2>1. UNCHANGED <<org, owner, lost, locks, pc, job, invitation, session>>
      BY <1>2 DEF Join, Reinstate
    <2>2. /\ identity' \in [Email -> Identity]
          /\ member' \in [Org -> [Email -> MemberState]]
      <3>1. CASE Join(o, e)
        BY <1>1, <3>1, PeopleWritten DEF Join
      <3>2. CASE Reinstate(o, e)
        BY <1>1, <3>2 DEF Reinstate, TypeOK, MemberState
      <3> QED BY <1>2, <3>1, <3>2
    <2>3. /\ invitation' \in [Org -> InvitationRow]
          /\ session' \in [Email -> SessionState]
      BY <1>1, <2>1 DEF TypeOK
    <2> QED BY <2>1, <2>2, <2>3, OutsideKeeps
  <1>3. ASSUME NEW e \in Email, Login(e) \/ Logout(e) PROVE IInv'
    <2>1. UNCHANGED <<org, owner, lost, locks, pc, job, invitation, identity,
                      member>>
      BY <1>3 DEF Login, Logout
    <2>2. session' \in [Email -> SessionState]
      BY <1>1, <1>3, OpenSessionWrites DEF Login, Logout, TypeOK, SessionState
    <2>3. /\ invitation' \in [Org -> InvitationRow]
          /\ identity' \in [Email -> Identity]
          /\ member' \in [Org -> [Email -> MemberState]]
      BY <1>1, <2>1 DEF TypeOK
    <2> QED BY <2>1, <2>2, <2>3, OutsideKeeps
  <1>4. ASSUME NEW e \in Email, Appear(e) PROVE IInv'
    <2>1. UNCHANGED <<org, owner, lost, locks, pc, job, invitation, member,
                      session>>
      BY <1>4 DEF Appear
    <2>2. identity' \in [Email -> Identity]
      BY <1>1, <1>4 DEF Appear, TypeOK, Identity
    <2>3. /\ invitation' \in [Org -> InvitationRow]
          /\ member' \in [Org -> [Email -> MemberState]]
          /\ session' \in [Email -> SessionState]
      BY <1>1, <2>1 DEF TypeOK
    <2> QED BY <2>1, <2>2, <2>3, OutsideKeeps
  <1>5. ASSUME NEW o \in Org, Expire(o) PROVE IInv'
    <2> DEFINE old == invitation[o]
               new == [old EXCEPT !.expired = TRUE]
    <2>1. /\ UNCHANGED <<org, owner, lost, locks, pc, job, identity, member,
                         session>>
          /\ invitation' = [invitation EXCEPT ![o] = new]
      BY <1>5 DEF Expire
    <2>2. old \in InvitationRow
      BY <1>1 DEF TypeOK
    <2>3. /\ new \in InvitationRow /\ new.status = old.status
          /\ new.email = old.email
      <3> HIDE DEF old
      <3> QED BY <2>2 DEF InvitationRow
    <2> HIDE DEF new
    <2>4. /\ invitation' \in [Org -> InvitationRow]
          /\ \A p \in Org : /\ invitation'[p].status = invitation[p].status
                            /\ invitation'[p].email = invitation[p].email
      BY <1>1, <2>1, <2>3 DEF TypeOK
    <2>5. /\ identity' \in [Email -> Identity]
          /\ member' \in [Org -> [Email -> MemberState]]
          /\ session' \in [Email -> SessionState]
      BY <1>1, <2>1 DEF TypeOK
    <2> QED BY <2>1, <2>4, <2>5, OutsideKeeps
  <1> QED BY <1>2, <1>3, <1>4, <1>5

\* create ends between its transactions: that is noted in lost.
LEMMA LoseInviteKeeps ==
  ASSUME Constants, IInv, NEW r \in Request, LoseInvite(r)
  PROVE  IInv'
  <1>1. Knows(r) /\ lost \subseteq Org
    BY DEF IInv, TypeOK
  <1>2. job[r].org \in Org
    BY <1>1 DEF LoseInvite, At, Knows, JobIsWhole, Created
  <1>3. lost' \subseteq Org /\ Refuse(r)
    BY <1>1, <1>2 DEF LoseInvite
  <1> QED BY <1>3, RefuseKeeps

\* Every step keeps IInv.
LEMMA NextIInv ==
  ASSUME Constants, IInv, [Next]_vars
  PROVE  IInv'
  <1>1. CASE UNCHANGED vars
    BY <1>1 DEF IInv, TypeOK, LocksExclusive, InvitationsAreWhole, Invited,
       Knows, JobIsWhole, RowIsHeld, At, Created, vars
  <1>2. ASSUME NEW r \in Request, Arrive(r), UNCHANGED lost
        PROVE  IInv'
    BY <1>2, ArriveKeeps
  <1>3. ASSUME NEW r \in Request, Serve(r), UNCHANGED lost
        PROVE  IInv'
    BY <1>3, ChecksKeep, CreateInsertKeeps, CreateInviteKeeps,
       RegisterInsertKeeps, SessionKeeps, TransitionLockKeeps,
       TransitionCommitKeeps, RevocationKeeps, CommercialLockKeeps,
       CommercialCommitKeeps, AcceptCommitKeeps DEF Serve
  <1>4. ASSUME NEW r \in Request, Fail(r), UNCHANGED lost
        PROVE  IInv'
    BY <1>4, RefuseKeeps, RevocationKeeps DEF Fail, Timeout, IInv, TypeOK
  <1>5. ASSUME NEW r \in Request, LoseInvite(r) PROVE IInv'
    BY <1>5, LoseInviteKeeps
  <1> QED BY <1>1, <1>2, <1>3, <1>4, <1>5, MeanwhileKeeps DEF Next

\* IInv is inductive.
THEOREM InductiveInvariant == ASSUME Constants PROVE Spec => []IInv
  <1>1. IInv /\ [Next]_vars => IInv'
    BY NextIInv
  <1>2. Init => IInv
    BY InitIInv
  <1> QED BY <1>1, <1>2, PTL DEF Spec

\* The names of Organizations stay unique, though create and register look for
\* the name some statements before they insert; and every variable keeps its
\* type.
THEOREM TypeCorrect == ASSUME Constants PROVE Spec => []TypeOK
  <1>1. IInv => TypeOK
    BY DEF IInv
  <1> QED BY InductiveInvariant, <1>1, PTL

---------------------------------------------------------------------------
(* The life cycle *)

\* The steps that write no Organization.
LEMMA OrganizationsKept ==
  ASSUME [Next]_vars
  PROVE  \/ org' = org
         \/ \E r \in Request :
              \/ CreateInsert(r) \/ RegisterInsert(r) \/ TransitionCommit(r)
              \/ CommercialCommit(r) \/ AcceptCommit(r)
  BY DEF Next, vars, rows, Arrive, RequestCreate, RequestRegister,
     RequestTransition, RequestCommercial, RequestAccept, Admit, SuspendMember, Serve,
     CreateCheck, CreateInvite, RegisterIdentity, RegisterCheck, RegisterSession,
     TransitionLock, ListMembers, RevokeOne, Revoking, RevokedAll, CommercialLock,
     AcceptLock, AcceptRead, AcceptSession, NameCheck, Proceed, Refuse,
     Fail, Timeout, ListFails, RevokeFails, LoseInvite,
     Join, Reinstate, Appear, Login, Logout, Expire

\* What a transition replaces, and what by.
LEMMA TransitionWrites ==
  ASSUME IInv, NEW r \in Request, TransitionCommit(r)
  PROVE  LET o == job[r].org
         IN /\ o \in Org /\ org[o].access \in job[r].from
            /\ org[o].access = job[r].before
            /\ org[o].access \in {"ACTIVE", "SUSPENDED"}
            /\ org'[o].access \in {"ACTIVE", "SUSPENDED", "DISABLED"}
            /\ \A p \in Org \ {o} : org'[p] = org[p]
  <1> DEFINE o == job[r].org
             new == [org[o] EXCEPT !.access = job[r].to]
  <1>1. TypeOK /\ Knows(r) /\ At(r, "transition", "commit")
    BY DEF IInv, TransitionCommit
  <1>2. /\ o \in Org /\ org[o].access \in job[r].from
        /\ org[o].access = job[r].before
        /\ \E t \in Transitions : job[r].from = t.from /\ job[r].to = t.to
    BY <1>1 DEF Knows, JobIsWhole, RowIsHeld, At
  <1>3. /\ org[o].access \in {"ACTIVE", "SUSPENDED"}
        /\ job[r].to \in {"ACTIVE", "SUSPENDED", "DISABLED"}
    BY <1>2 DEF Transitions
  <1>4. new.access = job[r].to
    BY <1>1, <1>2 DEF TypeOK, OrgRow
  <1>5. org' = [org EXCEPT ![o] = new]
    BY DEF TransitionCommit
  <1> HIDE DEF new
  <1>6. org'[o] = new /\ \A p \in Org \ {o} : org'[p] = org[p]
    BY <1>1, <1>2, <1>5 DEF TypeOK
  <1> QED BY <1>2, <1>3, <1>4, <1>6

\* What an insertion and a commercial update leave: every other status.
LEMMA InsertWrites ==
  ASSUME Constants, IInv, NEW r \in Request,
         CreateInsert(r) \/ RegisterInsert(r), ~Refuse(r)
  PROVE  \E o \in Org \ Created :
           /\ \A p \in Org \ {o} : org'[p] = org[p]
           /\ org[o].access = "NONE"
           /\ CreateInsert(r) =>
                /\ org'[o].access = "PROVISIONING" /\ pc'[r] = "invite"
                /\ job'[r].org = o /\ job'[r].op = "create"
                /\ UNCHANGED <<invitation, member, owner, session>>
           /\ RegisterInsert(r) =>
                /\ org'[o].access = "ACTIVE" /\ job[r].email \in Email
                /\ Identify(job[r].email)
                /\ member' = [member EXCEPT ![o][job[r].email] = "ACTIVE"]
                /\ owner' = [owner EXCEPT ![o] = job[r].email]
                /\ UNCHANGED <<invitation, session>>
  <1>1. TypeOK /\ Knows(r) /\ job[r] \in Job
    BY DEF IInv, TypeOK
  <1>2. job[r].name \in Name /\ job[r].email \in Email
    BY <1>1 DEF CreateInsert, RegisterInsert, At, Knows, JobIsWhole
  <1>3. {"PROVISIONING", "ACTIVE"} \subseteq Access \ {"NONE"}
    BY DEF Access
  <1>4. CASE CreateInsert(r)
    <2>1. PICK o \in Org \ Created :
            /\ NewOrg(o, job[r].name, "PROVISIONING") /\ ~NameTaken(job[r].name)
            /\ job' = [job EXCEPT ![r].org = o] /\ Goto(r, "invite")
            /\ UNCHANGED <<invitation, identity, member, owner, session, locks>>
      BY <1>4 DEF CreateInsert
    <2>2. /\ \A p \in Org \ {o} : org'[p] = org[p]
          /\ org'[o].access = "PROVISIONING"
      BY <1>1, <1>2, <1>3, <2>1, NewOrgWrites
    <2> DEFINE j == [job[r] EXCEPT !.org = o]
    <2>3. j.org = o /\ j.op = "create" /\ job' = [job EXCEPT ![r] = j]
      BY <1>1, <1>4, <2>1 DEF Job, CreateInsert, At
    <2> HIDE DEF j
    <2>4. pc'[r] = "invite" /\ job'[r] = j
      BY <1>1, <2>1, <2>3 DEF TypeOK, Goto
    <2>5. org[o].access = "NONE"
      BY DEF Created
    <2>6. ~RegisterInsert(r)
      BY <1>4 DEF CreateInsert, RegisterInsert, At
    <2> QED BY <2>1, <2>2, <2>3, <2>4, <2>5, <2>6
  <1>5. CASE RegisterInsert(r)
    <2>1. PICK o \in Org \ Created :
            /\ NewOrg(o, job[r].name, "ACTIVE") /\ ~NameTaken(job[r].name)
            /\ Identify(job[r].email)
            /\ member' = [member EXCEPT ![o][job[r].email] = "ACTIVE"]
            /\ owner' = [owner EXCEPT ![o] = job[r].email]
            /\ UNCHANGED <<invitation, session>>
      BY <1>5 DEF RegisterInsert
    <2>2. (\A p \in Org \ {o} : org'[p] = org[p]) /\ org'[o].access = "ACTIVE"
      BY <1>1, <1>2, <1>3, <2>1, NewOrgWrites
    <2>3. org[o].access = "NONE"
      BY DEF Created
    <2>4. ~CreateInsert(r)
      BY <1>5 DEF CreateInsert, RegisterInsert, At
    <2> QED BY <1>2, <2>1, <2>2, <2>3, <2>4
  <1> QED BY <1>4, <1>5

\* A change of the commercial status changes no access.
LEMMA CommercialWrites ==
  ASSUME IInv, NEW r \in Request, CommercialCommit(r)
  PROVE  \A p \in Org : org'[p].access = org[p].access
  <1> DEFINE o == job[r].org
             new == [org[o] EXCEPT !.commercial = job[r].commercial]
  <1>1. TypeOK /\ o \in Org
    BY DEF IInv, CommercialCommit, At, Knows, JobIsWhole
  <1>2. new.access = org[o].access
    BY <1>1 DEF TypeOK, OrgRow
  <1>3. org' = [org EXCEPT ![o] = new]
    BY DEF CommercialCommit
  <1> HIDE DEF new
  <1> QED BY <1>1, <1>2, <1>3 DEF TypeOK

\* No status follows another but as the code names it: "terminal disablement
\* has no reactivation path" (organizations-lifecycle.test.ts 49-72); and the
\* status a transition replaces is the one its evidence records, for it holds
\* the row from its read to its COMMIT, and an acceptance waits for it.
THEOREM LifecycleHolds == ASSUME Constants PROVE Spec => LifecycleIsFollowed
  <1>1. ASSUME IInv, [Next]_vars PROVE LifecycleStep
    <2> SUFFICES ASSUME NEW o \in Org, org'[o].access # org[o].access
                 PROVE  \/ org[o].access = "NONE"
                        \/ /\ org[o].access = "PROVISIONING"
                           /\ org'[o].access = "ACTIVE"
                        \/ \E r \in Request :
                             /\ At(r, "transition", "commit") /\ job[r].org = o
                             /\ org[o].access \in job[r].from
                             /\ org[o].access = job[r].before
      BY DEF LifecycleStep
    <2>1. ASSUME NEW r \in Request PROVE ~Refuse(r) /\ ~CommercialCommit(r)
      BY <1>1, CommercialWrites DEF Refuse, rows
    <2>2. ASSUME NEW r \in Request, CreateInsert(r) \/ RegisterInsert(r)
          PROVE  org[o].access = "NONE"
      BY <1>1, <2>1, <2>2, InsertWrites
    <2>3. ASSUME NEW r \in Request, TransitionCommit(r)
          PROVE  /\ At(r, "transition", "commit") /\ job[r].org = o
                 /\ org[o].access \in job[r].from
                 /\ org[o].access = job[r].before
      BY <1>1, <2>3, TransitionWrites DEF TransitionCommit
    <2>4. ASSUME NEW r \in Request, AcceptCommit(r)
          PROVE  org[o].access = "PROVISIONING" /\ org'[o].access = "ACTIVE"
      <3>1. /\ \A p \in Org \ {job[r].org} : org'[p] = org[p]
            /\ org[job[r].org].access # "PROVISIONING" =>
                 org'[job[r].org].access = org[job[r].org].access
        BY <1>1, <2>1, <2>4, AcceptWrites
      <3>2. o = job[r].org /\ org[o].access = "PROVISIONING"
        BY <3>1
      <3>3. org' = [org EXCEPT ![o].access = "ACTIVE"]
        BY <2>1, <2>4, <3>2 DEF AcceptCommit
      <3> QED BY <1>1, <3>2, <3>3 DEF IInv, TypeOK, OrgRow
    <2> QED BY <1>1, <2>1, <2>2, <2>3, <2>4, OrganizationsKept
  <1>2. IInv /\ [Next]_vars => LifecycleStep
    BY <1>1
  <1> QED BY InductiveInvariant, <1>2, PTL DEF Spec, LifecycleIsFollowed

---------------------------------------------------------------------------
(* Who owns an Organization *)

\* A step of r is no other request's.
OnlyOwn(r) == \A q \in Request \ {r} : pc'[q] = pc[q] /\ job'[q] = job[q]

\* A request writes its own pc, job and locks only.
LEMMA StepIsOwn ==
  ASSUME TypeOK, NEW r \in Request,
         Arrive(r) \/ Serve(r) \/ Fail(r) \/ LoseInvite(r)
  PROVE  OnlyOwn(r)
  <1>1. /\ DOMAIN pc = Request /\ DOMAIN job = Request
        /\ pc = [q \in Request |-> pc[q]] /\ job = [q \in Request |-> job[q]]
    BY DEF TypeOK
  <1>2. CASE Arrive(r)
    BY <1>1, <1>2 DEF OnlyOwn, Arrive, RequestCreate, RequestRegister,
       RequestTransition, RequestCommercial, RequestAccept, Admit, SuspendMember,
       Goto
  <1>3. CASE Fail(r) \/ LoseInvite(r)
    BY <1>1, <1>3 DEF OnlyOwn, Fail, Timeout, ListFails, RevokeFails, Revoking,
       LoseInvite, Refuse, Answer
  <1>4. CASE Serve(r)
    BY <1>1, <1>4 DEF OnlyOwn, Serve, CreateCheck, CreateInsert, CreateInvite,
       RegisterIdentity, RegisterCheck, RegisterInsert, RegisterSession,
       TransitionLock, TransitionCommit, ListMembers, RevokeOne, Revoking,
       RevokedAll, CommercialLock, CommercialCommit, AcceptLock, AcceptRead,
       AcceptCommit, AcceptSession, NameCheck, Proceed, Goto, Refuse, Answer
  <1> QED BY <1>2, <1>3, <1>4

\* The steps that write no owner, and those that write no invitation.
LEMMA OwnersKept ==
  ASSUME [Next]_vars
  PROVE  \/ owner' = owner
         \/ \E r \in Request : RegisterInsert(r) \/ AcceptCommit(r)
  BY DEF Next, vars, rows, Arrive, RequestCreate, RequestRegister,
     RequestTransition, RequestCommercial, RequestAccept, Admit, SuspendMember, Serve,
     CreateCheck, CreateInsert, CreateInvite, RegisterIdentity, RegisterCheck,
     RegisterSession, TransitionLock, TransitionCommit, ListMembers, RevokeOne,
     Revoking, RevokedAll, CommercialLock, CommercialCommit, AcceptLock, AcceptRead,
     AcceptSession, NameCheck, Proceed, Refuse, Fail, Timeout, ListFails,
     RevokeFails, LoseInvite, Join, Reinstate, Appear, Login, Logout, Expire

\* Who writes invitations.
LEMMA InvitationsKept ==
  ASSUME [Next]_vars
  PROVE  \/ invitation' = invitation
         \/ \E r \in Request : CreateInvite(r) \/ AcceptCommit(r)
         \/ \E o \in Org : Expire(o)
  BY DEF Next, vars, rows, Arrive, RequestCreate, RequestRegister,
     RequestTransition, RequestCommercial, RequestAccept, Admit, SuspendMember, Serve,
     CreateCheck, CreateInsert, RegisterIdentity, RegisterCheck, RegisterInsert,
     RegisterSession, TransitionLock, TransitionCommit, ListMembers, RevokeOne,
     Revoking, RevokedAll, CommercialLock, CommercialCommit, AcceptLock, AcceptRead,
     AcceptSession, NameCheck, Proceed, Refuse, Fail, Timeout, ListFails,
     RevokeFails, LoseInvite, Join, Reinstate, Appear, Login, Logout

\* Who writes memberships.
LEMMA MembersKept ==
  ASSUME [Next]_vars
  PROVE  \/ member' = member
         \/ \E r \in Request :
              RegisterInsert(r) \/ AcceptCommit(r) \/ SuspendMember(r)
         \/ \E o \in Org, e \in Email : Join(o, e) \/ Reinstate(o, e)
  BY DEF Next, vars, rows, Arrive, RequestCreate, RequestRegister,
     RequestTransition, RequestCommercial, RequestAccept, Admit, Serve, CreateCheck,
     CreateInsert, CreateInvite, RegisterIdentity, RegisterCheck, RegisterSession,
     TransitionLock, TransitionCommit, ListMembers, RevokeOne, Revoking, RevokedAll,
     CommercialLock, CommercialCommit, AcceptLock, AcceptRead, AcceptSession,
     NameCheck, Proceed, Refuse, Fail, Timeout, ListFails, RevokeFails, LoseInvite,
     Appear, Login, Logout, Expire

\* A membership is created for the owner, or where there is one; and it is the
\* others' that end.
LEMMA MembersMove ==
  ASSUME Constants, IInv, [Next]_vars, NEW o \in Org, NEW e \in Email,
         member'[o][e] # member[o][e]
  PROVE  \/ /\ member'[o][e] = "ACTIVE"
            /\ member[o][e] # "NONE" \/ owner[o] # Nothing \/ owner'[o] = e
         \/ /\ member[o][e] = "ACTIVE" /\ e # owner[o]
            /\ \E r \in Request : SuspendMember(r)
  <1> DEFINE Goal ==
        \/ /\ member'[o][e] = "ACTIVE"
           /\ member[o][e] # "NONE" \/ owner[o] # Nothing \/ owner'[o] = e
        \/ /\ member[o][e] = "ACTIVE" /\ e # owner[o]
           /\ \E r \in Request : SuspendMember(r)
  <1>1. TypeOK
    BY DEF IInv
  <1>2. ASSUME NEW r \in Request, Refuse(r) PROVE FALSE
    BY <1>2 DEF Refuse, rows
  <1>3. ASSUME NEW r \in Request, RegisterInsert(r) PROVE Goal
    <2>1. PICK p \in Org : /\ Identify(job[r].email) /\ job[r].email \in Email
                           /\ member' = [member EXCEPT ![p][job[r].email] = "ACTIVE"]
                           /\ owner' = [owner EXCEPT ![p] = job[r].email]
      BY <1>2, <1>3, InsertWrites
    <2>2. p = o /\ job[r].email = e /\ member'[o][e] = "ACTIVE"
      BY <1>1, <2>1, PeopleWritten
    <2> QED BY <1>1, <2>1, <2>2 DEF TypeOK
  <1>4. ASSUME NEW r \in Request, AcceptCommit(r) PROVE Goal
    <2> DEFINE p == job[r].org
               x == job[r].email
    <2>1. /\ p \in Org /\ x \in Email
          /\ Identify(x) /\ member' = [member EXCEPT ![p][x] = "ACTIVE"]
          /\ owner' =
               [owner EXCEPT ![p] = IF member[p][x] = "NONE" THEN x ELSE @]
      <3>1. ~Refuse(r)
        BY <1>2
      <3> QED BY <1>4, <3>1, AcceptWrites
    <2> HIDE DEF p, x
    <2>2. p = o /\ x = e /\ member'[o][e] = "ACTIVE"
      BY <1>1, <2>1, PeopleWritten
    <2> QED BY <1>1, <2>1, <2>2 DEF TypeOK
  <1>5. ASSUME NEW p \in Org, NEW x \in Email, Join(p, x) \/ Reinstate(p, x)
        PROVE  Goal
    <2>1. member' = [member EXCEPT ![p][x] = "ACTIVE"]
      BY <1>5 DEF Join, Reinstate
    <2>2. p = o /\ x = e /\ member'[o][e] = "ACTIVE"
      BY <1>1, <2>1 DEF TypeOK
    <2>3. member[o][e] # "NONE" \/ owner[o] # Nothing
      BY <1>5, <2>2 DEF Join, Reinstate
    <2> QED BY <2>2, <2>3
  <1>6. ASSUME NEW r \in Request, SuspendMember(r) PROVE Goal
    <2>1. PICK p \in Org, x \in Email :
            /\ x # owner[p] /\ member[p][x] = "ACTIVE"
            /\ member' = [member EXCEPT ![p][x] = "INACTIVE"]
      BY <1>6 DEF SuspendMember, Active
    <2>2. p = o /\ x = e
      BY <1>1, <2>1 DEF TypeOK
    <2> QED BY <1>6, <2>1, <2>2
  <1> HIDE DEF Goal
  <1>7. Goal
    BY <1>3, <1>4, <1>5, <1>6, MembersKept
  <1> QED BY <1>7 DEF Goal

\* A create is between its two transactions.
Waits(o) == \E r \in Request : At(r, "create", "invite") /\ job[r].org = o

Run == {"ACTIVE", "SUSPENDED", "DISABLED"}

\* What OwnedOnceActive says of the members: the owner is one, if there is one.
MembersRight(o) ==
  /\ owner[o] # Nothing => member[o][owner[o]] = "ACTIVE"
  /\ owner[o] = Nothing => \A e \in Email : member[o][e] = "NONE"

\* An Organization that keeps its owner, or has none and gets none, keeps what
\* its members are.
LEMMA MembersStay ==
  ASSUME Constants, IInv, [Next]_vars, NEW o \in Org, MembersRight(o),
         owner'[o] = owner[o]
  PROVE  MembersRight(o)'
  <1>1. owner[o] \in Email \cup {Nothing} /\ Nothing \notin Email
    BY DEF IInv, TypeOK, Constants, NothingIsNothing
  <1>2. CASE owner[o] # Nothing
    <2>1. member'[o][owner[o]] = "ACTIVE"
      BY <1>1, <1>2, MembersMove DEF MembersRight
    <2> QED BY <1>2, <2>1 DEF MembersRight
  <1>3. CASE owner[o] = Nothing
    <2>1. ASSUME NEW e \in Email PROVE member'[o][e] = "NONE"
      BY <1>1, <1>3, MembersMove DEF MembersRight
    <2> QED BY <1>3, <2>1 DEF MembersRight
  <1> QED BY <1>2, <1>3

\* The steps by which no Organization gets its owner.
LEMMA OwnedKept ==
  ASSUME Constants, IInv, OwnedOnceActive, [Next]_vars, owner' = owner,
         lost \subseteq lost',
         \A o \in Org : \/ org'[o].access = org[o].access
                        \/ org[o].access \in Run /\ org'[o].access \in Run,
         \A o \in Org : \/ invitation'[o].status = invitation[o].status
                        \/ invitation'[o].status = "PENDING",
         \A o \in Org : Waits(o) =>
           Waits(o)' \/ o \in lost' \/ invitation'[o].status = "PENDING"
  PROVE  OwnedOnceActive'
  <1>1. TypeOK
    BY DEF IInv
  <1> SUFFICES ASSUME NEW o \in Org
               PROVE  /\ org'[o].access \in {"NONE", "PROVISIONING"}
                           <=> owner'[o] = Nothing
                      /\ owner'[o] # Nothing => member'[o][owner'[o]] = "ACTIVE"
                      /\ owner'[o] = Nothing =>
                           \A e \in Email : member'[o][e] = "NONE"
                      /\ org'[o].access = "PROVISIONING"
                           /\ invitation'[o].status # "PENDING" =>
                         o \in lost' \/ Waits(o)'
    BY DEF OwnedOnceActive, Waits, At
  <1>2. /\ org[o].access \in {"NONE", "PROVISIONING"} <=> owner[o] = Nothing
        /\ owner[o] # Nothing => member[o][owner[o]] = "ACTIVE"
        /\ owner[o] = Nothing => \A e \in Email : member[o][e] = "NONE"
        /\ org[o].access = "PROVISIONING" /\ invitation[o].status # "PENDING" =>
             o \in lost \/ Waits(o)
    BY DEF OwnedOnceActive, Waits, At
  <1>3. MembersRight(o)'
    BY <1>2, MembersStay DEF MembersRight
  <1> QED BY <1>2, <1>3 DEF Run, MembersRight

\* The statements after the last COMMIT that writes have few actions each.
LEMMA AfterTheCommit ==
  ASSUME NEW r \in Request, Arrive(r) \/ Serve(r) \/ Fail(r) \/ LoseInvite(r)
  PROVE  /\ pc[r] = "invite" => CreateInvite(r) \/ LoseInvite(r)
         /\ pc[r] = "list" => ListMembers(r) \/ ListFails(r)
         /\ pc[r] = "revoke" => RevokeOne(r) \/ RevokeFails(r) \/ RevokedAll(r)
  BY DEF Arrive, RequestCreate, RequestRegister, RequestTransition,
     RequestCommercial, RequestAccept, Admit, SuspendMember, Serve, CreateCheck,
     CreateInsert, CreateInvite, RegisterIdentity, RegisterCheck, RegisterInsert,
     RegisterSession, TransitionLock, TransitionCommit, ListMembers, RevokeOne,
     Revoking, RevokedAll, CommercialLock, CommercialCommit, AcceptLock, AcceptRead,
     AcceptCommit, AcceptSession, NameCheck, Accepting, At, Fail, Timeout,
     ListFails, RevokeFails, LoseInvite

\* What is lost is not found again.
LEMMA LostStays == ASSUME [Next]_vars PROVE lost \subseteq lost'
  BY DEF Next, LoseInvite, vars

\* The two transactions of create.
LEMMA CreateInviteWrites ==
  ASSUME IInv, NEW r \in Request, CreateInvite(r)
  PROVE  /\ invitation'[job[r].org].status = "PENDING"
         /\ \A o \in Org \ {job[r].org} : invitation'[o] = invitation[o]
  <1> DEFINE o == job[r].org
             new == [status |-> "PENDING", expired |-> FALSE, email |-> job[r].email]
  <1>1. TypeOK /\ o \in Org
    BY DEF IInv, CreateInvite, At, Knows, JobIsWhole, Created
  <1>2. new.status = "PENDING" /\ invitation' = [invitation EXCEPT ![o] = new]
    BY DEF CreateInvite
  <1> HIDE DEF new
  <1> QED BY <1>1, <1>2 DEF TypeOK

\* An Organization waits for its owner until it is invited or the process
\* stops.
LEMMA WaitsOn ==
  ASSUME IInv, [Next]_vars, NEW o \in Org, Waits(o)
  PROVE  Waits(o)' \/ o \in lost' \/ invitation'[o].status = "PENDING"
  <1>1. PICK q \in Request : At(q, "create", "invite") /\ job[q].org = o
    BY DEF Waits
  <1>2. TypeOK
    BY DEF IInv
  <1>3. CASE UNCHANGED <<pc, job>>
    BY <1>1, <1>3 DEF Waits, At
  <1>4. ASSUME NEW r \in Request,
               Arrive(r) \/ Serve(r) \/ Fail(r) \/ LoseInvite(r)
        PROVE  Waits(o)' \/ o \in lost' \/ invitation'[o].status = "PENDING"
    <2>1. CASE q # r
      <3>1. OnlyOwn(r)
        BY <1>2, <1>4, StepIsOwn
      <3> QED BY <1>1, <2>1, <3>1 DEF OnlyOwn, Waits, At
    <2>2. CASE q = r
      <3>1. CreateInvite(r) \/ LoseInvite(r)
        BY <1>1, <1>4, <2>2, AfterTheCommit DEF At
      <3> QED BY <1>1, <2>2, <3>1, CreateInviteWrites DEF LoseInvite
    <2> QED BY <2>1, <2>2
  <1> QED BY <1>3, <1>4
          DEF Next, Join, Reinstate, Appear, Login, Logout, Expire, vars

\* A step other than the three that create an Organization or give it its
\* owner.
LEMMA OtherStepsKeepOwned ==
  ASSUME Constants, IInv, OwnedOnceActive, [Next]_vars,
         \A r \in Request :
           CreateInsert(r) \/ RegisterInsert(r) \/ AcceptCommit(r) => Refuse(r)
  PROVE  OwnedOnceActive'
  <1>1. TypeOK
    BY DEF IInv
  <1>2. ASSUME NEW r \in Request, Refuse(r)
        PROVE  UNCHANGED <<org, owner, invitation>>
    BY <1>2 DEF Refuse, rows
  <1>3. owner' = owner
    BY <1>2, OwnersKept
  <1>4. ASSUME NEW o \in Org
        PROVE  \/ org'[o].access = org[o].access
               \/ org[o].access \in Run /\ org'[o].access \in Run
    <2>1. ASSUME NEW r \in Request, TransitionCommit(r)
          PROVE  \/ org'[o].access = org[o].access
                 \/ org[o].access \in Run /\ org'[o].access \in Run
      BY <2>1, TransitionWrites DEF Run
    <2> QED BY <1>2, <2>1, CommercialWrites, OrganizationsKept
  <1>5. ASSUME NEW o \in Org
        PROVE  \/ invitation'[o].status = invitation[o].status
               \/ invitation'[o].status = "PENDING"
    <2>1. ASSUME NEW p \in Org, Expire(p)
          PROVE  invitation'[o].status = invitation[o].status
      <3> DEFINE new == [invitation[p] EXCEPT !.expired = TRUE]
      <3>1. new.status = invitation[p].status
        BY <1>1 DEF TypeOK, InvitationRow
      <3>2. invitation' = [invitation EXCEPT ![p] = new]
        BY <2>1 DEF Expire
      <3> HIDE DEF new
      <3> QED BY <1>1, <3>1, <3>2 DEF TypeOK
    <2>2. ASSUME NEW r \in Request, CreateInvite(r)
          PROVE  \/ invitation'[o].status = invitation[o].status
                 \/ invitation'[o].status = "PENDING"
      BY <2>2, CreateInviteWrites
    <2> QED BY <1>2, <2>1, <2>2, InvitationsKept
  <1>6. lost \subseteq lost'
    BY LostStays
  <1>7. \A o \in Org : Waits(o) =>
          Waits(o)' \/ o \in lost' \/ invitation'[o].status = "PENDING"
    BY WaitsOn
  <1> QED BY <1>3, <1>4, <1>5, <1>6, <1>7, OwnedKept

\* The three that do.
LEMMA FoundingKeepsOwned ==
  ASSUME Constants, IInv, OwnedOnceActive, [Next]_vars, NEW r \in Request,
         CreateInsert(r) \/ RegisterInsert(r) \/ AcceptCommit(r), ~Refuse(r)
  PROVE  OwnedOnceActive'
  <1>1. TypeOK /\ lost \subseteq lost'
    BY LostStays DEF IInv
  <1>2. \A p \in Org :
          /\ org[p].access \in {"NONE", "PROVISIONING"} <=> owner[p] = Nothing
          /\ MembersRight(p)
          /\ org[p].access = "PROVISIONING" /\ invitation[p].status # "PENDING" =>
               p \in lost \/ Waits(p)
    BY <1>1 DEF OwnedOnceActive, MembersRight, Waits, At, TypeOK
  <1>3. \A p \in Org : Waits(p) =>
          Waits(p)' \/ p \in lost' \/ invitation'[p].status = "PENDING"
    BY WaitsOn
  <1> DEFINE Owned(p) ==
        /\ org[p].access \in {"NONE", "PROVISIONING"} <=> owner[p] = Nothing
        /\ MembersRight(p)
        /\ org[p].access = "PROVISIONING" /\ invitation[p].status # "PENDING" =>
             p \in lost \/ Waits(p)
  <1>4. ASSUME NEW o \in Org, \A p \in Org \ {o} : Owned(p)', Owned(o)'
        PROVE  OwnedOnceActive'
    BY <1>4 DEF OwnedOnceActive, MembersRight, Waits, At
  <1>5. ASSUME NEW p \in Org, org'[p] = org[p], owner'[p] = owner[p],
               invitation'[p] = invitation[p]
        PROVE  Owned(p)'
    <2>2. MembersRight(p)'
      BY <1>2, <1>5, MembersStay
    <2>3. /\ org[p].access \in {"NONE", "PROVISIONING"} <=> owner[p] = Nothing
          /\ org[p].access = "PROVISIONING" /\ invitation[p].status # "PENDING" =>
               p \in lost \/ Waits(p)
      BY <1>2
    <2>4. Waits(p) => Waits(p)' \/ p \in lost' \/ invitation'[p].status = "PENDING"
      BY <1>3
    <2> QED BY <1>1, <1>5, <2>2, <2>3, <2>4
  <1> HIDE DEF Owned
  <1>6. CASE CreateInsert(r)
    <2>1. PICK o \in Org :
            /\ \A p \in Org \ {o} : org'[p] = org[p]
            /\ org[o].access = "NONE" /\ org'[o].access = "PROVISIONING"
            /\ pc'[r] = "invite" /\ job'[r].org = o /\ job'[r].op = "create"
            /\ UNCHANGED <<invitation, member, owner, session>>
      BY <1>6, InsertWrites
    <2>2. Waits(o)'
      BY <2>1 DEF Waits, At
    <2>3. Owned(o)'
      BY <1>2, <2>1, <2>2 DEF Owned, MembersRight
    <2>4. \A p \in Org \ {o} : Owned(p)'
      BY <1>5, <2>1
    <2> QED BY <1>4, <2>3, <2>4
  <1>7. CASE RegisterInsert(r)
    <2>1. PICK o \in Org :
            /\ \A p \in Org \ {o} : org'[p] = org[p]
            /\ org'[o].access = "ACTIVE" /\ job[r].email \in Email
            /\ Identify(job[r].email)
            /\ member' = [member EXCEPT ![o][job[r].email] = "ACTIVE"]
            /\ owner' = [owner EXCEPT ![o] = job[r].email]
            /\ UNCHANGED <<invitation, session>>
      BY <1>7, InsertWrites
    <2>2. /\ owner'[o] = job[r].email /\ member'[o][job[r].email] = "ACTIVE"
          /\ \A p \in Org \ {o} : owner'[p] = owner[p]
      BY <1>1, <2>1, PeopleWritten DEF TypeOK
    <2>3. job[r].email # Nothing
      BY <2>1 DEF Constants, NothingIsNothing
    <2>4. Owned(o)'
      BY <2>1, <2>2, <2>3 DEF Owned, MembersRight
    <2>5. \A p \in Org \ {o} : Owned(p)'
      BY <1>5, <2>1, <2>2
    <2> QED BY <1>4, <2>4, <2>5
  <1>8. CASE AcceptCommit(r)
    <2>1. PICK o \in Org, e \in Email :
            /\ Identify(e) /\ member' = [member EXCEPT ![o][e] = "ACTIVE"]
            /\ owner' =
                 [owner EXCEPT ![o] = IF member[o][e] = "NONE" THEN e ELSE @]
            /\ \A p \in Org \ {o} : org'[p] = org[p]
            /\ org'[o].access \notin {"NONE", "PROVISIONING"}
            /\ \A p \in Org \ {o} : invitation'[p] = invitation[p]
      BY <1>8, AcceptWrites
    <2>2. /\ owner'[o] = IF member[o][e] = "NONE" THEN e ELSE owner[o]
          /\ member'[o][e] = "ACTIVE"
          /\ \A x \in Email \ {e} : member'[o][x] = member[o][x]
          /\ \A p \in Org \ {o} : owner'[p] = owner[p]
      BY <1>1, <2>1, PeopleWritten DEF TypeOK
    <2>3. e # Nothing /\ owner[o] \in Email \cup {Nothing}
      BY <1>1, <2>1 DEF Constants, NothingIsNothing, TypeOK
    <2>4. Owned(o)'
      <3>1. owner'[o] # Nothing /\ member'[o][owner'[o]] = "ACTIVE"
        BY <1>2, <2>2, <2>3 DEF MembersRight
      <3> QED BY <2>1, <3>1 DEF Owned, MembersRight
    <2>5. \A p \in Org \ {o} : Owned(p)'
      BY <1>5, <2>1, <2>2
    <2> QED BY <1>4, <2>1, <2>4, <2>5
  <1> QED BY <1>6, <1>7, <1>8

\* An Organization has an owner exactly from its activation on, and the owner
\* belongs to it; before, it has an open invitation to wait for, or is about
\* to get one, unless the process stopped between the transactions of create.
THEOREM OwnedExactlyOnceActive ==
  ASSUME Constants PROVE Spec => []OwnedOnceActive
  <1>1. Init => OwnedOnceActive
    BY DEF Init, OwnedOnceActive
  <1>2. IInv /\ OwnedOnceActive /\ [Next]_vars => OwnedOnceActive'
    <2> SUFFICES ASSUME IInv, OwnedOnceActive, [Next]_vars
                 PROVE  OwnedOnceActive'
      OBVIOUS
    <2>1. CASE \A r \in Request :
                 CreateInsert(r) \/ RegisterInsert(r) \/ AcceptCommit(r) => Refuse(r)
      BY <2>1, OtherStepsKeepOwned
    <2>2. CASE \E r \in Request :
                 /\ CreateInsert(r) \/ RegisterInsert(r) \/ AcceptCommit(r)
                 /\ ~Refuse(r)
      BY <2>2, FoundingKeepsOwned
    <2> QED BY <2>1, <2>2
  <1> QED BY InductiveInvariant, <1>1, <1>2, PTL DEF Spec

---------------------------------------------------------------------------
(* The sessions of a suspended Organization *)

\* r is about to revoke the sessions of e.
Owes(r, e) ==
  \/ pc[r] = "list" /\ e \in Active(job[r].org)
  \/ pc[r] = "revoke" /\ e \in job[r].revoke

\* Only a suspension, of an Organization or of a member, makes a session stale.
LEMMA SessionsKept ==
  ASSUME [Next]_vars
  PROVE  \/ session' = session
         \/ \E r \in Request : TransitionCommit(r) \/ SuspendMember(r)
         \/ \E e \in Email : OpenSession(e)
         \/ \E e \in Email : session' = [session EXCEPT ![e] = "NONE"]
         \/ \E r \in Request :
              \/ RegisterSession(r) \/ AcceptSession(r) \/ RevokeOne(r)
              \/ RevokeFails(r) \/ ListFails(r)
  BY DEF Next, vars, rows, Arrive, RequestCreate, RequestRegister,
     RequestTransition, RequestCommercial, RequestAccept, Admit, Serve, CreateCheck,
     CreateInsert, CreateInvite, RegisterIdentity, RegisterCheck, RegisterInsert,
     TransitionLock, ListMembers, RevokedAll, CommercialLock, CommercialCommit,
     AcceptLock, AcceptRead, AcceptCommit, NameCheck, Proceed, Refuse, Fail, Timeout,
     LoseInvite, Join, Reinstate, Appear, Login, Logout, Expire

\* The suspension of a member owes the end of its sessions, and concerns nobody
\* else.
LEMMA SuspensionOwes ==
  ASSUME TypeOK, NEW q \in Request, SuspendMember(q)
  PROVE  /\ pc[q] = "idle"
         /\ \E x \in Email :
              /\ Owes(q, x)'
              /\ \A e \in Email \ {x} :
                   /\ session'[e] = session[e]
                   /\ \A o \in Org : member'[o][e] = member[o][e]
  <1>1. PICK o \in Org, x \in Email :
          /\ member' = [member EXCEPT ![o][x] = "INACTIVE"]
          /\ session' = [session EXCEPT ![x] = IF @ = "NONE" THEN @ ELSE "STALE"]
          /\ job' = [job EXCEPT ![q] =
                       [NoJob EXCEPT !.op = "member", !.revoke = {x}]]
          /\ pc[q] = "idle" /\ pc' = [pc EXCEPT ![q] = "revoke"]
    BY DEF SuspendMember, Active, Goto
  <1> DEFINE j == [NoJob EXCEPT !.op = "member", !.revoke = {x}]
  <1>2. j.revoke = {x} /\ job' = [job EXCEPT ![q] = j]
    BY <1>1 DEF NoJob
  <1> HIDE DEF j
  <1>3. pc'[q] = "revoke" /\ job'[q] = j
    BY <1>1, <1>2 DEF TypeOK
  <1>4. Owes(q, x)'
    BY <1>2, <1>3 DEF Owes
  <1>5. \A e \in Email \ {x} :
          /\ session'[e] = session[e]
          /\ \A p \in Org : member'[p][e] = member[p][e]
    BY <1>1 DEF TypeOK
  <1> QED BY <1>1, <1>4, <1>5

\* Whoever makes a session stale owes its end.
LEMMA StaleIsOwed ==
  ASSUME IInv, [Next]_vars, NEW e \in Email,
         session[e] # "STALE", session'[e] = "STALE"
  PROVE  \E r \in Request : Owes(r, e)'
  <1>1. TypeOK
    BY DEF IInv
  <1>2. ASSUME NEW x, OpenSession(x) PROVE FALSE
    BY <1>1, <1>2 DEF OpenSession, TypeOK
  <1>3. ASSUME NEW x \in Email, session' = [session EXCEPT ![x] = "NONE"]
        PROVE  FALSE
    BY <1>1, <1>3 DEF TypeOK
  <1>4. ASSUME NEW r \in Request,
               \/ RegisterSession(r) \/ AcceptSession(r) \/ RevokeOne(r)
               \/ RevokeFails(r) \/ ListFails(r)
        PROVE  FALSE
    BY <1>1, <1>2, <1>3, <1>4
    DEF RegisterSession, AcceptSession, RevokeOne, RevokeFails, ListFails, TypeOK
  <1>5. ASSUME NEW r \in Request, SuspendMember(r)
        PROVE  Owes(r, e)'
    BY <1>1, <1>5, SuspensionOwes
  <1>6. ASSUME NEW r \in Request, TransitionCommit(r)
        PROVE  Owes(r, e)'
    <2>1. /\ job[r].to \in {"SUSPENDED", "DISABLED"} /\ e \in Active(job[r].org)
          /\ member' = member
      BY <1>6 DEF TransitionCommit
    <2>2. pc' = [pc EXCEPT ![r] = "list"] /\ job' = job
      BY <1>6, <2>1 DEF TransitionCommit, Goto
    <2> QED BY <1>1, <2>1, <2>2 DEF Owes, Active, TypeOK
  <1> QED BY <1>2, <1>3, <1>4, <1>5, <1>6, SessionsKept

\* While r is at its list, a member is active, or somebody else owes the end of
\* the sessions.
LEMMA ActiveOrOwed ==
  ASSUME Constants, IInv, [Next]_vars, NEW e \in Email, NEW o,
         o \in Org, e \in Active(o)
  PROVE  e \in Active(o)' \/ \E q \in Request : Owes(q, e)'
  <1>1. TypeOK /\ member[o][e] = "ACTIVE"
    BY DEF IInv, Active
  <1>2. CASE member'[o][e] = "ACTIVE"
    BY <1>2 DEF Active
  <1>3. CASE member'[o][e] # "ACTIVE"
    <2>1. PICK q \in Request : SuspendMember(q)
      BY <1>1, <1>3, MembersMove
    <2>2. Owes(q, e)'
      BY <1>1, <1>3, <2>1, SuspensionOwes
    <2> QED BY <2>2
  <1> QED BY <1>2, <1>3

\* What is owed is done, handed on to the next step, to the request that
\* suspends the member meanwhile, or given up.
LEMMA DebtIsKept ==
  ASSUME Constants, IInv, [Next]_vars, NEW e \in Email, NEW r \in Request,
         Owes(r, e), session'[e] = "STALE"
  PROVE  \E q \in Request : Owes(q, e)'
  <1>1. TypeOK
    BY DEF IInv
  <1>2. /\ pc[r] \in {"list", "revoke"}
        /\ pc[r] = "revoke" => e \in job[r].revoke
        /\ pc[r] = "list" => job[r].org \in Org /\ e \in Active(job[r].org)
    BY DEF Owes, IInv, Knows, JobIsWhole
  <1>3. CASE pc'[r] = pc[r] /\ job'[r] = job[r]
    <2>1. CASE pc[r] = "revoke"
      BY <1>2, <1>3, <2>1 DEF Owes
    <2>2. CASE pc[r] = "list"
      <3>1. e \in Active(job[r].org)' \/ \E q \in Request : Owes(q, e)'
        BY <1>2, <1>3, <2>2, ActiveOrOwed
      <3> QED BY <1>3, <2>2, <3>1 DEF Owes
    <2>3. pc[r] = "list" \/ pc[r] = "revoke"
      BY <1>2
    <2> QED BY <2>1, <2>2, <2>3
  <1>4. ASSUME NEW q \in Request, q # r,
               Arrive(q) \/ Serve(q) \/ Fail(q) \/ LoseInvite(q)
        PROVE  pc'[r] = pc[r] /\ job'[r] = job[r]
    BY <1>1, <1>4, StepIsOwn DEF OnlyOwn
  <1>5. CASE ListMembers(r)
    <2> DEFINE new == [job[r] EXCEPT !.revoke = Active(job[r].org)]
    <2>1. pc' = [pc EXCEPT ![r] = "revoke"] /\ job' = [job EXCEPT ![r] = new]
      BY <1>5 DEF ListMembers, Goto
    <2>2. new.revoke = Active(job[r].org) /\ pc[r] = "list"
      BY <1>1, <1>5 DEF TypeOK, Job, ListMembers, At
    <2> HIDE DEF new
    <2>3. pc'[r] = "revoke" /\ job'[r] = new
      BY <1>1, <2>1 DEF TypeOK
    <2>4. Owes(r, e)'
      BY <1>2, <2>2, <2>3 DEF Owes
    <2> QED BY <2>4
  <1>6. CASE ListFails(r)
    BY <1>1, <1>2, <1>6 DEF ListFails, At, TypeOK
  <1>7. CASE RevokeOne(r) \/ RevokeFails(r)
    <2>1. PICK x \in Email :
            Revoking(r, x) /\ (x = e => session'[e] # "STALE")
      BY <1>1, <1>7 DEF RevokeOne, RevokeFails, TypeOK
    <2> DEFINE S == job[r].revoke \ {x}
               new == [job[r] EXCEPT !.revoke = S]
    <2>2. job' = [job EXCEPT ![r] = new] /\ pc[r] = "revoke" /\ pc' = pc
      BY <2>1 DEF Revoking
    <2>3. new.revoke = S
      <3> HIDE DEF S
      <3> QED BY <1>1 DEF TypeOK, Job
    <2>6. x # e
      BY <2>1
    <2> HIDE DEF new
    <2>4. pc'[r] = "revoke" /\ job'[r] = new
      BY <1>1, <2>2 DEF TypeOK
    <2>5. Owes(r, e)'
      BY <1>2, <2>2, <2>3, <2>4, <2>6 DEF Owes
    <2> QED BY <2>5
  <1>8. CASE RevokedAll(r)
    BY <1>2, <1>8 DEF RevokedAll
  <1>9. Arrive(r) \/ Serve(r) \/ Fail(r) \/ LoseInvite(r) =>
          \/ ListMembers(r) \/ ListFails(r)
          \/ RevokeOne(r) \/ RevokeFails(r) \/ RevokedAll(r)
    <2> SUFFICES ASSUME Arrive(r) \/ Serve(r) \/ Fail(r) \/ LoseInvite(r)
                 PROVE  \/ ListMembers(r) \/ ListFails(r)
                        \/ RevokeOne(r) \/ RevokeFails(r) \/ RevokedAll(r)
      OBVIOUS
    <2>1. pc[r] = "list" \/ pc[r] = "revoke"
      BY <1>2
    <2> QED BY <2>1, AfterTheCommit
  <1>10. CASE UNCHANGED <<pc, job>>
    BY <1>3, <1>10
  <1> QED BY <1>3, <1>4, <1>5, <1>6, <1>7, <1>8, <1>9, <1>10
          DEF Next, vars, Join, Reinstate, Appear, Login, Logout, Expire

\* "suspend/disable ends every open session ... right away", as far as it does:
\* a session that was open, of a member active then, when the Organization was
\* suspended or disabled is about to be revoked until that itself fails,
\* whoever is suspended, reinstated or joins meanwhile.
THEOREM StaleSessionsAreOwed ==
  ASSUME Constants PROVE Spec => []StaleSessionIsOwed
  <1>1. Init => StaleSessionIsOwed
    BY DEF Init, StaleSessionIsOwed
  <1>2. IInv /\ StaleSessionIsOwed /\ [Next]_vars => StaleSessionIsOwed'
    <2> SUFFICES ASSUME IInv, StaleSessionIsOwed, [Next]_vars,
                        NEW e \in Email, session'[e] = "STALE"
                 PROVE  \E r \in Request : Owes(r, e)'
      BY DEF StaleSessionIsOwed, Owes
    <2>1. CASE session[e] # "STALE"
      BY <2>1, StaleIsOwed
    <2>2. CASE session[e] = "STALE"
      <3>1. PICK r \in Request : Owes(r, e)
        BY <2>2 DEF StaleSessionIsOwed, Owes
      <3> QED BY <3>1, DebtIsKept
    <2> QED BY <2>1, <2>2
  <1> QED BY InductiveInvariant, <1>1, <1>2, PTL DEF Spec
=============================================================================
