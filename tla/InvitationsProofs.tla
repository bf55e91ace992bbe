------------------------- MODULE InvitationsProofs -------------------------
(***************************************************************************)
(* Theorems about Invitations, for all sets of Organizations, addresses,   *)
(* tokens and concurrent requests.                                         *)
(***************************************************************************)
EXTENDS Invitations, FiniteSetTheorems, TLAPS

---------------------------------------------------------------------------
(* The inductive invariant: what each statement of a request may rely on.  *)

\* An acceptance is here after its SELECT ... FOR UPDATE.
Accepted == {"identity", "membership", "create", "overwrite"}

LocksExclusive ==
  \A r, q \in Request : r # q => locks[r] \cap locks[q] = {}

\* What was inserted names an Organization and an address.
RowsAreWhole ==
  \A i \in Sent : /\ invitation[i].org \in Org /\ invitation[i].email \in Email
                  /\ i \in issued

\* The token of a create or resend is nobody else's until it is sent.
DraftIsNew(r) ==
  job[r].op \in {"create", "resend"} =>
    /\ job[r].org \in Org /\ job[r].email \in Email
    /\ job[r].token \in Token \ issued
    /\ \A q \in Request \ {r} : job[q].token # job[r].token

RowIsThere(r) ==
  /\ job[r].row # Nothing => job[r].row \in Sent
  /\ pc[r] = "read" \/ job[r].op = "revoke" => job[r].row \in Sent

\* The row an acceptance has locked stays as it read it.
RowIsHeld(r) ==
  /\ pc[r] \in Accepted =>
       /\ job[r].op \in Accepting
       /\ job[r].row \in Sent /\ locks[r] = {job[r].row}
       /\ invitation[job[r].row].status = "PENDING"
       /\ invitation[job[r].row].token = job[r].token
  /\ pc[r] \notin Accepted => locks[r] = {}

\* Who accepts with a session is an identity, and past AcceptIdentity the one
\* that is invited; it overwrites a membership only where there is one.
ComesAsInvited(r) ==
  /\ job[r].op = "acceptExisting" =>
       job[r].email \in Email /\ identity[job[r].email] # "NONE"
  /\ pc[r] \in {"membership", "overwrite"} => job[r].op = "acceptExisting"
  /\ job[r].op = "acceptExisting" /\ pc[r] \in Accepted \ {"identity"} =>
       invitation[job[r].row].email = job[r].email
  /\ pc[r] = "overwrite" =>
       member[invitation[job[r].row].org][job[r].email] # "NONE"

Knows(r) ==
  DraftIsNew(r) /\ RowIsThere(r) /\ RowIsHeld(r) /\ ComesAsInvited(r)

IInv ==
  /\ TypeOK /\ LocksExclusive /\ RowsAreWhole
  /\ \A r \in Request : Knows(r)

\* An idle request has a job of the right type, and names nothing.
LEMMA NoJobType ==
  /\ NoJob \in Job /\ NoJob.op = "none" /\ NoJob.token = Nothing
  /\ NoJob.row = Nothing
  BY DEF NoJob, Job, Operation

\* IInv holds at the start.
LEMMA InitIInv == Init => IInv
  <1> SUFFICES ASSUME Init PROVE IInv
    OBVIOUS
  <1>1. TypeOK
    <2>1. NoInvitation \in Invitation
      BY DEF NoInvitation, Invitation
    <2>2. identity \in [Email -> {"NONE", "BARE", "HOME"}]
      BY DEF Init
    <2> QED BY <2>1, <2>2, NoJobType DEF Init, TypeOK, Label
  <1>2. Sent = {}
    BY DEF Init, Sent, NoInvitation
  <1>3. \A r \in Request : pc[r] = "idle" /\ job[r] = NoJob /\ locks[r] = {}
    BY DEF Init
  <1>4. LocksExclusive /\ RowsAreWhole /\ \A r \in Request : Knows(r)
    BY <1>2, <1>3, NoJobType
    DEF LocksExclusive, RowsAreWhole, Knows, DraftIsNew, RowIsThere, RowIsHeld,
        ComesAsInvited, Accepted
  <1> QED BY <1>1, <1>4 DEF IInv

---------------------------------------------------------------------------
(* What a step of one request leaves to the others. *)

\* Rows stay what they are about, identities and memberships stay.
RowsGoOn ==
  /\ issued \subseteq issued'
  /\ \A i \in Sent : /\ i \in Sent'
                     /\ invitation'[i].org = invitation[i].org
                     /\ invitation'[i].email = invitation[i].email
  /\ \A e \in Email : identity[e] # "NONE" => identity'[e] # "NONE"
  /\ \A o \in Org, e \in Email :
       member[o][e] # "NONE" => member'[o][e] # "NONE"

\* The rows that q has locked are not written, its new token not used.
LeavesTo(q) ==
  /\ \A i \in locks[q] : /\ invitation'[i].status = invitation[i].status
                         /\ invitation'[i].token = invitation[i].token
  /\ job[q].op \in {"create", "resend"} =>
       /\ job[q].token \notin issued'
       /\ \A p \in Request \ {q} : job'[p].token # job[q].token

\* What a request knows stays true while others write: they leave it the rows
\* it has locked and the token it has made.
LEMMA OthersKnow ==
  ASSUME IInv, NEW q \in Request, RowsGoOn, LeavesTo(q),
         locks'[q] = locks[q], pc'[q] = pc[q], job'[q] = job[q]
  PROVE  Knows(q)'
  <1>1. Knows(q) /\ RowsAreWhole
    BY DEF IInv
  <1>2. DraftIsNew(q)'
    BY <1>1 DEF Knows, DraftIsNew, LeavesTo
  <1>3. RowIsThere(q)'
    BY <1>1 DEF Knows, RowIsThere, RowsGoOn
  <1>4. RowIsHeld(q)'
    BY <1>1 DEF Knows, RowIsHeld, RowsGoOn, LeavesTo
  <1>5. ComesAsInvited(q)'
    <2>1. pc[q] \in Accepted => job[q].row \in Sent
      BY <1>1 DEF Knows, RowIsHeld
    <2>2. pc[q] \in Accepted =>
            /\ invitation'[job[q].row].org = invitation[job[q].row].org
            /\ invitation'[job[q].row].email = invitation[job[q].row].email
            /\ invitation[job[q].row].org \in Org
      BY <1>1, <2>1 DEF RowsGoOn, RowsAreWhole
    <2> QED BY <1>1, <2>2 DEF Knows, ComesAsInvited, RowsGoOn, Accepted
  <1> QED BY <1>2, <1>3, <1>4, <1>5 DEF Knows

---------------------------------------------------------------------------
(* The steps: a request is admitted, goes on or is answered.               *)

\* A request enters with a token that is new, or was sent before.
LEMMA AdmitKeeps ==
  ASSUME NothingIsNothing, IInv, NEW r \in Request, NEW j \in Job,
         NEW label \in {"find", "read", "lock"}, Admit(r, j, label),
         j.op \in {"create", "resend"} =>
           /\ j.org \in Org /\ j.email \in Email
           /\ j.token \in Token /\ Fresh(j.token),
         j.op \notin {"create", "resend"} => j.token \in issued \cup {Nothing},
         j.row # Nothing => j.row \in Sent,
         label = "read" \/ j.op = "revoke" => j.row \in Sent,
         j.op = "acceptExisting" =>
           j.email \in Email /\ identity[j.email] # "NONE"
  PROVE  IInv'
  <1>1. TypeOK /\ LocksExclusive /\ RowsAreWhole /\ \A q \in Request : Knows(q)
    BY DEF IInv
  <1>2. /\ pc' = [pc EXCEPT ![r] = label] /\ job' = [job EXCEPT ![r] = j]
        /\ UNCHANGED <<invitation, identity, member, issued, locks>>
    BY DEF Admit, rows
  <1>3. pc[r] = "idle" /\ locks[r] = {} /\ Sent' = Sent
    BY <1>1, <1>2 DEF Admit, Knows, RowIsHeld, Accepted, Sent
  <1>4. /\ pc'[r] = label /\ job'[r] = j
        /\ \A q \in Request \ {r} : pc'[q] = pc[q] /\ job'[q] = job[q]
        /\ \A q \in Request : locks'[q] = locks[q]
    BY <1>1, <1>2 DEF TypeOK
  <1>5. TypeOK'
    <2>1. label \in Label \ Accepted
      BY DEF Label, Accepted
    <2>2. pc' \in [Request -> Label] /\ job' \in [Request -> Job]
      BY <1>1, <1>2, <2>1 DEF TypeOK
    <2>3. \A q \in Request : pc'[q] \in Accepted => job'[q].row \in Sent'
      BY <1>1, <1>3, <1>4, <2>1 DEF TypeOK, Accepted
    <2> QED BY <1>1, <1>2, <2>2, <2>3 DEF TypeOK, Accepted
  <1>6. LocksExclusive' /\ RowsAreWhole'
    BY <1>1, <1>2, <1>3 DEF LocksExclusive, RowsAreWhole
  <1>7. Knows(r)'
    <2>1. DraftIsNew(r)'
      BY <1>2, <1>4 DEF DraftIsNew, Fresh
    <2>2. RowIsThere(r)'
      BY <1>3, <1>4 DEF RowIsThere
    <2>3. RowIsHeld(r)' /\ ComesAsInvited(r)'
      BY <1>2, <1>3, <1>4 DEF RowIsHeld, ComesAsInvited, Accepted
    <2> QED BY <2>1, <2>2, <2>3 DEF Knows
  <1>8. ASSUME NEW q \in Request \ {r} PROVE Knows(q)'
    <2>1. RowsGoOn
      BY <1>2, <1>3 DEF RowsGoOn
    <2>2. Knows(q)
      BY <1>1
    <2>3. CASE job[q].op \notin {"create", "resend"}
      <3>1. LeavesTo(q)
        BY <1>2, <2>3 DEF LeavesTo
      <3> QED BY <1>4, <2>1, <3>1, OthersKnow
    <2>4. CASE job[q].op \in {"create", "resend"}
      <3>1. /\ job[q].token \in Token \ issued /\ job[q].token # Nothing
            /\ \A p \in Request \ {q} : job[p].token # job[q].token
        BY <2>2, <2>4 DEF Knows, DraftIsNew, NothingIsNothing
      <3>2. j.token # job[q].token
        BY <3>1 DEF Fresh
      <3>3. \A p \in Request \ {q} : job'[p].token # job[q].token
        BY <1>4, <3>1, <3>2
      <3>4. LeavesTo(q)
        BY <1>2, <3>1, <3>3 DEF LeavesTo
      <3> QED BY <1>4, <2>1, <3>4, OthersKnow
    <2> QED BY <2>3, <2>4
  <1> QED BY <1>5, <1>6, <1>7, <1>8 DEF IInv

\* What a request sends is its own new token; it writes no row that another
\* has locked.
LEMMA AnswerKeeps ==
  ASSUME NothingIsNothing, IInv, NEW r \in Request, Answer(r), RowsGoOn,
         invitation' \in [Token -> Invitation],
         identity' \in [Email -> {"NONE", "BARE", "HOME"}],
         member' \in [Org -> [Email -> {"NONE", "ACTIVE", "ENDED"}]],
         issued' \subseteq Token, RowsAreWhole',
         \A q \in Request \ {r} : \A i \in locks[q] :
           invitation'[i] = invitation[i],
         \A t \in issued' \ issued :
           job[r].op \in {"create", "resend"} /\ t = job[r].token
  PROVE  IInv'
  <1>1. TypeOK /\ LocksExclusive /\ \A q \in Request : Knows(q)
    BY DEF IInv
  <1>2. /\ pc'[r] = "idle" /\ job'[r] = NoJob /\ locks'[r] = {}
        /\ \A q \in Request \ {r} :
             pc'[q] = pc[q] /\ job'[q] = job[q] /\ locks'[q] = locks[q]
        /\ pc' \in [Request -> Label] /\ job' \in [Request -> Job]
        /\ locks' \in [Request -> SUBSET Token]
    BY <1>1, NoJobType DEF TypeOK, Answer, Label
  <1>3. TypeOK'
    <2>1. \A q \in Request : pc'[q] \in Accepted => job'[q].row \in Sent'
      BY <1>1, <1>2 DEF TypeOK, Accepted, RowsGoOn
    <2> QED BY <1>2, <2>1 DEF TypeOK, Accepted
  <1>4. LocksExclusive'
    BY <1>1, <1>2 DEF LocksExclusive
  <1>5. Knows(r)'
    BY <1>2, NoJobType
    DEF Knows, DraftIsNew, RowIsThere, RowIsHeld, ComesAsInvited, Accepted
  <1>6. ASSUME NEW q \in Request \ {r} PROVE Knows(q)'
    <2>1. Knows(q)
      BY <1>1
    <2>2. CASE job[q].op \notin {"create", "resend"}
      <3>1. LeavesTo(q)
        BY <2>2 DEF LeavesTo
      <3> QED BY <1>2, <3>1, OthersKnow
    <2>3. CASE job[q].op \in {"create", "resend"}
      <3>1. /\ job[q].token \in Token \ issued /\ job[q].token # Nothing
            /\ \A p \in Request \ {q} : job[p].token # job[q].token
        BY <2>1, <2>3 DEF Knows, DraftIsNew, NothingIsNothing
      <3>2. job[q].token \notin issued'
        BY <3>1
      <3>3. \A p \in Request \ {q} : job'[p].token # job[q].token
        BY <1>2, <3>1, NoJobType
      <3>4. LeavesTo(q)
        BY <3>2, <3>3 DEF LeavesTo
      <3> QED BY <1>2, <3>4, OthersKnow
    <2> QED BY <2>2, <2>3
  <1> QED BY <1>3, <1>4, <1>5, <1>6 DEF IInv

\* A refused request rolls back: rows stay, and its locks are released.
LEMMA RefuseKeeps ==
  ASSUME NothingIsNothing, IInv, NEW r \in Request, Refuse(r)
  PROVE  IInv'
  <1>1. UNCHANGED <<invitation, identity, member, issued>> /\ Answer(r)
    BY DEF Refuse, rows
  <1>2. TypeOK /\ RowsAreWhole
    BY DEF IInv
  <1>3. RowsGoOn /\ RowsAreWhole'
    BY <1>1, <1>2 DEF RowsGoOn, RowsAreWhole, Sent
  <1>4. /\ invitation' \in [Token -> Invitation]
        /\ identity' \in [Email -> {"NONE", "BARE", "HOME"}]
        /\ member' \in [Org -> [Email -> {"NONE", "ACTIVE", "ENDED"}]]
        /\ issued' \subseteq Token
    BY <1>1, <1>2 DEF TypeOK
  <1> QED BY <1>1, <1>3, <1>4, AnswerKeeps

\* "mine" are the locks the request then holds, "j" its bookkeeping.
LEMMA GoOnKeeps ==
  ASSUME IInv, NEW r \in Request, NEW label \in Label, NEW mine, NEW j \in Job,
         UNCHANGED rows, pc' = [pc EXCEPT ![r] = label],
         locks' = [locks EXCEPT ![r] = mine], job' = [job EXCEPT ![r] = j],
         j.op = job[r].op, j.org = job[r].org, j.email = job[r].email,
         j.token = job[r].token, mine \subseteq Token,
         \A q \in Request \ {r} : mine \cap locks[q] = {},
         RowIsThere(r)', RowIsHeld(r)', ComesAsInvited(r)'
  PROVE  IInv'
  <1>1. TypeOK /\ LocksExclusive /\ RowsAreWhole /\ \A q \in Request : Knows(q)
    BY DEF IInv
  <1>2. /\ pc'[r] = label /\ job'[r] = j /\ locks'[r] = mine
        /\ \A q \in Request \ {r} :
             pc'[q] = pc[q] /\ job'[q] = job[q] /\ locks'[q] = locks[q]
        /\ pc' \in [Request -> Label] /\ job' \in [Request -> Job]
        /\ locks' \in [Request -> SUBSET Token]
    BY <1>1 DEF TypeOK
  <1>3. UNCHANGED <<invitation, identity, member, issued>> /\ Sent' = Sent
    BY DEF rows, Sent
  <1>4. TypeOK'
    <2>1. \A q \in Request : pc'[q] \in Accepted => job'[q].row \in Sent'
      BY <1>1, <1>2, <1>3 DEF TypeOK, Accepted, RowIsHeld
    <2> QED BY <1>1, <1>2, <1>3, <2>1 DEF TypeOK, Accepted
  <1>5. LocksExclusive'
    BY <1>1, <1>2 DEF LocksExclusive
  <1>6. RowsAreWhole'
    BY <1>1, <1>3 DEF RowsAreWhole
  <1>7. \A q \in Request : job'[q].token = job[q].token
    BY <1>2
  <1>8. Knows(r)'
    <2>1. DraftIsNew(r)
      BY <1>1 DEF Knows
    <2>2. DraftIsNew(r)'
      BY <1>2, <1>3, <1>7, <2>1 DEF DraftIsNew
    <2> QED BY <2>2 DEF Knows
  <1>9. ASSUME NEW q \in Request \ {r} PROVE Knows(q)'
    <2>1. RowsGoOn
      BY <1>3 DEF RowsGoOn
    <2>2. LeavesTo(q)
      BY <1>1, <1>3, <1>7 DEF LeavesTo, Knows, DraftIsNew
    <2> QED BY <1>2, <2>1, <2>2, OthersKnow
  <1> QED BY <1>4, <1>5, <1>6, <1>8, <1>9 DEF IInv

\* A step that is nobody's.
LEMMA MeanwhileKeeps ==
  ASSUME IInv, RowsGoOn, UNCHANGED <<issued, locks, pc, job>>,
         invitation' \in [Token -> Invitation],
         identity' \in [Email -> {"NONE", "BARE", "HOME"}],
         member' \in [Org -> [Email -> {"NONE", "ACTIVE", "ENDED"}]],
         \A i \in Token : /\ invitation'[i].status = invitation[i].status
                          /\ invitation'[i].token = invitation[i].token
  PROVE  IInv'
  <1>1. TypeOK /\ LocksExclusive /\ RowsAreWhole /\ \A q \in Request : Knows(q)
    BY DEF IInv
  <1>2. Sent' = Sent
    BY DEF Sent
  <1>3. TypeOK' /\ LocksExclusive' /\ RowsAreWhole'
    BY <1>1, <1>2 DEF TypeOK, LocksExclusive, RowsAreWhole, RowsGoOn
  <1>4. ASSUME NEW q \in Request PROVE Knows(q)'
    <2>1. LeavesTo(q)
      BY <1>1 DEF LeavesTo, Knows, DraftIsNew, TypeOK
    <2> QED BY <2>1, OthersKnow
  <1> QED BY <1>3, <1>4 DEF IInv

\* The request only moves on.
LEMMA ProceedKeeps ==
  ASSUME IInv, NEW r \in Request, NEW label \in Label, Proceed(r, label),
         RowIsThere(r)', RowIsHeld(r)', ComesAsInvited(r)'
  PROVE  IInv'
  <1> DEFINE mine == locks[r]
             j == job[r]
  <1>1. TypeOK /\ LocksExclusive
    BY DEF IInv
  <1>2. /\ j \in Job /\ mine \subseteq Token
        /\ \A q \in Request \ {r} : mine \cap locks[q] = {}
    BY <1>1 DEF TypeOK, LocksExclusive
  <1>3. /\ UNCHANGED rows /\ pc' = [pc EXCEPT ![r] = label]
        /\ locks' = [locks EXCEPT ![r] = mine] /\ job' = [job EXCEPT ![r] = j]
    BY <1>1 DEF Proceed, TypeOK
  <1>4. /\ j.op = job[r].op /\ j.org = job[r].org /\ j.email = job[r].email
        /\ j.token = job[r].token
    OBVIOUS
  <1> HIDE DEF mine, j
  <1> QED BY <1>2, <1>3, <1>4, GoOnKeeps

---------------------------------------------------------------------------
(* Every action *)

\* A request that arrives knows nothing yet that could turn false.
LEMMA ArriveKeeps ==
  ASSUME NothingIsNothing, IInv, NEW r \in Request, Arrive(r)
  PROVE  IInv'
  <1>1. TypeOK /\ RowsAreWhole
    BY DEF IInv
  <1>2. CASE RequestCreate(r)
    <2>1. PICK o \in Org, e \in Email, t \in Token :
            /\ Fresh(t)
            /\ Admit(r, [NoJob EXCEPT !.op = "create", !.org = o, !.email = e,
                                      !.token = t], "find")
      BY <1>2 DEF RequestCreate
    <2> DEFINE j == [NoJob EXCEPT !.op = "create", !.org = o, !.email = e,
                                  !.token = t]
    <2>2. /\ j \in Job /\ j.op = "create" /\ j.org = o /\ j.email = e
          /\ j.token = t /\ j.row = Nothing
      BY DEF NoJob, Job, Operation
    <2> HIDE DEF j
    <2> QED BY <2>1, <2>2, AdmitKeeps DEF j
  <1>3. CASE RequestResend(r)
    <2>1. PICK i \in Sent, t \in Token :
            /\ Fresh(t)
            /\ Admit(r, [op |-> "resend", org |-> invitation[i].org,
                         email |-> invitation[i].email, token |-> t, row |-> i],
                     "read")
      BY <1>3 DEF RequestResend
    <2> DEFINE j == [op |-> "resend", org |-> invitation[i].org,
                     email |-> invitation[i].email, token |-> t, row |-> i]
    <2>2. /\ j.op = "resend" /\ j.org = invitation[i].org
          /\ j.email = invitation[i].email /\ j.token = t /\ j.row = i
      OBVIOUS
    <2>3. invitation[i].org \in Org /\ invitation[i].email \in Email /\ i \in Token
      BY <1>1 DEF RowsAreWhole, Sent
    <2>4. j \in Job
      BY <2>3 DEF Job, Operation
    <2> HIDE DEF j
    <2> QED BY <2>1, <2>2, <2>3, <2>4, AdmitKeeps DEF j
  <1>4. CASE RequestRevoke(r)
    <2>1. PICK i \in Sent :
            Admit(r, [NoJob EXCEPT !.op = "revoke", !.row = i], "read")
      BY <1>4 DEF RequestRevoke
    <2> DEFINE j == [NoJob EXCEPT !.op = "revoke", !.row = i]
    <2>2. j \in Job /\ j.op = "revoke" /\ j.token = Nothing /\ j.row = i
      BY DEF NoJob, Job, Operation, Sent
    <2> HIDE DEF j
    <2> QED BY <2>1, <2>2, AdmitKeeps DEF j
  <1>5. CASE RequestAccept(r)
    <2>1. PICK t \in issued :
            \/ Admit(r, [NoJob EXCEPT !.op = "acceptNew", !.token = t], "lock")
            \/ \E e \in {x \in Email : identity[x] # "NONE"} :
                 Admit(r, [NoJob EXCEPT !.op = "acceptExisting", !.token = t,
                                        !.email = e], "lock")
      BY <1>5 DEF RequestAccept
    <2>2. t \in Token
      BY <1>1 DEF TypeOK
    <2>3. CASE Admit(r, [NoJob EXCEPT !.op = "acceptNew", !.token = t], "lock")
      <3> DEFINE j == [NoJob EXCEPT !.op = "acceptNew", !.token = t]
      <3>1. j \in Job /\ j.op = "acceptNew" /\ j.token = t /\ j.row = Nothing
        BY <2>2 DEF NoJob, Job, Operation
      <3> HIDE DEF j
      <3> QED BY <2>3, <3>1, AdmitKeeps DEF j
    <2>4. ASSUME NEW e \in Email, identity[e] # "NONE",
                 Admit(r, [NoJob EXCEPT !.op = "acceptExisting", !.token = t,
                                        !.email = e], "lock")
          PROVE  IInv'
      <3> DEFINE j == [NoJob EXCEPT !.op = "acceptExisting", !.token = t,
                                    !.email = e]
      <3>1. /\ j \in Job /\ j.op = "acceptExisting" /\ j.token = t
            /\ j.row = Nothing /\ j.email = e
        BY <2>2 DEF NoJob, Job, Operation
      <3> HIDE DEF j
      <3> QED BY <2>4, <3>1, AdmitKeeps DEF j
    <2> QED BY <2>1, <2>3, <2>4
  <1> QED BY <1>2, <1>3, <1>4, <1>5 DEF Arrive

\* Reading the row of an id found changes no row.
LEMMA ReadKeeps ==
  ASSUME NothingIsNothing, IInv, NEW r \in Request, ResendRead(r) \/ RevokeRead(r)
  PROVE  IInv'
  <1>1. CASE Refuse(r)
    BY <1>1, RefuseKeeps
  <1>2. ASSUME NEW label \in {"find", "write"}, Proceed(r, label)
        PROVE  IInv'
    <2>1. label \in Label \ Accepted /\ label # "read"
      BY DEF Label, Accepted
    <2>2. /\ TypeOK /\ Knows(r) /\ pc[r] = "read"
          /\ job[r].op \in {"resend", "revoke"}
      BY DEF IInv, ResendRead, RevokeRead, At
    <2>3. /\ pc'[r] = label /\ job'[r] = job[r] /\ locks'[r] = locks[r]
          /\ UNCHANGED <<invitation, identity, member>> /\ Sent' = Sent
      BY <1>2, <2>1, <2>2 DEF Proceed, rows, TypeOK, Sent
    <2>4. RowIsThere(r)' /\ RowIsHeld(r)'
      BY <2>1, <2>2, <2>3 DEF Knows, RowIsThere, RowIsHeld, Accepted
    <2>5. ComesAsInvited(r)'
      BY <2>1, <2>2, <2>3 DEF ComesAsInvited, Accepted
    <2> QED BY <1>2, <2>1, <2>4, <2>5, ProceedKeeps
  <1> QED BY <1>1, <1>2 DEF ResendRead, RevokeRead, ReadPending

\* Looking for the open invitation locks nothing, so it promises nothing.
LEMMA FindPendingKeeps ==
  ASSUME IInv, NEW r \in Request, FindPending(r)
  PROVE  IInv'
  <1>1. TypeOK /\ LocksExclusive /\ Knows(r) /\ job[r] \in Job
    BY DEF IInv, TypeOK
  <1>2. PICK i \in Sent \cup {Nothing} : Found(r, i, "write") /\ UNCHANGED locks
    BY DEF FindPending, PendingFor, Sent
  <1> DEFINE j == [job[r] EXCEPT !.row = i]
             mine == locks[r]
  <1>3. /\ j \in Job /\ j.op = job[r].op /\ j.org = job[r].org
        /\ j.email = job[r].email /\ j.token = job[r].token /\ j.row = i
    BY <1>1 DEF Job, Sent
  <1>4. /\ pc[r] = "find" /\ job[r].op \in {"create", "resend"}
        /\ mine = {} /\ "write" \in Label \ Accepted
    BY <1>1 DEF FindPending, At, Knows, RowIsHeld, Accepted, Label
  <1>5. /\ UNCHANGED rows /\ pc' = [pc EXCEPT ![r] = "write"]
        /\ locks' = [locks EXCEPT ![r] = mine] /\ job' = [job EXCEPT ![r] = j]
    BY <1>1, <1>2 DEF Found, TypeOK
  <1> HIDE DEF j, mine
  <1>6. pc'[r] = "write" /\ job'[r] = j /\ locks'[r] = {} /\ Sent' = Sent
    BY <1>1, <1>4, <1>5 DEF TypeOK, rows, Sent
  <1>7. RowIsThere(r)' /\ RowIsHeld(r)' /\ ComesAsInvited(r)'
    BY <1>3, <1>4, <1>6 DEF RowIsThere, RowIsHeld, ComesAsInvited, Accepted
  <1>8. mine \subseteq Token /\ \A q \in Request \ {r} : mine \cap locks[q] = {}
    BY <1>4
  <1> QED BY <1>3, <1>4, <1>5, <1>7, <1>8, GoOnKeeps

\* One row is written, and nothing else but what was sent.
LEMMA RowWritten ==
  ASSUME NothingIsNothing, IInv, NEW r \in Request, NEW i \in Token,
         NEW new \in Invitation, invitation' = [invitation EXCEPT ![i] = new],
         Answer(r), UNCHANGED <<identity, member>>,
         issued \subseteq issued', issued' \subseteq Token,
         \A t \in issued' \ issued :
           job[r].op \in {"create", "resend"} /\ t = job[r].token,
         \A q \in Request \ {r} : i \notin locks[q],
         new.status # "NONE", new.org \in Org, new.email \in Email,
         i \in issued',
         i \in Sent => new.org = invitation[i].org /\ new.email = invitation[i].email
  PROVE  IInv'
  <1>1. TypeOK /\ RowsAreWhole
    BY DEF IInv
  <1>2. /\ invitation' \in [Token -> Invitation] /\ invitation'[i] = new
        /\ \A k \in Token \ {i} : invitation'[k] = invitation[k]
    BY <1>1 DEF TypeOK
  <1>3. Sent' = Sent \cup {i}
    BY <1>2 DEF Sent
  <1>4. RowsGoOn
    BY <1>2, <1>3 DEF RowsGoOn, Sent
  <1>5. RowsAreWhole'
    BY <1>1, <1>2, <1>3 DEF RowsAreWhole, Sent
  <1>6. /\ identity' \in [Email -> {"NONE", "BARE", "HOME"}]
        /\ member' \in [Org -> [Email -> {"NONE", "ACTIVE", "ENDED"}]]
    BY <1>1 DEF TypeOK
  <1>7. \A q \in Request \ {r} : \A k \in locks[q] :
          invitation'[k] = invitation[k]
    BY <1>1, <1>2 DEF TypeOK
  <1> QED BY <1>2, <1>4, <1>5, <1>6, <1>7, AnswerKeeps

\* What Insert writes, when the unique index lets it.
Inserted(r) ==
  [status |-> "PENDING", org |-> job[r].org, email |-> job[r].email,
   token |-> job[r].token, expired |-> FALSE, acceptedBy |-> Nothing]

\* What INSERT does, unless the partial unique index refuses it.
LEMMA InsertWrites ==
  ASSUME IInv, NEW r \in Request, Insert(r)
  PROVE  \/ Refuse(r)
         \/ /\ PendingFor(job[r].org, job[r].email) = {}
            /\ job[r].op \in {"create", "resend"}
            /\ job[r].token \in Token \ issued /\ job[r].token \notin Sent
            /\ Inserted(r) \in Invitation
            /\ Inserted(r).org \in Org /\ Inserted(r).email \in Email
            /\ Inserted(r).status = "PENDING"
            /\ invitation' = [invitation EXCEPT ![job[r].token] = Inserted(r)]
            /\ issued' = issued \cup {job[r].token}
            /\ Answer(r) /\ UNCHANGED <<identity, member>>
  <1>1. Knows(r) /\ RowsAreWhole
    BY DEF IInv
  <1>2. job[r].op \in {"create", "resend"}
    BY DEF Insert, At
  <1>3. /\ job[r].org \in Org /\ job[r].email \in Email
        /\ job[r].token \in Token \ issued /\ job[r].token \notin Sent
    BY <1>1, <1>2 DEF Knows, DraftIsNew, RowsAreWhole
  <1>4. /\ Inserted(r) \in Invitation /\ Inserted(r).org = job[r].org
        /\ Inserted(r).email = job[r].email /\ Inserted(r).status = "PENDING"
    BY <1>3 DEF Inserted, Invitation
  <1> QED BY <1>2, <1>3, <1>4 DEF Insert, Inserted

\* An inserted invitation carries a token nobody else has.
LEMMA InsertKeeps ==
  ASSUME NothingIsNothing, IInv, NEW r \in Request, Insert(r)
  PROVE  IInv'
  <1>1. CASE Refuse(r)
    BY <1>1, RefuseKeeps
  <1>2. CASE ~Refuse(r)
    <2> DEFINE t == job[r].token
               new == Inserted(r)
    <2>1. /\ t \in Token \ issued /\ t \notin Sent /\ new \in Invitation
          /\ new.org \in Org /\ new.email \in Email /\ new.status = "PENDING"
          /\ invitation' = [invitation EXCEPT ![t] = new]
          /\ job[r].op \in {"create", "resend"}
          /\ issued' = issued \cup {t} /\ Answer(r) /\ UNCHANGED <<identity, member>>
      BY <1>2, InsertWrites
    <2>2. \A q \in Request \ {r} : t \notin locks[q]
      BY <2>1 DEF IInv, Knows, RowIsHeld
    <2>3. issued' \subseteq Token
      BY <2>1 DEF IInv, TypeOK
    <2>4. \A k \in issued' \ issued : k = job[r].token
      BY <2>1
    <2> HIDE DEF t, new
    <2> QED BY <2>1, <2>2, <2>3, <2>4, RowWritten
  <1> QED BY <1>1, <1>2

\* Replace and RevokeCommit write a row by its id, when nobody has locked it.
LEMMA ReplaceWrites ==
  ASSUME IInv, NEW r \in Request, Replace(r)
  PROVE  \E new \in Invitation :
           /\ invitation' = [invitation EXCEPT ![job[r].row] = new]
           /\ new.status = invitation[job[r].row].status
           /\ new.org = invitation[job[r].row].org
           /\ new.email = invitation[job[r].row].email
  <1> DEFINE i == job[r].row
             old == invitation[i]
             t == job[r].token
             new == [old EXCEPT !.token = t, !.expired = FALSE]
  <1>1. TypeOK /\ i \in Token /\ t \in Token
    BY DEF IInv, TypeOK, Knows, RowIsThere, DraftIsNew, Replace, At, Sent
  <1>2. old \in Invitation
    BY <1>1 DEF TypeOK
  <1>3. invitation' = [invitation EXCEPT ![i] = new]
    BY DEF Replace
  <1>4. /\ new \in Invitation /\ new.status = old.status
        /\ new.org = old.org /\ new.email = old.email
    <2> HIDE DEF old, t
    <2> QED BY <1>1, <1>2 DEF Invitation
  <1> HIDE DEF new
  <1> QED BY <1>3, <1>4

\* A resend replaces one invitation by another of the same address.
LEMMA ReplaceKeeps ==
  ASSUME NothingIsNothing, IInv, NEW r \in Request, Replace(r)
  PROVE  IInv'
  <1> DEFINE i == job[r].row
  <1>1. PICK new \in Invitation :
          /\ invitation' = [invitation EXCEPT ![i] = new]
          /\ new.status = invitation[i].status
          /\ new.org = invitation[i].org /\ new.email = invitation[i].email
    BY ReplaceWrites
  <1>2. /\ job[r].op \in {"create", "resend"} /\ i # Nothing /\ Free(r, i)
        /\ issued' = issued \cup {job[r].token} /\ Answer(r)
        /\ UNCHANGED <<identity, member>>
    BY DEF Replace, At
  <1>3. TypeOK /\ RowsAreWhole /\ i \in Sent /\ i \in Token
    BY <1>2 DEF IInv, Knows, RowIsThere, Sent
  <1>4. new.status # "NONE" /\ new.org \in Org /\ new.email \in Email /\ i \in issued
    BY <1>1, <1>3 DEF RowsAreWhole, Sent
  <1>5. job[r].token \in Token
    BY <1>2 DEF IInv, Knows, DraftIsNew
  <1>6. /\ issued' \subseteq Token /\ issued \subseteq issued' /\ i \in issued'
        /\ \A t \in issued' \ issued : t = job[r].token
    BY <1>2, <1>3, <1>4, <1>5 DEF TypeOK
  <1>7. \A q \in Request \ {r} : i \notin locks[q]
    BY <1>2 DEF Free
  <1> HIDE DEF i
  <1> QED BY <1>1, <1>2, <1>3, <1>4, <1>6, <1>7, RowWritten

\* A revoked invitation is nobody's to accept: its lock was free.
LEMMA RevokeCommitKeeps ==
  ASSUME NothingIsNothing, IInv, NEW r \in Request, RevokeCommit(r)
  PROVE  IInv'
  <1> DEFINE i == job[r].row
             old == invitation[i]
             new == [old EXCEPT !.status = "REVOKED"]
  <1>1. /\ job[r].op = "revoke" /\ Free(r, i) /\ Answer(r)
        /\ invitation' = [invitation EXCEPT ![i] = new]
        /\ UNCHANGED <<identity, member, issued>>
    BY DEF RevokeCommit, At
  <1>2. TypeOK /\ RowsAreWhole /\ i \in Sent /\ i \in Token
    BY <1>1 DEF IInv, Knows, RowIsThere, Sent
  <1>3. old \in Invitation /\ old.org \in Org /\ old.email \in Email /\ i \in issued
    BY <1>2 DEF RowsAreWhole, TypeOK
  <1>4. /\ new \in Invitation /\ new.status = "REVOKED"
        /\ new.org = old.org /\ new.email = old.email
    <2> HIDE DEF old
    <2> QED BY <1>3 DEF Invitation
  <1>5. /\ new.status # "NONE" /\ new.org \in Org /\ new.email \in Email
        /\ new.org = invitation[i].org /\ new.email = invitation[i].email
    BY <1>3, <1>4
  <1>6. issued \subseteq issued' /\ issued' \subseteq Token /\ issued' \ issued = {}
    BY <1>1, <1>2 DEF TypeOK
  <1>7. \A q \in Request \ {r} : i \notin locks[q]
    BY <1>1 DEF Free
  <1>8. i \in issued' /\ \A t \in issued' \ issued :
          job[r].op \in {"create", "resend"} /\ t = job[r].token
    BY <1>1, <1>3, <1>6
  <1> HIDE DEF i, new
  <1> QED BY <1>1, <1>2, <1>4, <1>5, <1>6, <1>7, <1>8, RowWritten

\* An acceptance takes a row that nobody else has locked.
LEMMA AcceptLockKeeps ==
  ASSUME NothingIsNothing, IInv, NEW r \in Request, AcceptLock(r)
  PROVE  IInv'
  <1>1. TypeOK /\ Knows(r) /\ job[r] \in Job
    BY DEF IInv, TypeOK
  <1>2. CASE Refuse(r)
    BY <1>2, RefuseKeeps
  <1>3. CASE ~Refuse(r)
    <2>1. PICK i \in ByToken(job[r].token) :
            /\ Free(r, i) /\ Acceptable(i) /\ Found(r, i, "identity")
            /\ locks' = [locks EXCEPT ![r] = {i}]
      BY <1>3 DEF AcceptLock
    <2> DEFINE j == [job[r] EXCEPT !.row = i]
               mine == {i}
    <2>2. i \in Sent /\ i \in Token /\ invitation[i].token = job[r].token
      BY <2>1 DEF ByToken, Sent
    <2>3. /\ j \in Job /\ j.op = job[r].op /\ j.org = job[r].org
          /\ j.email = job[r].email /\ j.token = job[r].token /\ j.row = i
      BY <1>1, <2>2 DEF Job
    <2>4. /\ UNCHANGED rows /\ pc' = [pc EXCEPT ![r] = "identity"]
          /\ locks' = [locks EXCEPT ![r] = mine]
          /\ job' = [job EXCEPT ![r] = j]
      BY <2>1 DEF Found
    <2>5. /\ mine \subseteq Token
          /\ \A q \in Request \ {r} : mine \cap locks[q] = {}
      BY <2>1, <2>2 DEF Free
    <2>6. job[r].op \in Accepting /\ invitation[i].status = "PENDING"
      BY <2>1 DEF AcceptLock, At, Acceptable
    <2>7. "identity" \in Label \cap Accepted
      BY DEF Label, Accepted
    <2>8. mine = {i}
      OBVIOUS
    <2> HIDE DEF j, mine
    <2>9. /\ pc'[r] = "identity" /\ job'[r] = j /\ locks'[r] = {i} /\ Sent' = Sent
          /\ UNCHANGED <<invitation, identity, member>>
      BY <1>1, <2>4, <2>7, <2>8 DEF TypeOK, rows, Sent
    <2>10. RowIsThere(r)'
      BY <1>1, <2>2, <2>3, <2>6, <2>9 DEF RowIsThere
    <2>11. RowIsHeld(r)'
      BY <2>2, <2>3, <2>6, <2>7, <2>9 DEF RowIsHeld
    <2>12. ComesAsInvited(r)'
      BY <1>1, <2>3, <2>9 DEF Knows, ComesAsInvited, Accepted
    <2> QED BY <2>3, <2>4, <2>5, <2>7, <2>10, <2>11, <2>12, GoOnKeeps
  <1> QED BY <1>2, <1>3

\* The steps between the lock and the commit.
LEMMA AcceptGoesOn ==
  ASSUME NothingIsNothing, IInv, NEW r \in Request,
         AcceptIdentity(r) \/ AcceptMembership(r)
  PROVE  IInv'
  <1>1. TypeOK /\ Knows(r) /\ pc[r] \in Accepted
    BY DEF IInv, AcceptIdentity, AcceptMembership, At, Accepted
  <1>2. CASE Refuse(r)
    BY <1>2, RefuseKeeps
  <1>3. ASSUME NEW label \in {"membership", "create", "overwrite"},
               Proceed(r, label),
               label \in {"membership", "overwrite"} => job[r].op = "acceptExisting",
               job[r].op = "acceptExisting" =>
                 invitation[job[r].row].email = job[r].email,
               label = "overwrite" =>
                 member[invitation[job[r].row].org][job[r].email] # "NONE"
        PROVE  IInv'
    <2>1. label \in Label \cap Accepted /\ label # "read"
      BY DEF Label, Accepted
    <2>2. /\ pc'[r] = label /\ job'[r] = job[r] /\ locks'[r] = locks[r]
          /\ UNCHANGED <<invitation, identity, member>> /\ Sent' = Sent
      BY <1>1, <1>3, <2>1 DEF Proceed, rows, TypeOK, Sent
    <2>3. RowIsThere(r)' /\ RowIsHeld(r)'
      BY <1>1, <2>1, <2>2 DEF Knows, RowIsThere, RowIsHeld
    <2>4. ComesAsInvited(r)'
      BY <1>1, <1>3, <2>1, <2>2 DEF Knows, ComesAsInvited
    <2> QED BY <1>3, <2>1, <2>3, <2>4, ProceedKeeps
  <1>4. CASE AcceptIdentity(r)
    BY <1>2, <1>3, <1>4 DEF AcceptIdentity, At
  <1>5. CASE AcceptMembership(r)
    <2>1. /\ job[r].op = "acceptExisting" /\ pc[r] = "membership"
      BY <1>5 DEF AcceptMembership, At
    <2>2. invitation[job[r].row].email = job[r].email
      BY <1>1, <2>1 DEF Knows, ComesAsInvited, Accepted
    <2> QED BY <1>2, <1>3, <1>5, <2>1, <2>2 DEF AcceptMembership
  <1> QED BY <1>4, <1>5

\* What a Join writes: a membership of the locked invitation's Organization
\* and address, and the invitation itself, open until then.
LEMMA JoinWrites ==
  ASSUME IInv, NEW r \in Request, AcceptCommit(r)
  PROVE  \/ Refuse(r)
         \/ LET i == job[r].row
                o == invitation[i].org
                e == invitation[i].email
            IN /\ i \in Token /\ i \in Sent /\ o \in Org /\ e \in Email
               /\ locks[r] = {i} /\ invitation[i].status = "PENDING"
               /\ job[r].op \in Accepting /\ job[r].token = invitation[i].token
               /\ job[r].op = "acceptNew" => identity[e] = "NONE"
               /\ member' = [member EXCEPT ![o][e] = "ACTIVE"]
               /\ identity' = [identity EXCEPT
                                 ![e] = IF @ = "NONE" THEN "BARE" ELSE @]
               /\ \E new \in Invitation :
                    /\ invitation' = [invitation EXCEPT ![i] = new]
                    /\ new.status = "ACCEPTED" /\ new.org = o /\ new.email = e
               /\ Answer(r) /\ issued' = issued
  <1> DEFINE i == job[r].row
             old == invitation[i]
             e == old.email
             new == [old EXCEPT !.status = "ACCEPTED", !.acceptedBy = e]
  <1>1. TypeOK /\ RowsAreWhole /\ Knows(r) /\ pc[r] \in Accepted
    BY DEF IInv, AcceptCommit, At, Accepted
  <1>2. /\ i \in Sent /\ i \in Token /\ locks[r] = {i} /\ old.status = "PENDING"
        /\ job[r].op \in Accepting /\ job[r].token = old.token
    BY <1>1 DEF Knows, RowIsHeld, Sent
  <1>3. old \in Invitation /\ old.org \in Org /\ e \in Email
    BY <1>1, <1>2 DEF RowsAreWhole, TypeOK
  <1>4. /\ new \in Invitation /\ new.status = "ACCEPTED"
        /\ new.org = old.org /\ new.email = e
    <2> HIDE DEF old
    <2>1. old.email \in Email
      BY <1>3
    <2> QED BY <1>3, <2>1 DEF Invitation
  <1>5. CASE Refuse(r)
    BY <1>5
  <1>6. CASE ~Refuse(r)
    <2>1. Join(r) /\ (job[r].op = "acceptNew" => identity[e] = "NONE")
      BY <1>6 DEF AcceptCommit
    <2>2. invitation' = [invitation EXCEPT ![i] = new]
      BY <2>1 DEF Join
    <2> QED BY <1>2, <1>3, <1>4, <2>1, <2>2 DEF Join
  <1> QED BY <1>5, <1>6

\* A membership of one Organization is written.
LEMMA MemberWritten ==
  ASSUME TypeOK, NEW o \in Org, NEW e \in Email,
         NEW s \in {"ACTIVE", "ENDED"}, member' = [member EXCEPT ![o][e] = s]
  PROVE  /\ member' \in [Org -> [Email -> {"NONE", "ACTIVE", "ENDED"}]]
         /\ member'[o][e] = s
         /\ \A p \in Org, x \in Email :
              p # o \/ x # e => member'[p][x] = member[p][x]
  <1> DEFINE mine == [member[o] EXCEPT ![e] = s]
  <1>1. member \in [Org -> [Email -> {"NONE", "ACTIVE", "ENDED"}]]
    BY DEF TypeOK
  <1>2. member[o] \in [Email -> {"NONE", "ACTIVE", "ENDED"}]
    BY <1>1
  <1>3. /\ mine \in [Email -> {"NONE", "ACTIVE", "ENDED"}] /\ mine[e] = s
        /\ \A x \in Email \ {e} : mine[x] = member[o][x]
    BY <1>2
  <1>4. member' = [member EXCEPT ![o] = mine]
    OBVIOUS
  <1> HIDE DEF mine
  <1>5. member'[o] = mine /\ \A p \in Org \ {o} : member'[p] = member[p]
    BY <1>1, <1>4
  <1> QED BY <1>1, <1>3, <1>4, <1>5

\* The COMMIT of an acceptance spends the row it has held.
LEMMA AcceptCommitKeeps ==
  ASSUME NothingIsNothing, IInv, NEW r \in Request, AcceptCommit(r)
  PROVE  IInv'
  <1>1. CASE Refuse(r)
    BY <1>1, RefuseKeeps
  <1>2. CASE ~Refuse(r)
    <2> DEFINE i == job[r].row
               o == invitation[i].org
               e == invitation[i].email
    <2>1. /\ i \in Token /\ i \in Sent /\ o \in Org /\ e \in Email
          /\ locks[r] = {i}
          /\ member' = [member EXCEPT ![o][e] = "ACTIVE"]
          /\ identity' = [identity EXCEPT ![e] = IF @ = "NONE" THEN "BARE" ELSE @]
          /\ Answer(r) /\ issued' = issued
      BY <1>2, JoinWrites
    <2>2. PICK new \in Invitation :
            /\ invitation' = [invitation EXCEPT ![i] = new]
            /\ new.status = "ACCEPTED" /\ new.org = o /\ new.email = e
      BY <1>2, JoinWrites
    <2>3. TypeOK /\ RowsAreWhole /\ LocksExclusive
      BY DEF IInv
    <2> HIDE DEF i, o, e
    <2>4. /\ invitation' \in [Token -> Invitation] /\ invitation'[i] = new
          /\ \A k \in Token \ {i} : invitation'[k] = invitation[k]
      BY <2>1, <2>2, <2>3 DEF TypeOK
    <2>5. /\ member' \in [Org -> [Email -> {"NONE", "ACTIVE", "ENDED"}]]
          /\ \A p \in Org, x \in Email :
               member[p][x] # "NONE" => member'[p][x] # "NONE"
      <3>1. /\ member' \in [Org -> [Email -> {"NONE", "ACTIVE", "ENDED"}]]
            /\ member'[o][e] = "ACTIVE"
            /\ \A p \in Org, x \in Email :
                 p # o \/ x # e => member'[p][x] = member[p][x]
        BY <2>1, <2>3, MemberWritten
      <3> QED BY <3>1
    <2>6. /\ identity' \in [Email -> {"NONE", "BARE", "HOME"}]
          /\ \A x \in Email : identity[x] # "NONE" => identity'[x] # "NONE"
      BY <2>1, <2>3 DEF TypeOK
    <2>7. Sent' = Sent
      BY <2>1, <2>2, <2>4 DEF Sent
    <2>8. invitation[i].org = o /\ invitation[i].email = e
      BY DEF o, e
    <2>9. RowsGoOn
      BY <2>1, <2>2, <2>4, <2>5, <2>6, <2>7, <2>8 DEF RowsGoOn, Sent
    <2>10. RowsAreWhole'
      BY <2>1, <2>2, <2>3, <2>4, <2>7 DEF RowsAreWhole, Sent
    <2>11. \A q \in Request \ {r} : \A k \in locks[q] :
             invitation'[k] = invitation[k]
      BY <2>1, <2>3, <2>4 DEF LocksExclusive, TypeOK
    <2>12. issued' \subseteq Token /\ issued' \ issued = {}
      BY <2>1, <2>3 DEF TypeOK
    <2> QED BY <2>1, <2>4, <2>5, <2>6, <2>9, <2>10, <2>11, <2>12, AnswerKeeps
  <1> QED BY <1>1, <1>2

\* What happens elsewhere leaves requests and rows that are locked alone.
LEMMA OutsideKeeps ==
  ASSUME IInv,
         \/ \E o \in Org, e \in Email : Leave(o, e)
         \/ \E e \in Email : Register(e)
         \/ \E i \in Token : Expire(i)
  PROVE  IInv'
  <1>1. TypeOK
    BY DEF IInv
  <1>2. ASSUME NEW o \in Org, NEW e \in Email, Leave(o, e) PROVE IInv'
    <2>1. /\ member' \in [Org -> [Email -> {"NONE", "ACTIVE", "ENDED"}]]
          /\ member'[o][e] = "ENDED"
          /\ \A p \in Org, x \in Email :
               p # o \/ x # e => member'[p][x] = member[p][x]
      BY <1>1, <1>2, MemberWritten DEF Leave
    <2>2. UNCHANGED <<invitation, identity, issued, locks, pc, job>>
      BY <1>2 DEF Leave
    <2>3. RowsGoOn
      BY <2>1, <2>2 DEF RowsGoOn, Sent
    <2>4. /\ invitation' \in [Token -> Invitation]
          /\ identity' \in [Email -> {"NONE", "BARE", "HOME"}]
      BY <1>1, <2>2 DEF TypeOK
    <2> QED BY <2>1, <2>2, <2>3, <2>4, MeanwhileKeeps
  <1>3. ASSUME NEW e \in Email, Register(e) PROVE IInv'
    <2>1. UNCHANGED <<invitation, member, issued, locks, pc, job>>
      BY <1>3 DEF Register
    <2>2. /\ identity' \in [Email -> {"NONE", "BARE", "HOME"}]
          /\ \A x \in Email : identity[x] # "NONE" => identity'[x] # "NONE"
      BY <1>1, <1>3 DEF Register, TypeOK
    <2>3. RowsGoOn
      BY <2>1, <2>2 DEF RowsGoOn, Sent
    <2>4. /\ invitation' \in [Token -> Invitation]
          /\ member' \in [Org -> [Email -> {"NONE", "ACTIVE", "ENDED"}]]
      BY <1>1, <2>1 DEF TypeOK
    <2> QED BY <2>1, <2>2, <2>3, <2>4, MeanwhileKeeps
  <1>4. ASSUME NEW i \in Token, Expire(i) PROVE IInv'
    <2> DEFINE old == invitation[i]
               new == [old EXCEPT !.expired = TRUE]
    <2>1. old \in Invitation
      BY <1>1 DEF TypeOK
    <2>2. /\ new \in Invitation /\ new.status = old.status /\ new.org = old.org
          /\ new.email = old.email /\ new.token = old.token
      <3> HIDE DEF old
      <3> QED BY <2>1 DEF Invitation
    <2>3. /\ invitation' = [invitation EXCEPT ![i] = new]
          /\ UNCHANGED <<identity, member, issued, locks, pc, job>>
      BY <1>4 DEF Expire
    <2> HIDE DEF new
    <2>4. /\ invitation' \in [Token -> Invitation]
          /\ \A k \in Token : /\ invitation'[k].status = invitation[k].status
                              /\ invitation'[k].token = invitation[k].token
                              /\ invitation'[k].org = invitation[k].org
                              /\ invitation'[k].email = invitation[k].email
      BY <1>1, <2>2, <2>3 DEF TypeOK
    <2>5. RowsGoOn
      BY <2>3, <2>4 DEF RowsGoOn, Sent
    <2>6. /\ identity' \in [Email -> {"NONE", "BARE", "HOME"}]
          /\ member' \in [Org -> [Email -> {"NONE", "ACTIVE", "ENDED"}]]
      BY <1>1, <2>3 DEF TypeOK
    <2> QED BY <2>3, <2>4, <2>5, <2>6, MeanwhileKeeps
  <1> QED BY <1>2, <1>3, <1>4

\* Every step keeps IInv.
LEMMA NextIInv ==
  ASSUME NothingIsNothing, IInv, [Next]_vars
  PROVE  IInv'
  <1>1. CASE UNCHANGED vars
    BY <1>1 DEF IInv, TypeOK, LocksExclusive, RowsAreWhole, Knows, DraftIsNew,
       RowIsThere, RowIsHeld, ComesAsInvited, Sent, vars
  <1>2. ASSUME NEW r \in Request, Arrive(r) \/ Timeout(r)
        PROVE  IInv'
    BY <1>2, ArriveKeeps, RefuseKeeps DEF Timeout
  <1>3. ASSUME NEW r \in Request, Serve(r)
        PROVE  IInv'
    BY <1>3, ReadKeeps, FindPendingKeeps, InsertKeeps, ReplaceKeeps,
       RevokeCommitKeeps, AcceptLockKeeps, AcceptGoesOn, AcceptCommitKeeps
    DEF Serve
  <1> QED BY <1>1, <1>2, <1>3, OutsideKeeps DEF Next

\* IInv is inductive.
THEOREM InductiveInvariant == ASSUME NothingIsNothing PROVE Spec => []IInv
  <1>1. IInv /\ [Next]_vars => IInv'
    BY NextIInv
  <1> QED BY InitIInv, <1>1, PTL DEF Spec

\* An acceptance past its lock always has a row, and every variable its type.
THEOREM TypeCorrect == ASSUME NothingIsNothing PROVE Spec => []TypeOK
  <1>1. IInv => TypeOK
    BY DEF IInv
  <1> QED BY InductiveInvariant, <1>1, PTL

---------------------------------------------------------------------------
(* One open invitation per address *)

\* The steps that write no invitation.
LEMMA InvitationsKept ==
  ASSUME [Next]_vars
  PROVE  \/ invitation' = invitation
         \/ \E r \in Request :
              Insert(r) \/ Replace(r) \/ RevokeCommit(r) \/ AcceptCommit(r)
         \/ \E i \in Token : Expire(i)
  BY DEF Next, vars, rows, Arrive, RequestCreate, RequestResend, RequestRevoke,
     RequestAccept, Admit, Serve, ResendRead, RevokeRead, ReadPending, FindPending,
     AcceptLock, AcceptIdentity, AcceptMembership, Proceed, Found, Refuse,
     Timeout, Leave, Register

\* But for an insertion, what is open was open before.
LEMMA OpenStaysOpen ==
  ASSUME IInv, [Next]_vars, \A r \in Request : ~Insert(r) \/ Refuse(r),
         NEW o, NEW e
  PROVE  PendingFor(o, e)' \subseteq PendingFor(o, e)
  <1>1. TypeOK
    BY DEF IInv
  <1>2. CASE invitation' = invitation
    BY <1>2 DEF PendingFor
  <1>3. ASSUME NEW i \in Token, NEW new \in Invitation,
               invitation' = [invitation EXCEPT ![i] = new],
               \/ new.status # "PENDING"
               \/ /\ new.status = invitation[i].status
                  /\ new.org = invitation[i].org
                  /\ new.email = invitation[i].email
        PROVE  PendingFor(o, e)' \subseteq PendingFor(o, e)
    <2>1. invitation'[i] = new /\
          \A k \in Token \ {i} : invitation'[k] = invitation[k]
      BY <1>1, <1>3 DEF TypeOK
    <2> QED BY <1>3, <2>1 DEF PendingFor
  <1>4. ASSUME NEW r \in Request, Refuse(r)
        PROVE  PendingFor(o, e)' \subseteq PendingFor(o, e)
    BY <1>4 DEF Refuse, rows, PendingFor
  <1>5. ASSUME NEW r \in Request, Replace(r)
        PROVE  PendingFor(o, e)' \subseteq PendingFor(o, e)
    <2>1. job[r].row \in Token
      BY <1>5 DEF Replace, IInv, Knows, RowIsThere, Sent
    <2> QED BY <1>3, <1>5, <2>1, ReplaceWrites
  <1>6. ASSUME NEW r \in Request, RevokeCommit(r)
        PROVE  PendingFor(o, e)' \subseteq PendingFor(o, e)
    <2> DEFINE i == job[r].row
               new == [invitation[i] EXCEPT !.status = "REVOKED"]
    <2>1. i \in Token
      BY <1>6 DEF RevokeCommit, At, IInv, Knows, RowIsThere, Sent
    <2>2. new \in Invitation /\ new.status # "PENDING"
      BY <1>1, <2>1 DEF TypeOK, Invitation
    <2>3. invitation' = [invitation EXCEPT ![i] = new]
      BY <1>6 DEF RevokeCommit
    <2> HIDE DEF new
    <2> QED BY <1>3, <2>1, <2>2, <2>3
  <1>7. ASSUME NEW r \in Request, AcceptCommit(r)
        PROVE  PendingFor(o, e)' \subseteq PendingFor(o, e)
    <2>1. CASE Refuse(r)
      BY <1>4, <2>1
    <2>2. CASE ~Refuse(r)
      <3>1. job[r].row \in Token
        BY <1>7, <2>2, JoinWrites
      <3>2. PICK new \in Invitation :
              /\ invitation' = [invitation EXCEPT ![job[r].row] = new]
              /\ new.status = "ACCEPTED"
        BY <1>7, <2>2, JoinWrites
      <3> QED BY <1>3, <3>1, <3>2
    <2> QED BY <2>1, <2>2
  <1>8. ASSUME NEW i \in Token, Expire(i)
        PROVE  PendingFor(o, e)' \subseteq PendingFor(o, e)
    <2> DEFINE old == invitation[i]
               new == [old EXCEPT !.expired = TRUE]
    <2>1. old \in Invitation /\ invitation' = [invitation EXCEPT ![i] = new]
      BY <1>1, <1>8 DEF TypeOK, Expire
    <2>2. /\ new \in Invitation /\ new.status = old.status /\ new.org = old.org
          /\ new.email = old.email
      <3> HIDE DEF old
      <3> QED BY <2>1 DEF Invitation
    <2> HIDE DEF new
    <2> QED BY <1>3, <2>1, <2>2
  <1> QED BY <1>2, <1>4, <1>5, <1>6, <1>7, <1>8, InvitationsKept

\* OnePendingPerEmail without counting.
OneOpen ==
  \A o \in Org, e \in Email : \A i, k \in PendingFor(o, e) : i = k

\* An INSERT that is not refused finds no open invitation.
LEMMA InsertKeepsOneOpen ==
  ASSUME IInv, OneOpen, NEW r \in Request, Insert(r), ~Refuse(r)
  PROVE  OneOpen'
  <1> DEFINE t == job[r].token
             new == Inserted(r)
  <1>1. /\ PendingFor(job[r].org, job[r].email) = {} /\ t \in Token
        /\ invitation' = [invitation EXCEPT ![t] = new]
    BY InsertWrites
  <1>2. new.org = job[r].org /\ new.email = job[r].email
    BY DEF Inserted
  <1>3. TypeOK
    BY DEF IInv
  <1> HIDE DEF t, new
  <1>4. /\ invitation'[t] = new
        /\ \A k \in Token \ {t} : invitation'[k] = invitation[k]
    BY <1>1, <1>3 DEF TypeOK
  <1>5. ASSUME NEW o \in Org, NEW e \in Email,
               NEW i \in PendingFor(o, e)', NEW k \in PendingFor(o, e)'
        PROVE  i = k
    <2>1. CASE o = job[r].org /\ e = job[r].email
      BY <1>1, <1>4, <1>5, <2>1 DEF PendingFor
    <2>2. CASE ~(o = job[r].org /\ e = job[r].email)
      <3>1. i \in PendingFor(o, e) /\ k \in PendingFor(o, e)
        BY <1>2, <1>4, <1>5, <2>2 DEF PendingFor
      <3> QED BY <3>1 DEF OneOpen
    <2> QED BY <2>1, <2>2
  <1> QED BY <1>5 DEF OneOpen

\* A set without two elements counts at most one.
LEMMA AtMostOne ==
  ASSUME NEW S, \A x, y \in S : x = y
  PROVE  Cardinality(S) <= 1
  <1>1. CASE S = {}
    BY <1>1, FS_EmptySet
  <1>2. CASE S # {}
    <2>1. PICK x \in S : TRUE
      BY <1>2
    <2>2. S = {x}
      BY <2>1
    <2>3. Cardinality({x}) = 1
      BY FS_Singleton
    <2> QED BY <2>2, <2>3
  <1> QED BY <1>1, <1>2

\* An Organization never has two open invitations for one address
\* (invitations.service.ts 207-209): create and resend look for the open one
\* without a lock, and the partial unique index refuses the second INSERT.
THEOREM OnePending ==
  ASSUME NothingIsNothing PROVE Spec => []OnePendingPerEmail
  <1>1. Init => OneOpen
    BY DEF Init, OneOpen, PendingFor, NoInvitation
  <1>2. IInv /\ OneOpen /\ [Next]_vars => OneOpen'
    <2> SUFFICES ASSUME IInv, OneOpen, [Next]_vars PROVE OneOpen'
      OBVIOUS
    <2>1. CASE \A r \in Request : ~Insert(r) \/ Refuse(r)
      <3>1. \A o \in Org, e \in Email :
              PendingFor(o, e)' \subseteq PendingFor(o, e)
        BY <2>1, OpenStaysOpen
      <3> QED BY <3>1 DEF OneOpen
    <2>2. CASE \E r \in Request : Insert(r) /\ ~Refuse(r)
      BY <2>2, InsertKeepsOneOpen
    <2> QED BY <2>1, <2>2
  <1>3. OneOpen => OnePendingPerEmail
    BY AtMostOne DEF OneOpen, OnePendingPerEmail
  <1> QED BY InductiveInvariant, <1>1, <1>2, <1>3, PTL DEF Spec

---------------------------------------------------------------------------
(* Who becomes a member *)

\* The steps that write no membership.
LEMMA MembersKept ==
  ASSUME [Next]_vars
  PROVE  \/ member' = member
         \/ \E r \in Request : AcceptCommit(r)
         \/ \E o \in Org, e \in Email : Leave(o, e)
  BY DEF Next, vars, rows, Arrive, RequestCreate, RequestResend, RequestRevoke,
     RequestAccept, Admit, Serve, ResendRead, RevokeRead, ReadPending, FindPending,
     Insert, Replace, RevokeCommit, AcceptLock, AcceptIdentity, AcceptMembership,
     Proceed, Found, Refuse, Timeout, Register, Expire

\* Whoever becomes a member uses up, in the same step, an invitation of that
\* Organization to that address which is open and carries the very token that
\* was presented: a revoked, a replaced or an accepted token admits nobody,
\* though it was read several statements earlier.
THEOREM JoiningNeedsInvitation ==
  ASSUME NothingIsNothing PROVE Spec => JoinNeedsOpenInvitation
  <1>1. ASSUME IInv, [Next]_vars, NEW o \in Org, NEW e \in Email,
               member'[o][e] = "ACTIVE", member[o][e] # "ACTIVE"
        PROVE  \E i \in PendingFor(o, e), r \in Request :
                 /\ job[r].op \in Accepting /\ job[r].token = invitation[i].token
                 /\ invitation'[i].status = "ACCEPTED"
    <2>1. TypeOK
      BY <1>1 DEF IInv
    <2>2. ASSUME NEW p \in Org, NEW x \in Email, Leave(p, x) PROVE FALSE
      <3>1. /\ member'[p][x] = "ENDED"
            /\ \A q \in Org, y \in Email :
                 q # p \/ y # x => member'[q][y] = member[q][y]
        BY <2>1, <2>2, MemberWritten DEF Leave
      <3> QED BY <1>1, <3>1
    <2>3. PICK r \in Request : AcceptCommit(r)
      BY <1>1, <2>2, MembersKept
    <2>4. ~Refuse(r)
      BY <1>1 DEF Refuse, rows
    <2> DEFINE i == job[r].row
               p == invitation[i].org
               x == invitation[i].email
    <2>5. /\ i \in Token /\ p \in Org /\ x \in Email
          /\ invitation[i].status = "PENDING"
          /\ job[r].op \in Accepting /\ job[r].token = invitation[i].token
          /\ member' = [member EXCEPT ![p][x] = "ACTIVE"]
      BY <1>1, <2>3, <2>4, JoinWrites
    <2>6. PICK new \in Invitation :
            invitation' = [invitation EXCEPT ![i] = new] /\ new.status = "ACCEPTED"
      BY <1>1, <2>3, <2>4, JoinWrites
    <2>7. p = o /\ x = e
      <3> HIDE DEF p, x, i
      <3>1. \A q \in Org, y \in Email :
              q # p \/ y # x => member'[q][y] = member[q][y]
        BY <2>1, <2>5, MemberWritten
      <3> QED BY <1>1, <3>1
    <2>8. i \in PendingFor(o, e)
      BY <2>5, <2>7 DEF PendingFor
    <2>9. invitation'[i].status = "ACCEPTED"
      BY <2>1, <2>5, <2>6 DEF TypeOK
    <2> QED BY <2>5, <2>8, <2>9
  <1>2. IInv /\ [Next]_vars => JoinStep
    BY <1>1 DEF JoinStep
  <1> QED BY InductiveInvariant, <1>2, PTL DEF Spec, JoinNeedsOpenInvitation

---------------------------------------------------------------------------
(* One Organization for each identity *)

\* An identity that registered, or came by an invitation, belongs to one
\* Organization from the start and to the same one ever after.
BelongsOnce(e) ==
  /\ \A o, p \in Org : member[o][e] # "NONE" /\ member[p][e] # "NONE" => o = p
  /\ \A o \in Org : member[o][e] # "NONE" => identity[e] = "BARE"
  /\ identity[e] = "BARE" => \E o \in Org : member[o][e] # "NONE"

\* Only an identity without any membership is about to get one with a session.
CreatesForKnown(r) ==
  job[r].op = "acceptExisting" /\ pc[r] = "create" => job[r].email \in Known

NewcomersInv ==
  /\ \A e \in Email \ Known : BelongsOnce(e)
  /\ \A r \in Request : CreatesForKnown(r)

\* The steps that write no identity.
LEMMA IdentitiesKept ==
  ASSUME [Next]_vars
  PROVE  \/ identity' = identity
         \/ \E r \in Request : AcceptCommit(r)
         \/ \E e \in Email : Register(e)
  BY DEF Next, vars, rows, Arrive, RequestCreate, RequestResend, RequestRevoke,
     RequestAccept, Admit, Serve, ResendRead, RevokeRead, ReadPending, FindPending,
     Insert, Replace, RevokeCommit, AcceptLock, AcceptIdentity, AcceptMembership,
     Proceed, Found, Refuse, Timeout, Leave, Expire

\* Only AcceptMembership brings an identity with a session to "create".
LEMMA CreateReached ==
  ASSUME TypeOK, [Next]_vars, NEW q \in Request,
         pc'[q] = "create", job'[q].op = "acceptExisting"
  PROVE  \/ AcceptMembership(q) /\ job'[q] = job[q]
         \/ pc[q] = "create" /\ job'[q] = job[q]
  <1>1. ASSUME NEW r \in Request, NEW label, NEW j,
               pc' = [pc EXCEPT ![r] = label], job' = [job EXCEPT ![r] = j],
               label # "create"
        PROVE  pc[q] = "create" /\ job'[q] = job[q]
    BY <1>1 DEF TypeOK
  <1>2. ASSUME NEW r \in Request, Answer(r)
        PROVE  pc[q] = "create" /\ job'[q] = job[q]
    BY <1>1, <1>2 DEF Answer
  <1>3. ASSUME NEW r \in Request, NEW label, Proceed(r, label)
        PROVE  job'[q] = job[q] /\ (r # q \/ label # "create" => pc[q] = "create")
    BY <1>3 DEF Proceed, TypeOK
  <1>4. ASSUME NEW r \in Request, NEW i, NEW label, Found(r, i, label),
               label # "create"
        PROVE  pc[q] = "create" /\ job'[q] = job[q]
    BY <1>1, <1>4 DEF Found
  <1>5. CASE UNCHANGED <<pc, job>>
    BY <1>5
  <1>6. ASSUME NEW r \in Request, Arrive(r)
        PROVE  pc[q] = "create" /\ job'[q] = job[q]
    <2>1. ASSUME NEW label, NEW j, Admit(r, j, label), label # "create"
          PROVE  pc[q] = "create" /\ job'[q] = job[q]
      BY <1>1, <2>1 DEF Admit
    <2> QED BY <1>6, <2>1
        DEF Arrive, RequestCreate, RequestResend, RequestRevoke, RequestAccept
  <1>7. ASSUME NEW r \in Request,
               ResendRead(r) \/ RevokeRead(r) \/ FindPending(r) \/ AcceptLock(r)
        PROVE  pc[q] = "create" /\ job'[q] = job[q]
    BY <1>2, <1>3, <1>4, <1>7
    DEF ResendRead, RevokeRead, ReadPending, FindPending, AcceptLock, Refuse
  <1>8. ASSUME NEW r \in Request,
               Insert(r) \/ Replace(r) \/ RevokeCommit(r) \/ AcceptCommit(r)
        PROVE  pc[q] = "create" /\ job'[q] = job[q]
    BY <1>2, <1>8
    DEF Insert, Replace, RevokeCommit, AcceptCommit, Join, Refuse
  <1>9. ASSUME NEW r \in Request, AcceptIdentity(r)
        PROVE  pc[q] = "create" /\ job'[q] = job[q]
    <2>1. CASE Refuse(r)
      BY <1>2, <2>1 DEF Refuse
    <2>2. CASE Proceed(r, "membership")
      BY <1>3, <2>2
    <2>3. CASE Proceed(r, "create") /\ job[r].op = "acceptNew"
      BY <1>3, <2>3
    <2> QED BY <1>9, <2>1, <2>2, <2>3 DEF AcceptIdentity
  <1>10. ASSUME NEW r \in Request, AcceptMembership(r)
         PROVE  \/ AcceptMembership(q) /\ job'[q] = job[q]
                \/ pc[q] = "create" /\ job'[q] = job[q]
    <2>1. CASE Refuse(r)
      BY <1>2, <2>1 DEF Refuse
    <2>2. CASE Proceed(r, "overwrite")
      BY <1>3, <2>2
    <2>3. CASE Proceed(r, "create")
      BY <1>3, <1>10, <2>3
    <2> QED BY <1>10, <2>1, <2>2, <2>3 DEF AcceptMembership
  <1>11. ASSUME NEW r \in Request, Timeout(r)
         PROVE  pc[q] = "create" /\ job'[q] = job[q]
    BY <1>2, <1>11 DEF Timeout, Refuse
  <1> QED BY <1>5, <1>6, <1>7, <1>8, <1>9, <1>10, <1>11
      DEF Next, Serve, Leave, Register, Expire, vars

\* With a session, only a known identity is about to get a membership.
LEMMA CreatesForKnownKept ==
  ASSUME IInv, NewcomersInv, [Next]_vars, NEW r \in Request
  PROVE  CreatesForKnown(r)'
  <1> SUFFICES ASSUME job'[r].op = "acceptExisting", pc'[r] = "create"
               PROVE  job'[r].email \in Known
    BY DEF CreatesForKnown
  <1>1. TypeOK
    BY DEF IInv
  <1>2. CASE pc[r] = "create" /\ job'[r] = job[r]
    BY <1>2 DEF NewcomersInv, CreatesForKnown
  <1>3. CASE AcceptMembership(r) /\ job'[r] = job[r]
    <2> DEFINE i == invitation[job[r].row]
    <2>1. pc[r] = "membership" /\ job[r].op = "acceptExisting"
      BY <1>3 DEF AcceptMembership, At
    <2>2. /\ i.email = job[r].email /\ i.org \in Org /\ i.email \in Email
          /\ identity[i.email] # "NONE"
      BY <2>1 DEF IInv, Knows, ComesAsInvited, RowIsHeld, RowsAreWhole, Accepted
    <2> HIDE DEF i
    <2>3. ~Elsewhere(i.org, i.email) /\ member[i.org][i.email] = "NONE"
      BY <1>1, <1>3 DEF AcceptMembership, Refuse, Answer, Proceed, TypeOK, i
    <2>4. \A p \in Org : member[p][i.email] = "NONE"
      BY <2>3 DEF Elsewhere
    <2>5. identity[i.email] = "BARE"
      BY <1>1, <2>2, <2>3 DEF Elsewhere, TypeOK
    <2>6. ~BelongsOnce(i.email)
      BY <2>4, <2>5 DEF BelongsOnce
    <2>7. i.email \in Known
      BY <2>2, <2>6 DEF NewcomersInv
    <2> QED BY <1>3, <2>2, <2>7
  <1> QED BY <1>1, <1>2, <1>3, CreateReached

\* A newcomer joins with the step that creates its identity, or not at all.
LEMMA BelongsOnceKept ==
  ASSUME IInv, NewcomersInv, [Next]_vars, NEW e \in Email \ Known
  PROVE  BelongsOnce(e)'
  <1>1. TypeOK /\ BelongsOnce(e)
    BY DEF IInv, NewcomersInv
  <1>2. CASE member' = member /\ identity' = identity
    BY <1>1, <1>2 DEF BelongsOnce
  <1>3. ASSUME NEW o \in Org, NEW x \in Email, Leave(o, x)
        PROVE  BelongsOnce(e)'
    <2>1. /\ member'[o][x] = "ENDED" /\ member[o][x] = "ACTIVE"
          /\ \A p \in Org, y \in Email :
               p # o \/ y # x => member'[p][y] = member[p][y]
      BY <1>1, <1>3, MemberWritten DEF Leave
    <2>2. identity' = identity
      BY <1>3 DEF Leave
    <2>3. \A p \in Org : member'[p][e] # "NONE" <=> member[p][e] # "NONE"
      BY <2>1
    <2> QED BY <1>1, <2>2, <2>3 DEF BelongsOnce
  <1>4. ASSUME NEW x \in Email, Register(x)
        PROVE  BelongsOnce(e)'
    <2>1. /\ member' = member /\ identity[x] = "NONE" /\ identity'[x] = "HOME"
          /\ \A y \in Email \ {x} : identity'[y] = identity[y]
      BY <1>1, <1>4 DEF Register, TypeOK
    <2>2. CASE e = x
      BY <1>1, <2>1, <2>2 DEF BelongsOnce
    <2>3. CASE e # x
      BY <1>1, <2>1, <2>3 DEF BelongsOnce
    <2> QED BY <2>2, <2>3
  <1>5. ASSUME NEW r \in Request, AcceptCommit(r), ~Refuse(r)
        PROVE  BelongsOnce(e)'
    <2> DEFINE o == invitation[job[r].row].org
               x == invitation[job[r].row].email
    <2>1. /\ o \in Org /\ x \in Email /\ job[r].op \in Accepting
          /\ job[r].op = "acceptNew" => identity[x] = "NONE"
          /\ member' = [member EXCEPT ![o][x] = "ACTIVE"]
          /\ identity' = [identity EXCEPT ![x] = IF @ = "NONE" THEN "BARE" ELSE @]
      BY <1>5, JoinWrites
    <2>2. /\ pc[r] \in {"create", "overwrite"}
          /\ job[r].op = "acceptExisting" => job[r].email = x
          /\ pc[r] = "overwrite" => job[r].op = "acceptExisting"
          /\ pc[r] = "overwrite" => member[o][x] # "NONE"
      BY <1>5 DEF AcceptCommit, At, IInv, Knows, ComesAsInvited, Accepted
    <2>3. job[r].op = "acceptExisting" /\ pc[r] = "create" => x \in Known
      BY <2>2 DEF NewcomersInv, CreatesForKnown
    <2> HIDE DEF o, x
    <2>4. /\ member'[o][x] = "ACTIVE"
          /\ \A p \in Org, y \in Email :
               p # o \/ y # x => member'[p][y] = member[p][y]
      BY <1>1, <2>1, MemberWritten
    <2>5. /\ identity'[x] = IF identity[x] = "NONE" THEN "BARE" ELSE identity[x]
          /\ \A y \in Email \ {x} : identity'[y] = identity[y]
      BY <1>1, <2>1 DEF TypeOK
    <2>6. CASE e # x
      BY <1>1, <2>4, <2>5, <2>6 DEF BelongsOnce
    <2>7. CASE e = x /\ job[r].op = "acceptNew"
      <3>1. \A p \in Org : member[p][e] = "NONE"
        BY <1>1, <2>1, <2>7 DEF BelongsOnce
      <3>2. /\ \A p \in Org \ {o} : member'[p][e] = "NONE"
            /\ member'[o][e] = "ACTIVE" /\ identity'[e] = "BARE"
        BY <2>1, <2>4, <2>5, <2>7, <3>1
      <3> QED BY <2>1, <3>2 DEF BelongsOnce
    <2>8. CASE e = x /\ job[r].op = "acceptExisting"
      <3>1. member[o][e] # "NONE"
        BY <2>2, <2>3, <2>8
      <3>2. identity[e] = "BARE"
        BY <1>1, <2>1, <3>1 DEF BelongsOnce
      <3>3. identity'[e] = "BARE"
        BY <2>5, <2>8, <3>2
      <3>4. \A p \in Org : member'[p][e] # "NONE" <=> member[p][e] # "NONE"
        BY <2>1, <2>4, <2>8, <3>1
      <3> QED BY <1>1, <3>1, <3>3, <3>4, <2>1 DEF BelongsOnce
    <2> QED BY <2>1, <2>6, <2>7, <2>8 DEF Accepting
  <1>6. ASSUME NEW r \in Request, Refuse(r)
        PROVE  member' = member /\ identity' = identity
    BY <1>6 DEF Refuse, rows
  <1>7. \/ member' = member /\ identity' = identity
        \/ \E r \in Request : AcceptCommit(r)
        \/ \E o \in Org, x \in Email : Leave(o, x)
        \/ \E x \in Email : Register(x)
    BY MembersKept, IdentitiesKept
  <1> QED BY <1>2, <1>3, <1>4, <1>5, <1>6, <1>7

\* Whoever is not known beforehand belongs to one Organization at most (SEC-13,
\* schema.prisma 8-10), the one it registered included: acceptExisting looks
\* for other memberships without a lock, and needs none, for such an identity
\* has a membership from the moment there is an identity.
THEOREM NewcomersBelongOnce ==
  ASSUME NothingIsNothing
  PROVE  Spec => [](\A e \in Email \ Known : OneOrganizationOf(e))
  <1>1. Init => NewcomersInv
    BY NoJobType DEF Init, NewcomersInv, BelongsOnce, CreatesForKnown
  <1>2. IInv /\ NewcomersInv /\ [Next]_vars => NewcomersInv'
    BY CreatesForKnownKept, BelongsOnceKept DEF NewcomersInv
  <1>3. NewcomersInv => \A e \in Email \ Known : OneOrganizationOf(e)
    <2> SUFFICES ASSUME NewcomersInv, NEW e \in Email \ Known
                 PROVE  OneOrganizationOf(e)
      OBVIOUS
    <2> DEFINE joined == {o \in Org : member[o][e] # "NONE"}
    <2>1. BelongsOnce(e)
      BY DEF NewcomersInv
    <2>2. \A o, p \in joined : o = p
      BY <2>1 DEF BelongsOnce
    <2>3. identity[e] = "HOME" => joined = {}
      BY <2>1 DEF BelongsOnce
    <2> HIDE DEF joined
    <2>4. Cardinality(joined) <= 1
      BY <2>2, AtMostOne
    <2> QED BY <2>3, <2>4 DEF OneOrganizationOf, joined
  <1> QED BY InductiveInvariant, <1>1, <1>2, <1>3, PTL DEF Spec

\* Where every identity comes by registration or invitation, and none is there
\* before like a Platform Administrator's, nobody belongs to two Organizations.
THEOREM BelongingIsUnique ==
  ASSUME NothingIsNothing, Known = {} PROVE Spec => []OneOrganization
  <1>1. (\A e \in Email \ Known : OneOrganizationOf(e)) => OneOrganization
    BY DEF OneOrganization
  <1> QED BY NewcomersBelongOnce, <1>1, PTL
====
