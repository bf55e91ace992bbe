------------------------- MODULE MembershipProofs -------------------------
(***************************************************************************)
(* Theorems about Membership, for every set of members, proposals and      *)
(* concurrent requests.                                                    *)
(***************************************************************************)
EXTENDS Membership, TLAPS

---------------------------------------------------------------------------
(* Types.  A job names the rows its operation needs; a proposal that       *)
(* exists names its two members.                                           *)

JobShape(j) ==
  /\ j.op \in Transitions \cup {"promote", "propose", "join"}
       => j.target \in Member
  /\ j.op \in {"propose", "cancel", "accept"}
       => j.proposal \in Proposal /\ j.actor \in Member

Shape ==
  /\ \A r \in Request : JobShape(job[r])
  /\ \A r \in Request : pc[r] = "revoke" => job[r].target \in Member
  /\ \A p \in Proposal :
       proposal[p].status # "NONE" =>
         proposal[p].proposer \in Member /\ proposal[p].successor \in Member
  /\ \A r \in Request :
       job[r].op \in {"cancel", "accept"} =>
         proposal[job[r].proposal].status # "NONE"

Typed == TypeOK /\ Shape

\* An idle request's job is typed and names no operation.
LEMMA NoJobFacts == NoJob \in Job /\ JobShape(NoJob) /\ NoJob.op = "none"
  BY DEF NoJob, Job, Profile, JobShape, Transitions

\* An unused proposal id is a typed row.
LEMMA NoProposalType == NoProposal \in ProposalRow /\ NoProposal.status = "NONE"
  BY DEF NoProposal, ProposalRow

\* The four ways a request moves without writing a row.
LEMMA AdmitTyped ==
  ASSUME Typed, NEW r \in Request, NEW j \in Job, JobShape(j),
         j.op \in {"cancel", "accept"} => proposal[j.proposal].status # "NONE",
         NEW l \in Label, l # "revoke", Admit(r, j, l)
  PROVE  Typed'
  BY DEF Typed, TypeOK, Shape, JobShape, Admit, rows

\* Answering a request leaves its tables typed and only clears its own job.
LEMMA AnswerTyped ==
  ASSUME Typed, NEW r \in Request, Answer(r)
  PROVE  /\ locks' \in [Request -> SUBSET (Member \cup Proposal)]
         /\ pc' \in [Request -> Label]
         /\ job' \in [Request -> Job]
         /\ \A q \in Request : JobShape(job'[q])
         /\ \A q \in Request : pc'[q] = "revoke" => job'[q].target \in Member
         /\ \A q \in Request :
              job'[q].op # "none" => job'[q] = job[q]
  BY NoJobFacts DEF Typed, TypeOK, Shape, Answer, Release, Label

\* A refusal (an exception, a 4xx) writes no row.
LEMMA RefuseTyped ==
  ASSUME Typed, NEW r \in Request, Refuse(r)
  PROVE  Typed'
  BY AnswerTyped DEF Typed, TypeOK, Shape, JobShape, Refuse, rows

\* Going on to the next statement writes no row.
LEMMA ProceedTyped ==
  ASSUME Typed, NEW r \in Request, NEW l \in Label, l # "revoke", Proceed(r, l)
  PROVE  Typed'
  BY DEF Typed, TypeOK, Shape, JobShape, Proceed, Goto, rows

\* Taking a row lock writes no row.
LEMMA LockTyped ==
  ASSUME Typed, NEW r \in Request, NEW l \in Label, l # "revoke",
         NEW row \in Member \cup Proposal, Lock(r, row, l)
  PROVE  Typed'
  BY DEF Typed, TypeOK, Shape, JobShape, Lock, Goto, rows

\* Resolving a proposal changes its status and nothing else.
LEMMA ResolveTyped ==
  ASSUME proposal \in [Proposal -> ProposalRow], NEW p \in Proposal,
         NEW s \in {"NONE", "PENDING", "CANCELLED", "ACCEPTED"}, Resolve(p, s)
  PROVE  /\ proposal' \in [Proposal -> ProposalRow]
         /\ \A q \in Proposal :
              /\ proposal'[q].proposer = proposal[q].proposer
              /\ proposal'[q].successor = proposal[q].successor
              /\ proposal'[q].status = IF q = p THEN s ELSE proposal[q].status
  <1> DEFINE new == [proposal[p] EXCEPT !.status = s]
  <1>1. proposal[p] \in ProposalRow
    OBVIOUS
  <1>2. /\ new \in ProposalRow /\ new.status = s
        /\ new.proposer = proposal[p].proposer
        /\ new.successor = proposal[p].successor
    BY <1>1 DEF ProposalRow
  <1>3. proposal' = [proposal EXCEPT ![p] = new]
    BY DEF Resolve
  <1> HIDE DEF new
  <1> QED BY <1>2, <1>3

\* A commit followed by a session revocation keeps the request's target.
LEMMA RevokingTyped ==
  ASSUME Typed, NEW r \in Request, job[r].target \in Member,
         AnswerAfterRevoking(r)
  PROVE  /\ locks' \in [Request -> SUBSET (Member \cup Proposal)]
         /\ pc' \in [Request -> Label]
         /\ job' \in [Request -> Job]
         /\ stale' \in [Member -> Fate]
         /\ \A q \in Request : JobShape(job'[q])
         /\ \A q \in Request : pc'[q] = "revoke" => job'[q].target \in Member
         /\ \A q \in Request :
              job'[q].op # "none" => job'[q] = job[q]
  BY DEF Typed, TypeOK, Shape, AnswerAfterRevoking, Goto, Release, Label, Fate

\* An Organization starts typed.
LEMMA InitTyped == Init => Typed
  <1> SUFFICES ASSUME Init PROVE Typed
    OBVIOUS
  <1>1. TypeOK
    BY NoJobFacts, NoProposalType DEF Init, TypeOK, State, Label, Fate
  <1>2. Shape
    BY NoJobFacts, NoProposalType DEF Init, Shape
  <1> QED BY <1>1, <1>2 DEF Typed

\* Requests are admitted with a job of their operation's shape.
LEMMA ArriveTyped ==
  ASSUME Typed, NEW r \in Request, Arrive(r)
  PROVE  Typed'
  <1> USE DEF JobShape, Job, NoJob, Profile, Label, AllOperations, Transitions
  <1>1. CASE RequestTransition(r)
    BY <1>1, AdmitTyped DEF RequestTransition
  <1>2. CASE RequestPromote(r)
    BY <1>2, AdmitTyped DEF RequestPromote
  <1>3. CASE RequestPropose(r)
    BY <1>3, AdmitTyped DEF RequestPropose
  <1>4. CASE RequestCancel(r)
    BY <1>4, AdmitTyped DEF RequestCancel
  <1>5. CASE RequestAccept(r)
    BY <1>5, AdmitTyped DEF RequestAccept
  <1>6. CASE RequestJoin(r)
    BY <1>6, AdmitTyped DEF RequestJoin
  <1> QED BY <1>1, <1>2, <1>3, <1>4, <1>5, <1>6 DEF Arrive

\* Every statement of every handler keeps the tables typed.
LEMMA ServeTyped ==
  ASSUME Typed, NEW r \in Request, Serve(r)
  PROVE  Typed'
  <1> USE DEF Label
  <1>t. job[r].op \in Transitions \cup {"promote", "join", "propose"}
          => job[r].target \in Member
    BY DEF Typed, Shape, JobShape
  <1>p. job[r].op \in {"propose", "cancel", "accept"}
          => job[r].proposal \in Proposal /\ job[r].actor \in Member
    BY DEF Typed, Shape, JobShape
  <1>l. CheckLifecycle(r) => Typed'
    BY ProceedTyped, RefuseTyped DEF CheckLifecycle
  <1>1. CASE TransitionLock(r)
    BY <1>1, <1>t, RefuseTyped, LockTyped DEF TransitionLock, At
  <1>2. CASE TransitionRead(r)
    BY <1>2, <1>l, RefuseTyped, ProceedTyped DEF TransitionRead
  <1>3. CASE TransitionCount(r)
    BY <1>3, <1>l, RefuseTyped DEF TransitionCount
  <1>4. CASE TransitionCommit(r)
    <2>1. /\ state' \in [Member -> State]
          /\ UNCHANGED <<profile, isOwner, proposal>>
      BY <1>4 DEF TransitionCommit, Typed, TypeOK, To, State
    <2>2. CASE Answer(r) /\ UNCHANGED stale
      BY <2>1, <2>2, AnswerTyped DEF Typed, TypeOK, Shape
    <2>3. CASE AnswerAfterRevoking(r)
      BY <1>4, <2>1, <2>3, <1>t, RevokingTyped
      DEF TransitionCommit, At, Typed, TypeOK, Shape
    <2> QED BY <1>4, <2>2, <2>3 DEF TransitionCommit
  <1>5. CASE Revoke(r)
    BY <1>5, AnswerTyped DEF Revoke, Typed, TypeOK, Shape, rows, Fate
  <1>6. CASE PromoteRead(r)
    BY <1>6, RefuseTyped, ProceedTyped DEF PromoteRead
  <1>7. CASE PromoteCommit(r)
    BY <1>7, <1>t, RevokingTyped
    DEF PromoteCommit, At, Typed, TypeOK, Shape, Profile
  <1>8. CASE ProposeRead(r)
    BY <1>8, RefuseTyped, ProceedTyped DEF ProposeRead
  <1>9. CASE ProposeCheckPending(r)
    BY <1>9, RefuseTyped, ProceedTyped DEF ProposeCheckPending
  <1>10. CASE ProposeInsert(r)
    <2>1. CASE Refuse(r)
      BY <2>1, RefuseTyped
    <2>2. CASE ~Refuse(r)
      <3> DEFINE row == [status |-> "PENDING", proposer |-> job[r].actor,
                         successor |-> job[r].target, expired |-> FALSE]
      <3>1. /\ job[r].actor \in Member /\ job[r].target \in Member
            /\ job[r].proposal \in Proposal
        BY <1>10, <1>t, <1>p DEF ProposeInsert, At
      <3>2. row \in ProposalRow
        BY <3>1 DEF ProposalRow
      <3>3. /\ proposal' = [proposal EXCEPT ![job[r].proposal] = row]
            /\ Answer(r)
            /\ UNCHANGED <<profile, state, isOwner, stale>>
        BY <1>10, <2>2 DEF ProposeInsert
      <3> HIDE DEF row
      <3>4. proposal' \in [Proposal -> ProposalRow]
        BY <3>2, <3>3 DEF Typed, TypeOK
      <3>5. /\ row.proposer \in Member /\ row.successor \in Member
            /\ row.status # "NONE"
        BY <3>1 DEF row
      <3>6. TypeOK'
        BY <3>3, <3>4, AnswerTyped DEF Typed, TypeOK
      <3>7. \A p \in Proposal :
              proposal'[p] = IF p = job[r].proposal THEN row ELSE proposal[p]
        BY <3>1, <3>3 DEF Typed, TypeOK
      <3>8. \A q \in Request : job'[q].op \in {"cancel", "accept"} =>
              job'[q].proposal \in Proposal /\ job'[q] = job[q]
        BY <3>3, AnswerTyped DEF JobShape
      <3> QED
        BY <3>3, <3>5, <3>6, <3>7, <3>8, AnswerTyped DEF Typed, Shape
    <2> QED BY <2>1, <2>2
  <1>11. CASE CancelLock(r)
    BY <1>11, <1>p, RefuseTyped, LockTyped DEF CancelLock, At
  <1>r. ASSUME NEW s \in {"CANCELLED", "ACCEPTED"},
               Resolve(job[r].proposal, s), job[r].proposal \in Proposal,
               Answer(r), UNCHANGED <<profile, state, stale>>,
               job[r].op \in {"cancel", "accept"},
               isOwner' \in [Member -> BOOLEAN]
        PROVE  Typed'
    <2>1. TypeOK'
      BY <1>r, AnswerTyped, ResolveTyped DEF Typed, TypeOK
    <2>2. \A q \in Request : job'[q].op \in {"cancel", "accept"} =>
            job'[q].proposal \in Proposal /\ job'[q] = job[q]
      BY <1>r, AnswerTyped DEF JobShape
    <2>3. proposal \in [Proposal -> ProposalRow]
      BY DEF Typed, TypeOK
    <2>4. \A p \in Proposal :
            /\ proposal'[p].proposer = proposal[p].proposer
            /\ proposal'[p].successor = proposal[p].successor
            /\ proposal'[p].status # "NONE" \/ proposal[p].status = "NONE"
            /\ proposal[p].status # "NONE" \/ p = job[r].proposal
                 \/ proposal'[p].status = "NONE"
      BY <1>r, <2>3, ResolveTyped
    <2>5. proposal[job[r].proposal].status # "NONE"
      BY <1>r DEF Typed, Shape
    <2> QED
      BY <1>r, <2>1, <2>2, <2>4, <2>5, AnswerTyped DEF Typed, Shape
  <1>12. CASE CancelCommit(r)
    BY <1>12, <1>p, <1>r DEF CancelCommit, At, Typed, TypeOK
  <1>13. CASE AcceptLock(r)
    BY <1>13, <1>p, RefuseTyped, LockTyped DEF AcceptLock, At
  <1>14. CASE AcceptLockProposer(r)
    BY <1>14, <1>p, LockTyped
    DEF AcceptLockProposer, At, Typed, Shape
  <1>15. CASE AcceptLockSuccessor(r)
    BY <1>15, <1>p, LockTyped
    DEF AcceptLockSuccessor, At, Typed, Shape
  <1>16. CASE AcceptRead(r)
    BY <1>16, RefuseTyped, ProceedTyped DEF AcceptRead
  <1>17. CASE AcceptCommit(r)
    <2>1. isOwner' \in [Member -> BOOLEAN]
      BY <1>17 DEF AcceptCommit, Typed, TypeOK
    <2> QED
      BY <1>17, <2>1, <1>p, <1>r DEF AcceptCommit, At
  <1>18. CASE JoinRead(r)
    BY <1>18, RefuseTyped, ProceedTyped DEF JoinRead
  <1>19. CASE JoinCommit(r)
    <2>1. /\ profile' \in [Member -> Profile]
          /\ state' \in [Member -> State]
          /\ isOwner' \in [Member -> BOOLEAN]
      BY <1>19 DEF JoinCommit, Typed, TypeOK, State, Profile
    <2>2. Answer(r) /\ UNCHANGED <<proposal, stale>>
      BY <1>19 DEF JoinCommit
    <2> QED BY <2>1, <2>2, AnswerTyped DEF Typed, TypeOK, Shape
  <1> QED
    BY <1>1, <1>2, <1>3, <1>4, <1>5, <1>6, <1>7, <1>8, <1>9, <1>10, <1>11,
       <1>12, <1>13, <1>14, <1>15, <1>16, <1>17, <1>18, <1>19 DEF Serve

\* Every step of the system keeps the tables typed.
LEMMA StepTyped == Typed /\ [Next]_vars => Typed'
  <1> SUFFICES ASSUME Typed, [Next]_vars PROVE Typed'
    OBVIOUS
  <1>1. ASSUME NEW r \in Request, Arrive(r) PROVE Typed'
    BY <1>1, ArriveTyped
  <1>2. ASSUME NEW r \in Request, Serve(r) PROVE Typed'
    BY <1>2, ServeTyped
  <1>3. ASSUME NEW r \in Request, Timeout(r) PROVE Typed'
    BY <1>3, RefuseTyped DEF Timeout
  <1>7. ASSUME NEW r \in Request, RevokeFails(r) PROVE Typed'
    BY <1>7, AnswerTyped DEF RevokeFails, GiveUp, Typed, TypeOK, Shape, rows, Fate
  <1>4. ASSUME NEW p \in Proposal, Expire(p) PROVE Typed'
    <2> DEFINE new == [proposal[p] EXCEPT !.expired = TRUE]
    <2>1. proposal \in [Proposal -> ProposalRow] /\ proposal[p] \in ProposalRow
      BY DEF Typed, TypeOK
    <2>2. /\ new \in ProposalRow /\ new.status = proposal[p].status
          /\ new.proposer = proposal[p].proposer
          /\ new.successor = proposal[p].successor
      BY <2>1 DEF ProposalRow
    <2>3. proposal' = [proposal EXCEPT ![p] = new]
      BY <1>4 DEF Expire
    <2> HIDE DEF new
    <2>4. proposal' \in [Proposal -> ProposalRow]
      BY <2>1, <2>2, <2>3
    <2>5. \A q \in Proposal :
            /\ proposal'[q].status = proposal[q].status
            /\ proposal'[q].proposer = proposal[q].proposer
            /\ proposal'[q].successor = proposal[q].successor
      BY <2>1, <2>2, <2>3
    <2>6. UNCHANGED <<profile, state, isOwner, locks, pc, job, stale>>
      BY <1>4 DEF Expire
    <2>7. \A r \in Request : job[r].op \in {"cancel", "accept"} =>
            job[r].proposal \in Proposal
      BY DEF Typed, Shape, JobShape
    <2> QED BY <2>4, <2>5, <2>6, <2>7 DEF Typed, TypeOK, Shape, JobShape
  <1>5. CASE Crash
    BY <1>5, NoJobFacts
    DEF Crash, Typed, TypeOK, Shape, rows, Label, GiveUp, Fate
  <1>6. CASE UNCHANGED vars
    BY <1>6 DEF vars, Typed, TypeOK, Shape, JobShape
  <1> QED BY <1>1, <1>2, <1>3, <1>4, <1>5, <1>6, <1>7 DEF Next

\* Every table of the Organization keeps its shape, and no request ever works
\* on a row that does not exist.
THEOREM TypeCorrect == Spec => []TypeOK
  <1>1. Init => Typed
    BY InitTyped
  <1>2. Typed /\ [Next]_vars => Typed'
    BY StepTyped
  <1>3. Typed => TypeOK
    BY DEF Typed
  <1> QED BY <1>1, <1>2, <1>3, PTL DEF Spec

---------------------------------------------------------------------------
(* The inductive invariant: what a request may rely on at each statement   *)
(* because of the rows it holds.                                           *)

LocksExclusive ==
  \A q, r \in Request : q # r => locks[q] \cap locks[r] = {}

\* suspend, reactivate, remove
TransitionHolds(r) ==
  LET t == job[r].target IN
  /\ At(r, Transitions, "read") \/ At(r, Transitions, "count")
       \/ At(r, Transitions, "write") => t \in locks[r] /\ state[t] # "NONE"
  /\ At(r, {"suspend", "remove"}, "count")
       \/ At(r, {"suspend", "remove"}, "write") => ~isOwner[t]

\* cancel: what was the caller's at the guard is his for as long as it is open.
CancelHolds(r) ==
  LET p == job[r].proposal
      mine == proposal[p].status = "PENDING"
                /\ proposal[p].proposer = job[r].actor IN
  /\ job[r].op = "cancel" /\ mine => isOwner[job[r].actor]
  /\ At(r, {"cancel"}, "write") => p \in locks[r] /\ mine

\* accept: one row more at each of its locks.
AcceptHolds(r) ==
  LET p == job[r].proposal
      row == proposal[p] IN
  job[r].op = "accept" =>
    /\ pc[r] \in {"lockProposer", "lockSuccessor", "read", "write"} =>
         p \in locks[r] /\ row.status = "PENDING"
    /\ pc[r] \in {"lockSuccessor", "read", "write"} => row.proposer \in locks[r]
    /\ pc[r] \in {"read", "write"} => row.successor \in locks[r]
    /\ pc[r] = "write" =>
         isOwner[row.proposer] /\ row.successor \in ActiveAdministrators

\* join, propose: nobody else inserts the row.
InsertHolds(r) ==
  /\ At(r, {"join"}, "create") => state[job[r].target] = "NONE"
  /\ \A q \in Request :
       q # r /\ job[r].op = "join" /\ job[q].op = "join" =>
         job[q].target # job[r].target
  /\ job[r].op = "propose" => proposal[job[r].proposal].status = "NONE"
  /\ \A q \in Request :
       q # r /\ job[r].op = "propose" /\ job[q].op = "propose" =>
         job[q].proposal # job[r].proposal

Holds ==
  \A r \in Request :
    TransitionHolds(r) /\ CancelHolds(r) /\ AcceptHolds(r) /\ InsertHolds(r)

IInv ==
  Typed /\ ExactlyOneActiveOwner /\ AtMostOnePending /\ LocksExclusive /\ Holds

\* The inductive invariant holds when nothing runs yet.
LEMMA InitIInv == Init => IInv
  <1> SUFFICES ASSUME Init PROVE IInv
    OBVIOUS
  <1>1. Typed
    BY InitTyped
  <1>2. ExactlyOneActiveOwner
    BY DEF Init, ExactlyOneActiveOwner
  <1>3. AtMostOnePending
    BY NoProposalType DEF Init, AtMostOnePending, Pending
  <1>4. LocksExclusive
    BY DEF Init, LocksExclusive
  <1>5. Holds
    BY NoJobFacts DEF Init, Holds, TransitionHolds, CancelHolds, AcceptHolds,
       InsertHolds, At, Transitions
  <1> QED BY <1>1, <1>2, <1>3, <1>4, <1>5 DEF IInv

\* A step of r that writes no row keeps what the other requests rely on.
LEMMA QuietStep ==
  ASSUME IInv, Typed', NEW r \in Request, UNCHANGED rows,
         \A q \in Request \ {r} :
           pc'[q] = pc[q] /\ job'[q] = job[q] /\ locks'[q] = locks[q],
         LocksExclusive',
         TransitionHolds(r)', CancelHolds(r)', AcceptHolds(r)', InsertHolds(r)'
  PROVE  IInv'
  <1>1. ExactlyOneActiveOwner' /\ AtMostOnePending'
    BY DEF IInv, rows, ExactlyOneActiveOwner, AtMostOnePending, Pending
  <1>2. ASSUME NEW q \in Request, q # r
        PROVE  TransitionHolds(q)' /\ CancelHolds(q)' /\ AcceptHolds(q)'
    BY <1>2 DEF IInv, Holds, TransitionHolds, CancelHolds, AcceptHolds, At, rows,
       ActiveAdministrators
  <1>3. ASSUME NEW q \in Request, q # r PROVE InsertHolds(q)'
    BY <1>3 DEF IInv, Holds, InsertHolds, At, rows
  <1> QED BY <1>1, <1>2, <1>3 DEF IInv, Holds

\* A rollback keeps what the other requests rely on.
LEMMA RefuseKeeps ==
  ASSUME IInv, NEW r \in Request, Refuse(r)
  PROVE  IInv'
  <1> USE DEF Refuse, Answer, Release
  <1>1. Typed'
    BY RefuseTyped DEF IInv
  <1>2. /\ UNCHANGED rows /\ job'[r] = NoJob /\ locks'[r] = {}
        /\ \A q \in Request \ {r} :
             pc'[q] = pc[q] /\ job'[q] = job[q] /\ locks'[q] = locks[q]
    BY DEF IInv, Typed, TypeOK
  <1>3. LocksExclusive'
    BY <1>2 DEF IInv, LocksExclusive
  <1>4. TransitionHolds(r)' /\ CancelHolds(r)' /\ AcceptHolds(r)' /\ InsertHolds(r)'
    BY <1>2, NoJobFacts
    DEF TransitionHolds, CancelHolds, AcceptHolds, InsertHolds, At, Transitions
  <1> QED BY <1>1, <1>2, <1>3, <1>4, QuietStep

\* So does a statement that only reads.
LEMMA ProceedKeeps ==
  ASSUME IInv, NEW r \in Request, NEW l \in Label, l # "revoke", Proceed(r, l),
         TransitionHolds(r)', CancelHolds(r)', AcceptHolds(r)',
         l = "create" => state[job[r].target] = "NONE"
  PROVE  IInv'
  <1> USE DEF Proceed, Goto
  <1>1. Typed'
    BY ProceedTyped DEF IInv
  <1>2. /\ UNCHANGED <<rows, job, locks>> /\ pc'[r] = l
        /\ \A q \in Request \ {r} : pc'[q] = pc[q]
    BY DEF IInv, Typed, TypeOK
  <1>3. LocksExclusive'
    BY <1>2 DEF IInv, LocksExclusive
  <1>4. InsertHolds(r)'
    BY <1>2 DEF IInv, Holds, InsertHolds, At, rows
  <1> QED BY <1>1, <1>2, <1>3, <1>4, QuietStep

\* So does taking a free row lock.
LEMMA LockKeeps ==
  ASSUME IInv, NEW r \in Request, NEW row \in Member \cup Proposal,
         NEW l \in Label, l \notin {"revoke", "create"}, Lock(r, row, l),
         TransitionHolds(r)', CancelHolds(r)', AcceptHolds(r)'
  PROVE  IInv'
  <1> USE DEF Lock, Goto
  <1>1. Typed'
    BY LockTyped DEF IInv
  <1>2. /\ UNCHANGED <<rows, job>> /\ pc'[r] = l
        /\ locks'[r] = locks[r] \cup {row}
        /\ \A q \in Request \ {r} : pc'[q] = pc[q] /\ locks'[q] = locks[q]
    BY DEF IInv, Typed, TypeOK
  <1>3. LocksExclusive'
    BY <1>2 DEF IInv, LocksExclusive, Free
  <1>4. InsertHolds(r)'
    BY <1>2 DEF IInv, Holds, InsertHolds, At, rows
  <1> QED BY <1>1, <1>2, <1>3, <1>4, QuietStep

\* A request that is admitted holds nothing yet.
LEMMA AdmitKeeps ==
  ASSUME IInv, Typed', NEW r \in Request, NEW j \in Job,
         NEW l \in {"lock", "read"}, Admit(r, j, l),
         j.op \in Transitions => l = "lock",
         j.op = "accept" => l = "lock",
         j.op = "cancel" => l = "lock" /\ isOwner[j.actor],
         j.op = "join" =>
           \A q \in Request : ~(job[q].op = "join" /\ job[q].target = j.target),
         j.op = "propose" =>
           /\ proposal[j.proposal].status = "NONE"
           /\ \A q \in Request : job[q].proposal # j.proposal
  PROVE  IInv'
  <1>1. /\ UNCHANGED <<rows, locks>> /\ pc'[r] = l /\ job'[r] = j
        /\ \A q \in Request \ {r} : pc'[q] = pc[q] /\ job'[q] = job[q]
    BY DEF IInv, Typed, TypeOK, Admit
  <1>2. LocksExclusive'
    BY <1>1 DEF IInv, LocksExclusive
  <1>3. TransitionHolds(r)' /\ CancelHolds(r)' /\ AcceptHolds(r)'
    BY <1>1 DEF TransitionHolds, CancelHolds, AcceptHolds, At, Transitions, rows
  <1>4. InsertHolds(r)'
    BY <1>1 DEF InsertHolds, At, rows
  <1> QED BY <1>1, <1>2, <1>3, <1>4, QuietStep

\* Admitting any operation keeps the inductive invariant.
LEMMA ArriveKeeps ==
  ASSUME IInv, NEW r \in Request, Arrive(r)
  PROVE  IInv'
  <1> USE DEF Job, NoJob, Profile, AllOperations, Transitions
  <1>0. Typed'
    BY ArriveTyped DEF IInv
  <1>1. CASE RequestTransition(r)
    BY <1>0, <1>1, AdmitKeeps DEF RequestTransition
  <1>2. CASE RequestPromote(r)
    BY <1>0, <1>2, AdmitKeeps DEF RequestPromote
  <1>3. CASE RequestPropose(r)
    BY <1>0, <1>3, AdmitKeeps DEF RequestPropose
  <1>4. CASE RequestCancel(r)
    BY <1>0, <1>4, AdmitKeeps DEF RequestCancel
  <1>5. CASE RequestAccept(r)
    BY <1>0, <1>5, AdmitKeeps DEF RequestAccept
  <1>6. CASE RequestJoin(r)
    BY <1>0, <1>6, AdmitKeeps DEF RequestJoin
  <1> QED BY <1>1, <1>2, <1>3, <1>4, <1>5, <1>6 DEF Arrive

\* The statements that read and lock, and what follows a commit.
ReadOrLock(r) ==
  \/ TransitionLock(r) \/ TransitionRead(r) \/ TransitionCount(r)
  \/ Revoke(r) \/ RevokeFails(r)
  \/ PromoteRead(r) \/ ProposeRead(r) \/ ProposeCheckPending(r)
  \/ CancelLock(r)
  \/ AcceptLock(r) \/ AcceptLockProposer(r) \/ AcceptLockSuccessor(r)
  \/ AcceptRead(r) \/ JoinRead(r)

\* Every statement before a handler's last keeps the inductive invariant.
LEMMA ReadOrLockKeeps ==
  ASSUME IInv, NEW r \in Request, ReadOrLock(r)
  PROVE  IInv'
  <1> USE DEF At, Label
  <1>0. /\ TransitionHolds(r) /\ CancelHolds(r) /\ AcceptHolds(r) /\ TypeOK
        /\ JobShape(job[r]) /\ Shape
    BY DEF IInv, Holds, Typed, Shape
  <1>p. ASSUME NEW l \in Label, Proceed(r, l)
        PROVE  /\ pc'[r] = l /\ UNCHANGED <<rows, locks, job>>
    BY <1>0, <1>p DEF Proceed, Goto, TypeOK
  <1>l. ASSUME NEW l \in Label, NEW row \in Member \cup Proposal, Lock(r, row, l)
        PROVE  /\ pc'[r] = l /\ UNCHANGED <<rows, job>>
               /\ locks'[r] = locks[r] \cup {row}
    BY <1>0, <1>l DEF Lock, Goto, TypeOK
  <1>1. CASE TransitionLock(r)
    <2>1. CASE Refuse(r)
      BY <2>1, RefuseKeeps
    <2>2. CASE ~Refuse(r)
      <3>1. /\ Lock(r, job[r].target, "read") /\ state[job[r].target] # "NONE"
            /\ job[r].op \in Transitions /\ job[r].target \in Member
        BY <1>0, <1>1, <2>2 DEF TransitionLock, JobShape
      <3>2. TransitionHolds(r)' /\ CancelHolds(r)' /\ AcceptHolds(r)'
        BY <3>1, <1>l DEF TransitionHolds, CancelHolds, AcceptHolds, rows,
           Transitions
      <3> QED BY <3>1, <3>2, LockKeeps
    <2> QED BY <2>1, <2>2
  <1>2. CASE TransitionRead(r) \/ TransitionCount(r)
    <2>1. CASE Refuse(r)
      BY <2>1, RefuseKeeps
    <2>2. CASE ~Refuse(r)
      <3>1. PICK l \in {"count", "write"} : Proceed(r, l)
        BY <1>2, <2>2 DEF TransitionRead, TransitionCount, CheckLifecycle
      <3>2. /\ job[r].op \in Transitions /\ pc[r] \in {"read", "count"}
            /\ job[r].op \in {"suspend", "remove"} => ~isOwner[job[r].target]
        BY <1>0, <1>2, <2>2 DEF TransitionRead, TransitionCount, TransitionHolds
      <3>3. TransitionHolds(r)' /\ CancelHolds(r)' /\ AcceptHolds(r)'
        BY <1>0, <3>1, <3>2, <1>p DEF TransitionHolds, CancelHolds, AcceptHolds,
           rows, Transitions
      <3> QED BY <3>1, <3>3, ProceedKeeps
    <2> QED BY <2>1, <2>2
  <1>3. CASE Revoke(r) \/ RevokeFails(r)
    <2>1. UNCHANGED rows /\ Answer(r)
      BY <1>3 DEF Revoke, RevokeFails
    <2>2. Typed'
      BY <1>3, StepTyped DEF IInv, Next, Serve
    <2>3. /\ job'[r] = NoJob /\ locks'[r] = {}
          /\ \A q \in Request \ {r} :
               pc'[q] = pc[q] /\ job'[q] = job[q] /\ locks'[q] = locks[q]
      BY <1>0, <2>1 DEF TypeOK, Answer, Release
    <2>4. LocksExclusive'
      BY <2>3 DEF IInv, LocksExclusive
    <2>5. TransitionHolds(r)' /\ CancelHolds(r)' /\ AcceptHolds(r)' /\ InsertHolds(r)'
      BY <2>3, NoJobFacts
      DEF TransitionHolds, CancelHolds, AcceptHolds, InsertHolds, Transitions
    <2> QED BY <2>1, <2>2, <2>3, <2>4, <2>5, QuietStep
  <1>4. CASE PromoteRead(r) \/ ProposeRead(r) \/ ProposeCheckPending(r)
    <2>1. CASE Refuse(r)
      BY <2>1, RefuseKeeps
    <2>2. CASE ~Refuse(r)
      <3>1. PICK l \in {"pending", "write"} : Proceed(r, l)
        BY <1>4, <2>2 DEF PromoteRead, ProposeRead, ProposeCheckPending
      <3>2. job[r].op \in {"promote", "propose"}
        BY <1>4 DEF PromoteRead, ProposeRead, ProposeCheckPending
      <3>3. TransitionHolds(r)' /\ CancelHolds(r)' /\ AcceptHolds(r)'
        BY <3>1, <3>2, <1>p DEF TransitionHolds, CancelHolds, AcceptHolds,
           Transitions
      <3> QED BY <3>1, <3>3, ProceedKeeps
    <2> QED BY <2>1, <2>2
  <1>5. CASE CancelLock(r)
    <2>1. CASE Refuse(r)
      BY <2>1, RefuseKeeps
    <2>2. CASE ~Refuse(r)
      <3> DEFINE p == job[r].proposal
      <3>1. /\ Lock(r, p, "write") /\ p \in Proposal /\ job[r].op = "cancel"
            /\ proposal[p].status = "PENDING"
            /\ proposal[p].proposer = job[r].actor
        BY <1>0, <1>5, <2>2 DEF CancelLock, JobShape
      <3>2. TransitionHolds(r)' /\ CancelHolds(r)' /\ AcceptHolds(r)'
        BY <1>0, <3>1, <1>l DEF TransitionHolds, CancelHolds, AcceptHolds, rows,
           Transitions
      <3> QED BY <3>1, <3>2, LockKeeps
    <2> QED BY <2>1, <2>2
  <1>6. CASE AcceptLock(r) \/ AcceptLockProposer(r) \/ AcceptLockSuccessor(r)
    <2>1. CASE Refuse(r)
      BY <2>1, RefuseKeeps
    <2>2. CASE ~Refuse(r)
      <3> DEFINE p == job[r].proposal
      <3>1. /\ job[r].op = "accept" /\ p \in Proposal
            /\ proposal[p].status = "PENDING"
            /\ proposal[p].proposer \in Member /\ proposal[p].successor \in Member
        BY <1>0, <1>6, <2>2 DEF AcceptLock, AcceptLockProposer,
           AcceptLockSuccessor, AcceptHolds, JobShape, Shape
      <3>2. CASE Lock(r, p, "lockProposer")
        <4>1. TransitionHolds(r)' /\ CancelHolds(r)' /\ AcceptHolds(r)'
          BY <3>1, <3>2, <1>l DEF TransitionHolds, CancelHolds, AcceptHolds, rows,
             Transitions
        <4> QED BY <3>1, <3>2, <4>1, LockKeeps
      <3>3. CASE pc[r] = "lockProposer"
                   /\ Lock(r, proposal[p].proposer, "lockSuccessor")
        <4>1. TransitionHolds(r)' /\ CancelHolds(r)' /\ AcceptHolds(r)'
          BY <1>0, <3>1, <3>3, <1>l DEF TransitionHolds, CancelHolds, AcceptHolds,
             rows, Transitions
        <4> QED BY <3>1, <3>3, <4>1, LockKeeps
      <3>4. CASE pc[r] = "lockSuccessor" /\ Lock(r, proposal[p].successor, "read")
        <4>1. TransitionHolds(r)' /\ CancelHolds(r)' /\ AcceptHolds(r)'
          BY <1>0, <3>1, <3>4, <1>l DEF TransitionHolds, CancelHolds, AcceptHolds,
             rows, Transitions
        <4> QED BY <3>1, <3>4, <4>1, LockKeeps
      <3> QED
        BY <1>6, <2>2, <3>2, <3>3, <3>4
        DEF AcceptLock, AcceptLockProposer, AcceptLockSuccessor
    <2> QED BY <2>1, <2>2
  <1>7. CASE AcceptRead(r)
    <2>1. CASE Refuse(r)
      BY <2>1, RefuseKeeps
    <2>2. CASE ~Refuse(r)
      <3> DEFINE row == proposal[job[r].proposal]
      <3>1. /\ Proceed(r, "write") /\ job[r].op = "accept" /\ pc[r] = "read"
            /\ isOwner[row.proposer] /\ row.successor \in ActiveAdministrators
        BY <1>7, <2>2 DEF AcceptRead
      <3>2. TransitionHolds(r)' /\ CancelHolds(r)' /\ AcceptHolds(r)'
        BY <1>0, <3>1, <1>p DEF TransitionHolds, CancelHolds, AcceptHolds, rows,
           Transitions, ActiveAdministrators
      <3> QED BY <3>1, <3>2, ProceedKeeps
    <2> QED BY <2>1, <2>2
  <1>8. CASE JoinRead(r)
    <2>1. PICK l \in {"create", "write"} :
            Proceed(r, l) /\ (l = "create" => state[job[r].target] = "NONE")
      BY <1>8 DEF JoinRead
    <2>2. job[r].op = "join"
      BY <1>8 DEF JoinRead
    <2>3. TransitionHolds(r)' /\ CancelHolds(r)' /\ AcceptHolds(r)'
      BY <2>1, <2>2, <1>p DEF TransitionHolds, CancelHolds, AcceptHolds,
         Transitions
    <2> QED BY <2>1, <2>3, ProceedKeeps
  <1> QED
    BY <1>1, <1>2, <1>3, <1>4, <1>5, <1>6, <1>7, <1>8 DEF ReadOrLock

\* A transaction that commits relies on nothing any more.
LEMMA CommitFrame ==
  ASSUME IInv, NEW r \in Request,
         \/ Answer(r)
         \/ job[r].op \in Transitions \cup {"promote"} /\ AnswerAfterRevoking(r)
  PROVE  /\ \A q \in Request \ {r} :
              pc'[q] = pc[q] /\ job'[q] = job[q] /\ locks'[q] = locks[q]
         /\ LocksExclusive'
         /\ TransitionHolds(r)' /\ CancelHolds(r)' /\ AcceptHolds(r)'
         /\ job'[r].op \notin {"join", "propose"}
  <1> USE DEF At, Transitions
  <1>1. /\ \A q \in Request \ {r} :
             pc'[q] = pc[q] /\ job'[q] = job[q] /\ locks'[q] = locks[q]
        /\ locks'[r] = {}
    BY DEF IInv, Typed, TypeOK, Answer, AnswerAfterRevoking, Release, Goto
  <1>2. LocksExclusive'
    BY <1>1 DEF IInv, LocksExclusive
  <1>3. CASE Answer(r)
    <2>1. job'[r] = NoJob
      BY <1>3 DEF Answer, IInv, Typed, TypeOK
    <2> QED
      BY <1>1, <1>2, <2>1, NoJobFacts
      DEF TransitionHolds, CancelHolds, AcceptHolds
  <1>4. CASE job[r].op \in Transitions \cup {"promote"} /\ AnswerAfterRevoking(r)
    <2>1. job'[r] = job[r] /\ pc'[r] = "revoke"
      BY <1>4 DEF AnswerAfterRevoking, Goto, IInv, Typed, TypeOK
    <2> QED
      BY <1>1, <1>2, <1>4, <2>1 DEF TransitionHolds, CancelHolds, AcceptHolds
  <1> QED BY <1>3, <1>4

\* suspend, reactivate and remove keep the owner active: his row was read
\* under its lock and is not the target.
LEMMA TransitionCommitKeeps ==
  ASSUME IInv, NEW r \in Request, TransitionCommit(r)
  PROVE  IInv'
  <1> DEFINE t == job[r].target
  <1>0. Typed' /\ TypeOK
    BY ServeTyped DEF IInv, Serve, Typed
  <1>1. /\ job[r].op \in Transitions
        /\ t \in Member /\ t \in locks[r] /\ state[t] # "NONE"
        /\ job[r].op \in {"suspend", "remove"} => ~isOwner[t]
        /\ To(job[r].op) # "NONE"
        /\ job[r].op = "reactivate" => To(job[r].op) = "ACTIVE"
    BY DEF TransitionCommit, At, IInv, Holds, TransitionHolds, Typed, Shape,
       JobShape, To, Transitions
  <1>2. /\ UNCHANGED <<profile, isOwner, proposal>>
        /\ state'[t] = To(job[r].op)
        /\ \A m \in Member \ {t} : state'[m] = state[m]
    BY <1>0, <1>1 DEF TransitionCommit, TypeOK
  <1>3. /\ \A q \in Request \ {r} :
             pc'[q] = pc[q] /\ job'[q] = job[q] /\ locks'[q] = locks[q]
        /\ LocksExclusive'
        /\ TransitionHolds(r)' /\ CancelHolds(r)' /\ AcceptHolds(r)'
        /\ job'[r].op \notin {"join", "propose"}
    BY <1>1, CommitFrame DEF TransitionCommit
  <1>4. ExactlyOneActiveOwner'
    <2>1. isOwner[t] => state'[t] = "ACTIVE"
      BY <1>1, <1>2 DEF Transitions
    <2> QED BY <1>2, <2>1 DEF IInv, ExactlyOneActiveOwner
  <1>5. AtMostOnePending'
    BY <1>2 DEF IInv, AtMostOnePending, Pending
  <1>6. ASSUME NEW q \in Request, q # r
        PROVE  /\ TransitionHolds(q)' /\ CancelHolds(q)' /\ AcceptHolds(q)'
               /\ InsertHolds(q)'
    <2>1. t \notin locks[q] /\ TransitionHolds(q) /\ CancelHolds(q)
            /\ AcceptHolds(q) /\ InsertHolds(q) /\ JobShape(job[q])
      BY <1>1, <1>6 DEF IInv, LocksExclusive, Holds, Typed, Shape
    <2>2. TransitionHolds(q)' /\ CancelHolds(q)'
      BY <1>1, <1>2, <1>3, <1>6, <2>1
      DEF TransitionHolds, CancelHolds, At, JobShape
    <2>3. AcceptHolds(q)'
      BY <1>2, <1>3, <1>6, <2>1 DEF AcceptHolds, ActiveAdministrators
    <2>4. InsertHolds(q)'
      BY <1>1, <1>2, <1>3, <1>6, <2>1 DEF InsertHolds, At, JobShape
    <2> QED BY <2>2, <2>3, <2>4
  <1>7. InsertHolds(r)'
    BY <1>3 DEF InsertHolds, At
  <1> QED BY <1>0, <1>3, <1>4, <1>5, <1>6, <1>7 DEF IInv, Holds

\* The successor of a transfer in progress may be promoted again, never
\* demoted: his row is locked.
LEMMA PromoteCommitKeeps ==
  ASSUME IInv, NEW r \in Request, PromoteCommit(r)
  PROVE  IInv'
  <1> DEFINE t == job[r].target
  <1>0. Typed' /\ TypeOK
    BY ServeTyped DEF IInv, Serve, Typed
  <1>1. /\ UNCHANGED <<state, isOwner, proposal>> /\ job[r].op = "promote"
        /\ \A m \in Member : profile'[m] = IF m = t THEN "ADMINISTRATOR"
                                            ELSE profile[m]
    BY <1>0 DEF PromoteCommit, TypeOK, At
  <1>2. /\ \A q \in Request \ {r} :
             pc'[q] = pc[q] /\ job'[q] = job[q] /\ locks'[q] = locks[q]
        /\ LocksExclusive'
        /\ TransitionHolds(r)' /\ CancelHolds(r)' /\ AcceptHolds(r)'
        /\ job'[r].op \notin {"join", "propose"}
    BY <1>1, CommitFrame DEF PromoteCommit
  <1>3. ExactlyOneActiveOwner' /\ AtMostOnePending'
    BY <1>1 DEF IInv, ExactlyOneActiveOwner, AtMostOnePending, Pending
  <1>4. ASSUME NEW q \in Request, q # r
        PROVE  /\ TransitionHolds(q)' /\ CancelHolds(q)' /\ AcceptHolds(q)'
               /\ InsertHolds(q)'
    <2>1. TransitionHolds(q) /\ CancelHolds(q) /\ AcceptHolds(q) /\ InsertHolds(q)
      BY DEF IInv, Holds
    <2>2. TransitionHolds(q)' /\ CancelHolds(q)'
      BY <1>1, <1>2, <1>4, <2>1 DEF TransitionHolds, CancelHolds, At
    <2>3. AcceptHolds(q)'
      BY <1>1, <1>2, <1>4, <2>1 DEF AcceptHolds, ActiveAdministrators
    <2>4. InsertHolds(q)'
      BY <1>1, <1>2, <1>4, <2>1 DEF InsertHolds, At
    <2> QED BY <2>2, <2>3, <2>4
  <1>5. InsertHolds(r)'
    BY <1>2 DEF InsertHolds, At
  <1> QED BY <1>0, <1>2, <1>3, <1>4, <1>5 DEF IInv, Holds

\* The insert of a proposal keeps at most one of them PENDING.
LEMMA ProposeInsertKeeps ==
  ASSUME IInv, NEW r \in Request, ProposeInsert(r), ~Refuse(r)
  PROVE  IInv'
  <1> DEFINE p == job[r].proposal
             new == [status |-> "PENDING", proposer |-> job[r].actor,
                     successor |-> job[r].target, expired |-> FALSE]
  <1>0. Typed' /\ TypeOK
    BY ServeTyped DEF IInv, Serve, Typed
  <1>1. /\ UNCHANGED <<profile, state, isOwner>> /\ Answer(r)
        /\ job[r].op = "propose" /\ p \in Proposal /\ Pending = {}
        /\ proposal[p].status = "NONE"
        /\ proposal' = [proposal EXCEPT ![p] = new]
    BY DEF ProposeInsert, At, IInv, Holds, InsertHolds, Typed, Shape, JobShape
  <1>2. /\ \A x \in Proposal \ {p} : proposal'[x] = proposal[x]
        /\ \A x \in Proposal : proposal[x].status # "PENDING"
    BY <1>0, <1>1 DEF TypeOK, Pending
  <1>3. /\ \A q \in Request \ {r} :
             pc'[q] = pc[q] /\ job'[q] = job[q] /\ locks'[q] = locks[q]
        /\ LocksExclusive'
        /\ TransitionHolds(r)' /\ CancelHolds(r)' /\ AcceptHolds(r)'
        /\ job'[r].op \notin {"join", "propose"}
    BY <1>1, CommitFrame
  <1>4. ExactlyOneActiveOwner' /\ AtMostOnePending'
    BY <1>1, <1>2 DEF IInv, ExactlyOneActiveOwner, AtMostOnePending, Pending
  <1>5. ASSUME NEW q \in Request, q # r
        PROVE  /\ TransitionHolds(q)' /\ CancelHolds(q)' /\ AcceptHolds(q)'
               /\ InsertHolds(q)'
    <2>1. /\ TransitionHolds(q) /\ CancelHolds(q) /\ AcceptHolds(q) /\ InsertHolds(q)
          /\ JobShape(job[q])
          /\ job[q].op \in {"cancel", "accept"} =>
               proposal[job[q].proposal].status # "NONE"
      BY DEF IInv, Holds, Typed, Shape
    <2>2. job[q].op \in {"cancel", "accept", "propose"} =>
            job[q].proposal \in Proposal \ {p}
      BY <1>1, <1>5, <2>1 DEF JobShape, InsertHolds
    <2>3. TransitionHolds(q)'
      BY <1>1, <1>3, <1>5, <2>1 DEF TransitionHolds, At
    <2>4. CancelHolds(q)'
      BY <1>1, <1>2, <1>3, <1>5, <2>1, <2>2 DEF CancelHolds, At
    <2>5. AcceptHolds(q)'
      BY <1>1, <1>2, <1>3, <1>5, <2>1, <2>2 DEF AcceptHolds, ActiveAdministrators
    <2>6. InsertHolds(q)'
      BY <1>1, <1>2, <1>3, <1>5, <2>1, <2>2 DEF InsertHolds, At
    <2> QED BY <2>3, <2>4, <2>5, <2>6
  <1>6. InsertHolds(r)'
    BY <1>3 DEF InsertHolds, At
  <1> QED BY <1>0, <1>3, <1>4, <1>5, <1>6 DEF IInv, Holds

\* A cancel resolves only a proposal whose row it holds.
LEMMA CancelCommitKeeps ==
  ASSUME IInv, NEW r \in Request, CancelCommit(r)
  PROVE  IInv'
  <1> DEFINE p == job[r].proposal
  <1>0. Typed' /\ TypeOK
    BY ServeTyped DEF IInv, Serve, Typed
  <1>1. /\ UNCHANGED <<profile, state, isOwner>> /\ Answer(r)
        /\ p \in Proposal /\ p \in locks[r] /\ proposal[p].status = "PENDING"
        /\ Resolve(p, "CANCELLED")
    BY DEF CancelCommit, At, IInv, Holds, CancelHolds, Typed, Shape, JobShape
  <1>2. \A x \in Proposal :
          /\ proposal'[x].proposer = proposal[x].proposer
          /\ proposal'[x].successor = proposal[x].successor
          /\ proposal'[x].status = IF x = p THEN "CANCELLED"
                                   ELSE proposal[x].status
    BY <1>0, <1>1, ResolveTyped DEF TypeOK
  <1>3. /\ \A q \in Request \ {r} :
             pc'[q] = pc[q] /\ job'[q] = job[q] /\ locks'[q] = locks[q]
        /\ LocksExclusive'
        /\ TransitionHolds(r)' /\ CancelHolds(r)' /\ AcceptHolds(r)'
        /\ job'[r].op \notin {"join", "propose"}
    BY <1>1, CommitFrame
  <1>4. ExactlyOneActiveOwner' /\ AtMostOnePending'
    BY <1>1, <1>2 DEF IInv, ExactlyOneActiveOwner, AtMostOnePending, Pending
  <1>5. ASSUME NEW q \in Request, q # r
        PROVE  /\ TransitionHolds(q)' /\ CancelHolds(q)' /\ AcceptHolds(q)'
               /\ InsertHolds(q)'
    <2>1. /\ TransitionHolds(q) /\ CancelHolds(q) /\ AcceptHolds(q) /\ InsertHolds(q)
          /\ JobShape(job[q]) /\ p \notin locks[q]
      BY <1>1, <1>5 DEF IInv, Holds, Typed, Shape, LocksExclusive
    <2>2. TransitionHolds(q)'
      BY <1>1, <1>3, <1>5, <2>1 DEF TransitionHolds, At
    <2>3. CancelHolds(q)'
      BY <1>1, <1>2, <1>3, <1>5, <2>1 DEF CancelHolds, At, JobShape
    <2>4. AcceptHolds(q)'
      BY <1>1, <1>2, <1>3, <1>5, <2>1 DEF AcceptHolds, ActiveAdministrators, JobShape
    <2>5. InsertHolds(q)'
      BY <1>1, <1>2, <1>3, <1>5, <2>1 DEF InsertHolds, At, JobShape
    <2> QED BY <2>2, <2>3, <2>4, <2>5
  <1>6. InsertHolds(r)'
    BY <1>3 DEF InsertHolds, At
  <1> QED BY <1>0, <1>3, <1>4, <1>5, <1>6 DEF IInv, Holds

\* The heart of the matter: when accept commits, proposer and successor are
\* still what it read, because it holds their rows.
LEMMA AcceptCommitFacts ==
  ASSUME IInv, NEW r \in Request, AcceptCommit(r)
  PROVE  LET p == job[r].proposal IN
         /\ p \in Proposal /\ p \in locks[r] /\ proposal[p].status = "PENDING"
         /\ proposal[p].proposer \in Member /\ proposal[p].successor \in Member
         /\ proposal[p].proposer \in locks[r] /\ proposal[p].successor \in locks[r]
         /\ isOwner[proposal[p].proposer]
         /\ proposal[p].successor \in ActiveAdministrators
  BY DEF AcceptCommit, At, IInv, Holds, AcceptHolds, Typed, Shape, JobShape

\* A hand-over keeps exactly one active owner.
LEMMA AcceptCommitKeeps ==
  ASSUME IInv, NEW r \in Request, AcceptCommit(r)
  PROVE  IInv'
  <1> DEFINE p == job[r].proposal
             old == proposal[p].proposer
             new == proposal[p].successor
  <1>0. Typed' /\ TypeOK
    BY ServeTyped DEF IInv, Serve, Typed
  <1>1. /\ UNCHANGED <<profile, state>> /\ Answer(r) /\ Resolve(p, "ACCEPTED")
        /\ p \in Proposal /\ p \in locks[r] /\ proposal[p].status = "PENDING"
        /\ old \in Member /\ new \in Member
        /\ old \in locks[r] /\ new \in locks[r]
        /\ isOwner[old] /\ new \in ActiveAdministrators
    BY AcceptCommitFacts DEF AcceptCommit
  <1>2. \A m \in Member :
          isOwner'[m] = IF m = new THEN TRUE ELSE IF m = old THEN FALSE
                        ELSE isOwner[m]
    BY <1>0, <1>1 DEF AcceptCommit, TypeOK
  <1>3. \A x \in Proposal :
          /\ proposal'[x].proposer = proposal[x].proposer
          /\ proposal'[x].successor = proposal[x].successor
          /\ proposal'[x].status = IF x = p THEN "ACCEPTED"
                                   ELSE proposal[x].status
    BY <1>0, <1>1, ResolveTyped DEF TypeOK
  <1>4. /\ \A q \in Request \ {r} :
             pc'[q] = pc[q] /\ job'[q] = job[q] /\ locks'[q] = locks[q]
        /\ LocksExclusive'
        /\ TransitionHolds(r)' /\ CancelHolds(r)' /\ AcceptHolds(r)'
        /\ job'[r].op \notin {"join", "propose"}
    BY <1>1, CommitFrame
  <1>5. ExactlyOneActiveOwner'
    BY <1>1, <1>2 DEF IInv, ExactlyOneActiveOwner, ActiveAdministrators
  <1>6. AtMostOnePending'
    BY <1>3 DEF IInv, AtMostOnePending, Pending
  <1>7. \A x \in Proposal : proposal'[x].status # "PENDING"
    BY <1>1, <1>3 DEF IInv, AtMostOnePending, Pending
  <1>8. ASSUME NEW q \in Request, q # r
        PROVE  /\ TransitionHolds(q)' /\ CancelHolds(q)' /\ AcceptHolds(q)'
               /\ InsertHolds(q)'
    <2>1. /\ TransitionHolds(q) /\ CancelHolds(q) /\ AcceptHolds(q) /\ InsertHolds(q)
          /\ JobShape(job[q])
          /\ p \notin locks[q] /\ old \notin locks[q] /\ new \notin locks[q]
      BY <1>1, <1>8 DEF IInv, Holds, Typed, Shape, LocksExclusive
    <2>2. TransitionHolds(q)'
      <3>1. job[q].op \in Transitions /\ pc[q] \in {"read", "count", "write"}
              => /\ job[q].target \in Member \ {old, new}
                 /\ job[q].target \in locks[q] /\ state[job[q].target] # "NONE"
        BY <2>1 DEF TransitionHolds, At, JobShape
      <3>2. job[q].op \in Transitions /\ pc[q] \in {"read", "count", "write"}
              => isOwner'[job[q].target] = isOwner[job[q].target]
        BY <1>2, <3>1
      <3> HIDE DEF old, new
      <3> QED
        BY <1>1, <1>4, <1>8, <2>1, <3>1, <3>2 DEF TransitionHolds, At, Transitions
    <2>3. CancelHolds(q)'
      <3>1. ~At(q, {"cancel"}, "write")
        BY <1>1, <2>1 DEF CancelHolds, JobShape, At, IInv, AtMostOnePending, Pending
      <3> QED
        BY <1>4, <1>7, <1>8, <2>1, <3>1 DEF CancelHolds, At, JobShape
    <2>4. AcceptHolds(q)'
      <3>1. job[q].op = "accept" =>
              pc[q] \notin {"lockProposer", "lockSuccessor", "read", "write"}
        BY <1>1, <2>1 DEF AcceptHolds, JobShape, IInv, AtMostOnePending, Pending
      <3> QED
        BY <1>4, <1>8, <3>1 DEF AcceptHolds
    <2>5. InsertHolds(q)'
      BY <1>1, <1>3, <1>4, <1>8, <2>1 DEF InsertHolds, At, JobShape
    <2> QED BY <2>2, <2>3, <2>4, <2>5
  <1>9. InsertHolds(r)'
    BY <1>4 DEF InsertHolds, At
  <1> QED BY <1>0, <1>4, <1>5, <1>6, <1>8, <1>9 DEF IInv, Holds

\* A membership that join creates replaces nobody's, so no owner's.
LEMMA JoinKeepsOwner ==
  ASSUME IInv, NEW r \in Request, JoinCommit(r)
  PROVE  \A n \in Member : isOwner'[n] = isOwner[n]
  <1> DEFINE m == job[r].target
  <1>1. CASE UNCHANGED isOwner
    BY <1>1
  <1>2. CASE At(r, {"join"}, "create")
    <2>1. m \in Member /\ state[m] = "NONE"
      BY <1>2 DEF At, IInv, Holds, InsertHolds, Typed, Shape, JobShape
    <2>2. ~isOwner[m]
      BY <2>1 DEF IInv, ExactlyOneActiveOwner
    <2>3. isOwner' = [isOwner EXCEPT ![m] = FALSE]
      BY <1>2 DEF JoinCommit, At
    <2> QED BY <2>1, <2>2, <2>3 DEF IInv, Typed, TypeOK
  <1> QED BY <1>1, <1>2 DEF JoinCommit

\* An accepted invitation makes its member active and leaves is_owner alone.
LEMMA JoinCommitKeeps ==
  ASSUME IInv, NEW r \in Request, JoinCommit(r)
  PROVE  IInv'
  <1> DEFINE m == job[r].target
  <1>0. Typed' /\ TypeOK
    BY ServeTyped DEF IInv, Serve, Typed
  <1>1. /\ job[r].op = "join" /\ m \in Member /\ Answer(r) /\ UNCHANGED proposal
        /\ Free(r, m) \/ state[m] = "NONE"
        /\ \A n \in Member \ {m} :
             profile'[n] = profile[n] /\ state'[n] = state[n]
        /\ state'[m] = "ACTIVE"
    BY <1>0 DEF JoinCommit, At, IInv, Holds, InsertHolds, Typed, Shape, JobShape,
       TypeOK
  <1>2. \A n \in Member : isOwner'[n] = isOwner[n]
    BY JoinKeepsOwner
  <1>3. /\ \A q \in Request \ {r} :
             pc'[q] = pc[q] /\ job'[q] = job[q] /\ locks'[q] = locks[q]
        /\ LocksExclusive'
        /\ TransitionHolds(r)' /\ CancelHolds(r)' /\ AcceptHolds(r)'
        /\ job'[r].op \notin {"join", "propose"}
    BY <1>1, CommitFrame
  <1>4. ExactlyOneActiveOwner'
    BY <1>1, <1>2 DEF IInv, ExactlyOneActiveOwner
  <1>5. AtMostOnePending'
    BY <1>1 DEF IInv, AtMostOnePending, Pending
  <1>6. ASSUME NEW q \in Request, q # r
        PROVE  /\ TransitionHolds(q)' /\ CancelHolds(q)' /\ AcceptHolds(q)'
               /\ InsertHolds(q)'
    <2>1. /\ TransitionHolds(q) /\ CancelHolds(q) /\ AcceptHolds(q) /\ InsertHolds(q)
          /\ JobShape(job[q]) /\ Shape
          /\ m \notin locks[q] \/ state[m] = "NONE"
      BY <1>1, <1>6 DEF IInv, Holds, Typed, Shape, Free
    <2>2. TransitionHolds(q)'
      BY <1>1, <1>2, <1>3, <1>6, <2>1 DEF TransitionHolds, At, JobShape, Transitions
    <2>3. CancelHolds(q)'
      BY <1>1, <1>2, <1>3, <1>6, <2>1 DEF CancelHolds, At, JobShape
    <2>4. AcceptHolds(q)'
      <3> DEFINE row == proposal[job[q].proposal]
      <3>1. job[q].op = "accept" => row.proposer \in Member
        BY <2>1 DEF JobShape, Shape
      <3>2. ASSUME job[q].op = "accept", pc[q] = "write"
            PROVE  /\ isOwner'[row.proposer]
                   /\ row.successor \in Member
                   /\ profile'[row.successor] = "ADMINISTRATOR"
                   /\ state'[row.successor] = "ACTIVE"
        <4>1. /\ row.successor \in ActiveAdministrators
              /\ row.successor \in locks[q] /\ isOwner[row.proposer]
          BY <2>1, <3>2 DEF AcceptHolds
        <4>2. row.successor \in Member \ {m}
          BY <2>1, <4>1 DEF ActiveAdministrators
        <4> QED BY <1>1, <1>2, <3>1, <3>2, <4>1, <4>2 DEF ActiveAdministrators
      <3> QED
        BY <1>1, <1>3, <1>6, <2>1, <3>2 DEF AcceptHolds, ActiveAdministrators
    <2>5. InsertHolds(q)'
      BY <1>1, <1>3, <1>6, <2>1 DEF InsertHolds, At, JobShape
    <2> QED BY <2>2, <2>3, <2>4, <2>5
  <1>7. InsertHolds(r)'
    BY <1>3 DEF InsertHolds, At
  <1> QED BY <1>0, <1>3, <1>4, <1>5, <1>6, <1>7 DEF IInv, Holds

\* The inductive invariant is inductive.
LEMMA StepKeeps == IInv /\ [Next]_vars => IInv'
  <1> SUFFICES ASSUME IInv, [Next]_vars PROVE IInv'
    OBVIOUS
  <1>1. ASSUME NEW r \in Request, Arrive(r) PROVE IInv'
    BY <1>1, ArriveKeeps
  <1>2. ASSUME NEW r \in Request, Serve(r) PROVE IInv'
    <2>1. CASE ReadOrLock(r)
      BY <2>1, ReadOrLockKeeps
    <2>2. CASE TransitionCommit(r)
      BY <2>2, TransitionCommitKeeps
    <2>3. CASE PromoteCommit(r)
      BY <2>3, PromoteCommitKeeps
    <2>4. CASE ProposeInsert(r)
      BY <2>4, ProposeInsertKeeps, RefuseKeeps
    <2>5. CASE CancelCommit(r)
      BY <2>5, CancelCommitKeeps
    <2>6. CASE AcceptCommit(r)
      BY <2>6, AcceptCommitKeeps
    <2>7. CASE JoinCommit(r)
      BY <2>7, JoinCommitKeeps
    <2> QED
      BY <1>2, <2>1, <2>2, <2>3, <2>4, <2>5, <2>6, <2>7 DEF Serve, ReadOrLock
  <1>3. ASSUME NEW r \in Request, Timeout(r) \/ RevokeFails(r) PROVE IInv'
    BY <1>3, RefuseKeeps, ReadOrLockKeeps DEF Timeout, ReadOrLock
  <1>4. ASSUME NEW p \in Proposal, Expire(p) PROVE IInv'
    <2>1. Typed' /\ TypeOK
      BY StepTyped DEF IInv, Next, Typed
    <2>2. UNCHANGED <<profile, state, isOwner, locks, pc, job>>
      BY <1>4 DEF Expire
    <2>3. \A x \in Proposal :
            /\ proposal'[x].status = proposal[x].status
            /\ proposal'[x].proposer = proposal[x].proposer
            /\ proposal'[x].successor = proposal[x].successor
      <3> DEFINE new == [proposal[p] EXCEPT !.expired = TRUE]
      <3>1. proposal[p] \in ProposalRow
        BY <2>1 DEF TypeOK
      <3>2. /\ new.status = proposal[p].status
            /\ new.proposer = proposal[p].proposer
            /\ new.successor = proposal[p].successor
        BY <3>1 DEF ProposalRow
      <3>3. proposal' = [proposal EXCEPT ![p] = new]
        BY <1>4 DEF Expire
      <3> HIDE DEF new
      <3> QED BY <2>1, <3>2, <3>3 DEF TypeOK
    <2>4. ExactlyOneActiveOwner' /\ AtMostOnePending' /\ LocksExclusive'
      BY <2>2, <2>3
      DEF IInv, ExactlyOneActiveOwner, AtMostOnePending, Pending, LocksExclusive
    <2>5. ASSUME NEW q \in Request
          PROVE  /\ TransitionHolds(q)' /\ CancelHolds(q)' /\ AcceptHolds(q)'
                 /\ InsertHolds(q)'
      <3>1. /\ TransitionHolds(q) /\ CancelHolds(q) /\ AcceptHolds(q)
            /\ InsertHolds(q) /\ JobShape(job[q])
        BY DEF IInv, Holds, Typed, Shape
      <3>2. TransitionHolds(q)' /\ CancelHolds(q)'
        BY <2>2, <2>3, <3>1 DEF TransitionHolds, CancelHolds, At, JobShape
      <3>3. AcceptHolds(q)'
        BY <2>2, <2>3, <3>1 DEF AcceptHolds, ActiveAdministrators, JobShape
      <3>4. InsertHolds(q)'
        BY <2>2, <2>3, <3>1 DEF InsertHolds, At, JobShape
      <3> QED BY <3>2, <3>3, <3>4
    <2> QED BY <2>1, <2>4, <2>5 DEF IInv, Holds
  <1>5. CASE Crash
    <2>1. Typed'
      BY <1>5, StepTyped DEF IInv, Next
    <2>2. /\ UNCHANGED rows
          /\ \A r \in Request : job'[r] = NoJob /\ locks'[r] = {}
      BY <1>5 DEF Crash
    <2>3. ExactlyOneActiveOwner' /\ AtMostOnePending' /\ LocksExclusive'
      BY <2>2
      DEF IInv, rows, ExactlyOneActiveOwner, AtMostOnePending, Pending,
          LocksExclusive
    <2>4. Holds'
      BY <2>2, NoJobFacts
      DEF Holds, TransitionHolds, CancelHolds, AcceptHolds, InsertHolds, At,
          Transitions
    <2> QED BY <2>1, <2>3, <2>4 DEF IInv
  <1>6. CASE UNCHANGED vars
    <2>1. Typed'
      BY <1>6, StepTyped DEF IInv
    <2> QED
      BY <1>6, <2>1
      DEF vars, IInv, ExactlyOneActiveOwner, AtMostOnePending, Pending,
          LocksExclusive, Holds, TransitionHolds, CancelHolds, AcceptHolds,
          InsertHolds, At, ActiveAdministrators
  <1> QED BY <1>1, <1>2, <1>3, <1>4, <1>5, <1>6 DEF Next

\* At every moment every request may rely on what the rows it holds tell it
\* (the FOR UPDATE comments of membership.service.ts 188-194 and 416-424).
THEOREM Invariance == Spec => []IInv
  BY InitIInv, StepKeeps, PTL DEF Spec

\* SEC-08: one owner, and he is active, at every moment of every run.
THEOREM OneActiveOwner == Spec => []ExactlyOneActiveOwner
  <1>1. IInv => ExactlyOneActiveOwner
    BY DEF IInv
  <1> QED BY <1>1, Invariance, PTL

\* No two ownership transfers are open at once.
THEOREM OnePendingTransfer == Spec => []AtMostOnePending
  <1>1. IInv => AtMostOnePending
    BY DEF IInv
  <1> QED BY <1>1, Invariance, PTL

---------------------------------------------------------------------------
(* How ownership moves, and what it implements. *)

\* The steps that neither move ownership nor open or close a transfer.
LEMMA OthersLeaveOwnership ==
  ASSUME IInv, [Next]_vars,
         \A r \in Request :
           /\ ~AcceptCommit(r) /\ ~CancelCommit(r)
           /\ ProposeInsert(r) => Refuse(r)
  PROVE  /\ \A m \in Member : isOwner'[m] = isOwner[m]
         /\ \A p \in Proposal :
              /\ proposal'[p].status = proposal[p].status
              /\ proposal'[p].proposer = proposal[p].proposer
              /\ proposal'[p].successor = proposal[p].successor
  <1> USE DEF rows
  <1>1. ASSUME NEW r \in Request, Arrive(r) PROVE UNCHANGED rows
    BY <1>1 DEF Arrive, RequestTransition, RequestPromote, RequestPropose,
       RequestCancel, RequestAccept, RequestJoin, Admit
  <1>2. ASSUME NEW r \in Request, Timeout(r) \/ Refuse(r) PROVE UNCHANGED rows
    BY <1>2 DEF Timeout, Refuse
  <1>3. ASSUME NEW r \in Request, ReadOrLock(r) PROVE UNCHANGED rows
    BY <1>3
    DEF ReadOrLock, TransitionLock, TransitionRead, TransitionCount, Revoke,
        RevokeFails, PromoteRead, ProposeRead, ProposeCheckPending, CancelLock,
        AcceptLock, AcceptLockProposer, AcceptLockSuccessor, AcceptRead, JoinRead,
        CheckLifecycle, Refuse, Proceed, Lock
  <1>4. ASSUME NEW r \in Request, TransitionCommit(r) \/ PromoteCommit(r)
        PROVE  UNCHANGED <<isOwner, proposal>>
    BY <1>4 DEF TransitionCommit, PromoteCommit
  <1>5. ASSUME NEW r \in Request, JoinCommit(r)
        PROVE  /\ \A m \in Member : isOwner'[m] = isOwner[m]
               /\ UNCHANGED proposal
    BY <1>5, JoinKeepsOwner DEF JoinCommit
  <1>6. ASSUME NEW x \in Proposal, Expire(x)
        PROVE  /\ UNCHANGED isOwner
               /\ \A p \in Proposal :
                    /\ proposal'[p].status = proposal[p].status
                    /\ proposal'[p].proposer = proposal[p].proposer
                    /\ proposal'[p].successor = proposal[p].successor
    <2> DEFINE new == [proposal[x] EXCEPT !.expired = TRUE]
    <2>1. proposal \in [Proposal -> ProposalRow] /\ proposal[x] \in ProposalRow
      BY DEF IInv, Typed, TypeOK
    <2>2. /\ new.status = proposal[x].status
          /\ new.proposer = proposal[x].proposer
          /\ new.successor = proposal[x].successor
      BY <2>1 DEF ProposalRow
    <2>3. proposal' = [proposal EXCEPT ![x] = new] /\ UNCHANGED isOwner
      BY <1>6 DEF Expire
    <2> HIDE DEF new
    <2> QED BY <2>1, <2>2, <2>3
  <1>7. Crash \/ UNCHANGED vars => UNCHANGED <<isOwner, proposal>>
    BY DEF Crash, vars
  <1> QED
    BY <1>1, <1>2, <1>3, <1>4, <1>5, <1>6, <1>7 DEF Next, Serve, ReadOrLock

\* Only a hand-over that was consented to makes anybody an owner.
LEMMA ConsentStep ==
  ASSUME IInv, [Next]_vars, NEW m \in Member, isOwner'[m], ~isOwner[m]
  PROVE  /\ m \in ActiveAdministrators
         /\ \E p \in Pending :
              /\ proposal[p].successor = m /\ isOwner[proposal[p].proposer]
              /\ proposal'[p].status = "ACCEPTED"
  <1>1. PICK r \in Request : AcceptCommit(r)
    <2>1. ASSUME NEW r \in Request, CancelCommit(r) PROVE UNCHANGED isOwner
      BY <2>1 DEF CancelCommit
    <2>2. ASSUME NEW r \in Request, ProposeInsert(r) PROVE UNCHANGED isOwner
      BY <2>2 DEF ProposeInsert, Refuse, rows
    <2> QED BY <2>1, <2>2, OthersLeaveOwnership
  <1> DEFINE p == job[r].proposal
  <1>2. /\ p \in Pending /\ isOwner[proposal[p].proposer]
        /\ proposal[p].successor \in ActiveAdministrators
        /\ proposal[p].proposer \in Member
    BY <1>1, AcceptCommitFacts DEF Pending
  <1>3. m = proposal[p].successor
    BY <1>1, <1>2 DEF AcceptCommit, IInv, Typed, TypeOK
  <1>4. proposal'[p].status = "ACCEPTED"
    BY <1>1, <1>2, ResolveTyped DEF AcceptCommit, IInv, Typed, TypeOK, Pending
  <1> QED BY <1>2, <1>3, <1>4

\* Ownership only ever arrives at an active Administrator to whom the owner
\* of that moment offered it.
THEOREM Consent == Spec => OwnershipMovesByConsent
  <1>1. IInv /\ [Next]_vars =>
          [\A m \in Member :
             isOwner'[m] /\ ~isOwner[m] =>
               /\ m \in ActiveAdministrators
               /\ \E p \in Pending :
                    /\ proposal[p].successor = m /\ isOwner[proposal[p].proposer]
                    /\ proposal'[p].status = "ACCEPTED"]_vars
    BY ConsentStep
  <1> QED
    BY <1>1, Invariance, PTL DEF Spec, OwnershipMovesByConsent

\* What the refinement mapping makes of a state.
LEMMA MapOwner ==
  ASSUME ExactlyOneActiveOwner, NEW m \in Member, isOwner[m]
  PROVE  OwnerRow = m
  BY DEF ExactlyOneActiveOwner, OwnerRow

\* An open proposal is mapped to the offer.
LEMMA MapOffer ==
  ASSUME AtMostOnePending, NEW p \in Pending
  PROVE  OpenOffer = [by |-> proposal[p].proposer, to |-> proposal[p].successor]
  <1>1. (CHOOSE q \in Pending : TRUE) = p
    BY DEF AtMostOnePending
  <1> QED BY <1>1 DEF OpenOffer

\* Without an open proposal there is no offer.
LEMMA MapNoOffer ==
  ASSUME Pending = {}
  PROVE  OpenOffer = NoOffer
  BY DEF OpenOffer

\* Initial states map to initial states.
LEMMA InitRefines == Init => Promise!Init
  <1> SUFFICES ASSUME Init PROVE Promise!Init
    OBVIOUS
  <1>1. IInv
    BY InitIInv
  <1>2. OwnerRow \in Member
    BY <1>1, MapOwner DEF IInv, ExactlyOneActiveOwner
  <1>3. Pending = {}
    BY NoProposalType DEF Init, Pending
  <1> QED BY <1>2, <1>3, MapNoOffer DEF Promise!Init

\* Every step maps to a step of Ownership or to a stutter.
LEMMA StepRefines ==
  ASSUME IInv, IInv', [Next]_vars
  PROVE  [Promise!Next]_(Promise!vars)
  <1>o. PICK o \in Member :
          isOwner[o] /\ \A n \in Member : isOwner[n] => n = o
    BY DEF IInv, ExactlyOneActiveOwner
  <1>p. OwnerRow = o
    BY <1>o, MapOwner DEF IInv
  <1>t. /\ proposal \in [Proposal -> ProposalRow]
        /\ isOwner \in [Member -> BOOLEAN]
        /\ proposal' \in [Proposal -> ProposalRow]
    BY DEF IInv, Typed, TypeOK
  <1>1. ASSUME NEW r \in Request, AcceptCommit(r) PROVE Promise!HandOver
    <2> DEFINE p == job[r].proposal
               old == proposal[p].proposer
               new == proposal[p].successor
    <2>1. /\ p \in Pending /\ old = o /\ old \in Member /\ new \in Member
          /\ Resolve(p, "ACCEPTED")
          /\ isOwner' = [isOwner EXCEPT ![old] = FALSE, ![new] = TRUE]
      BY <1>1, <1>o, AcceptCommitFacts
      DEF AcceptCommit, Pending, ActiveAdministrators
    <2>2. OpenOffer = [by |-> old, to |-> new]
      BY <2>1, MapOffer DEF IInv
    <2>3. OpenOffer # NoOffer
      BY <2>1, <2>2, NoOneIsNoRow DEF NoOffer
    <2>4. OwnerRow' = new
      <3>1. isOwner'[new] /\ \A n \in Member : isOwner'[n] => n = new
        BY <1>o, <1>t, <2>1
      <3> QED BY <2>1, <3>1 DEF OwnerRow
    <2>5. Pending' = {}
      <3>1. \A x \in Proposal : proposal'[x].status # "PENDING"
        BY <1>t, <2>1, ResolveTyped DEF IInv, AtMostOnePending, Pending
      <3> QED BY <3>1 DEF Pending
    <2>6. OpenOffer' = NoOffer'
      BY <2>5 DEF OpenOffer
    <2> QED
      BY <1>p, <2>1, <2>2, <2>3, <2>4, <2>6 DEF Promise!HandOver, NoOffer
  <1>2. ASSUME NEW r \in Request, CancelCommit(r) PROVE Promise!Withdraw
    <2> DEFINE p == job[r].proposal
    <2>1. /\ p \in Pending /\ Resolve(p, "CANCELLED") /\ UNCHANGED isOwner
          /\ isOwner[proposal[p].proposer] /\ proposal[p].proposer \in Member
      BY <1>2 DEF CancelCommit, At, IInv, Holds, CancelHolds, Typed, Shape,
         JobShape, Pending
    <2>2. OpenOffer = [by |-> o, to |-> proposal[p].successor]
      BY <1>o, <2>1, MapOffer DEF IInv
    <2>3. OpenOffer # NoOffer
      BY <2>2, NoOneIsNoRow DEF NoOffer
    <2>4. Pending' = {}
      <3>1. \A x \in Proposal : proposal'[x].status # "PENDING"
        BY <1>t, <2>1, ResolveTyped DEF IInv, AtMostOnePending, Pending
      <3> QED BY <3>1 DEF Pending
    <2>5. OpenOffer' = NoOffer' /\ OwnerRow' = OwnerRow
      BY <2>1, <2>4 DEF OpenOffer, OwnerRow
    <2> QED
      BY <1>p, <2>2, <2>3, <2>5 DEF Promise!Withdraw, NoOffer
  <1>3. ASSUME NEW r \in Request, ProposeInsert(r), ~Refuse(r)
        PROVE  Promise!Make
    <2> DEFINE p == job[r].proposal
               a == job[r].actor
               s == job[r].target
    <2>1. /\ Pending = {} /\ UNCHANGED isOwner
          /\ p \in Proposal /\ a \in Member /\ s \in Member
          /\ proposal' = [proposal EXCEPT ![p] =
               [status |-> "PENDING", proposer |-> a, successor |-> s,
                expired |-> FALSE]]
      BY <1>3 DEF ProposeInsert, At, IInv, Typed, Shape, JobShape
    <2>2. OpenOffer = NoOffer
      BY <2>1, MapNoOffer
    <2>3. Pending' = {p}
      BY <1>t, <2>1 DEF Pending
    <2>4. /\ proposal'[p].proposer = a /\ proposal'[p].successor = s
      BY <1>t, <2>1
    <2>5. OpenOffer' = [by |-> a, to |-> s]
      <3>1. (CHOOSE q \in Pending' : TRUE) = p
        BY <2>3
      <3> QED BY <2>3, <2>4, <3>1 DEF OpenOffer
    <2>6. OwnerRow' = OwnerRow
      BY <2>1 DEF OwnerRow
    <2> QED BY <2>1, <2>2, <2>5, <2>6 DEF Promise!Make
  <1>4. ASSUME \A r \in Request :
                 /\ ~AcceptCommit(r) /\ ~CancelCommit(r)
                 /\ ProposeInsert(r) => Refuse(r)
        PROVE  UNCHANGED Promise!vars
    <2>1. /\ \A m \in Member : isOwner'[m] = isOwner[m]
          /\ \A p \in Proposal :
               /\ proposal'[p].status = proposal[p].status
               /\ proposal'[p].proposer = proposal[p].proposer
               /\ proposal'[p].successor = proposal[p].successor
      BY <1>4, OthersLeaveOwnership
    <2>2. OwnerRow' = OwnerRow
      <3>1. OwnerRow' = o
        BY <1>o, <2>1 DEF OwnerRow
      <3> QED BY <1>p, <3>1
    <2>3. Pending' = Pending
      BY <2>1 DEF Pending
    <2>4. OpenOffer' = OpenOffer
      <3>1. CASE Pending = {}
        BY <2>3, <3>1 DEF OpenOffer, NoOffer
      <3>2. CASE Pending # {}
        <4>1. PICK p \in Pending : TRUE
          BY <3>2
        <4>2. OpenOffer = [by |-> proposal[p].proposer,
                           to |-> proposal[p].successor]
          BY <4>1, MapOffer DEF IInv
        <4>3. (CHOOSE q \in Pending' : TRUE) = p
          BY <2>3, <4>1 DEF IInv, AtMostOnePending
        <4>4. OpenOffer' = [by |-> proposal'[p].proposer,
                            to |-> proposal'[p].successor]
          BY <2>3, <4>1, <4>3 DEF OpenOffer
        <4> QED BY <2>1, <4>1, <4>2, <4>4 DEF Pending
      <3> QED BY <3>1, <3>2
    <2> QED BY <2>2, <2>4 DEF Promise!vars
  <1> QED
    BY <1>1, <1>2, <1>3, <1>4 DEF Promise!Next

\* The transactions implement the promise of Ownership.
THEOREM Refinement == Spec => ImplementsOwnership
  <1>1. Init => Promise!Init
    BY InitRefines
  <1>2. IInv /\ IInv' /\ [Next]_vars => [Promise!Next]_(Promise!vars)
    BY StepRefines
  <1> QED
    BY <1>1, <1>2, Invariance, PTL DEF Spec, ImplementsOwnership, Promise!Spec
---------------------------------------------------------------------------
(* The last Administrator.  The count that suspend and remove make locks   *)
(* nothing and does not protect him: the owner does, who is exempt from    *)
(* both, as long as no accepted invitation writes him back to USER.        *)

OwnerAdministers ==
  \A m \in Member : isOwner[m] => profile[m] = "ADMINISTRATOR"

\* The owner accepts a collaborator invitation of the own Organization.
OwnerJoins == \E r \in Request : JoinCommit(r) /\ isOwner[job[r].target]

\* Only a promotion and an accepted invitation write a profile.
LEMMA ProfilesKept ==
  ASSUME [Next]_vars
  PROVE  \/ profile' = profile
         \/ \E r \in Request : PromoteCommit(r) \/ JoinCommit(r)
  <1>1. ASSUME NEW r \in Request, Refuse(r) \/ \E l : Proceed(r, l)
        PROVE  profile' = profile
    BY <1>1 DEF Refuse, Proceed, rows
  <1>2. ASSUME NEW r \in Request, Arrive(r)
        PROVE  profile' = profile
    BY <1>2 DEF Arrive, RequestTransition, RequestPromote, RequestPropose,
       RequestCancel, RequestAccept, RequestJoin, Admit, rows
  <1>3. ASSUME NEW r \in Request, ReadOrLock(r)
        PROVE  profile' = profile
    BY <1>1, <1>3
    DEF ReadOrLock, TransitionLock, TransitionRead, TransitionCount, Revoke,
        RevokeFails, PromoteRead, ProposeRead, ProposeCheckPending, CancelLock,
        AcceptLock, AcceptLockProposer, AcceptLockSuccessor, AcceptRead, JoinRead,
        CheckLifecycle, Lock, rows
  <1>4. ASSUME NEW r \in Request,
               \/ TransitionCommit(r) \/ ProposeInsert(r)
               \/ CancelCommit(r) \/ AcceptCommit(r)
        PROVE  profile' = profile
    BY <1>1, <1>4 DEF TransitionCommit, ProposeInsert, CancelCommit, AcceptCommit
  <1> QED
    BY <1>1, <1>2, <1>3, <1>4
    DEF Next, Serve, ReadOrLock, Timeout, Expire, Crash, rows, vars

\* A profile only ever falls by an accepted invitation.
LEMMA OwnerStaysAdministrator ==
  ASSUME IInv, OwnerAdministers, [Next]_vars, [~OwnerJoins]_vars
  PROVE  OwnerAdministers'
  <1> SUFFICES ASSUME NEW m \in Member, isOwner'[m]
               PROVE  profile'[m] = "ADMINISTRATOR"
    BY DEF OwnerAdministers
  <1>1. TypeOK
    BY DEF IInv, Typed
  <1>2. profile[m] = "ADMINISTRATOR"
    <2>1. CASE ~isOwner[m]
      BY <2>1, ConsentStep DEF ActiveAdministrators
    <2> QED BY <2>1 DEF OwnerAdministers
  <1>3. ASSUME NEW r \in Request, PromoteCommit(r)
        PROVE  profile'[m] = "ADMINISTRATOR"
    BY <1>1, <1>2, <1>3 DEF PromoteCommit, TypeOK
  <1>4. ASSUME NEW r \in Request, JoinCommit(r)
        PROVE  profile'[m] = "ADMINISTRATOR"
    <2>1. isOwner[m]
      BY <1>4, JoinKeepsOwner
    <2>2. CASE UNCHANGED vars
      BY <1>2, <2>2 DEF vars
    <2>3. CASE ~OwnerJoins
      <3>1. m # job[r].target
        BY <1>4, <2>1, <2>3 DEF OwnerJoins
      <3> QED BY <1>1, <1>2, <1>4, <3>1 DEF JoinCommit, TypeOK
    <2> QED BY <2>2, <2>3
  <1> QED BY <1>2, <1>3, <1>4, ProfilesKept

\* SEC-08, second half, as far as the code bears it out: as long as no owner
\* accepts a collaborator invitation of the own Organization, it never loses
\* its last active Administrator, whatever suspensions, removals, promotions,
\* transfers, acceptances of others, timeouts and crashes race.
THEOREM AnAdministratorRemains ==
  Spec /\ [][~OwnerJoins]_vars => []AtLeastOneActiveAdministrator
  <1>1. Init => OwnerAdministers
    BY DEF Init, OwnerAdministers
  <1>2. IInv /\ OwnerAdministers /\ [Next]_vars /\ [~OwnerJoins]_vars
          => OwnerAdministers'
    BY OwnerStaysAdministrator
  <1>3. IInv /\ OwnerAdministers => AtLeastOneActiveAdministrator
    BY DEF IInv, ExactlyOneActiveOwner, OwnerAdministers, ActiveAdministrators,
       AtLeastOneActiveAdministrator
  <1> QED BY Invariance, <1>1, <1>2, <1>3, PTL DEF Spec

---------------------------------------------------------------------------
(* Sessions that are still to be revoked *)

Owes(r, m) == pc[r] = "revoke" /\ job[r].target = m

\* What is made stale is owed by the request that made it so.
LEMMA StaleGrowsWithDebt ==
  ASSUME IInv, [Next]_vars, NEW m \in Member,
         stale'[m] = "OWED", stale[m] # "OWED"
  PROVE  \E r \in Request : Owes(r, m)'
  <1>1. TypeOK
    BY DEF IInv, Typed
  <1>2. ASSUME NEW r \in Request, AnswerAfterRevoking(r)
        PROVE  Owes(r, m)'
    BY <1>1, <1>2 DEF AnswerAfterRevoking, Goto, Owes, TypeOK
  <1>3. ASSUME NEW r \in Request, Refuse(r) \/ \E l : Proceed(r, l)
        PROVE  FALSE
    BY <1>3 DEF Refuse, Proceed
  <1>4. ASSUME NEW r \in Request, Arrive(r)
        PROVE  FALSE
    BY <1>4 DEF Arrive, RequestTransition, RequestPromote, RequestPropose,
       RequestCancel, RequestAccept, RequestJoin, Admit
  <1>5. ASSUME NEW r \in Request, ReadOrLock(r)
        PROVE  FALSE
    BY <1>1, <1>3, <1>5
    DEF ReadOrLock, TransitionLock, TransitionRead, TransitionCount, Revoke,
        RevokeFails, PromoteRead, ProposeRead, ProposeCheckPending, CancelLock,
        AcceptLock, AcceptLockProposer, AcceptLockSuccessor, AcceptRead, JoinRead,
        CheckLifecycle, Lock, GiveUp, TypeOK
  <1>6. ASSUME NEW r \in Request,
               ProposeInsert(r) \/ CancelCommit(r) \/ AcceptCommit(r) \/ JoinCommit(r)
        PROVE  FALSE
    BY <1>3, <1>6 DEF ProposeInsert, CancelCommit, AcceptCommit, JoinCommit
  <1>7. ASSUME NEW r \in Request, TransitionCommit(r) \/ PromoteCommit(r)
        PROVE  AnswerAfterRevoking(r)
    BY <1>7 DEF TransitionCommit, PromoteCommit
  <1>8. \E r \in Request : AnswerAfterRevoking(r)
    BY <1>1, <1>3, <1>4, <1>5, <1>6, <1>7
    DEF Next, Serve, ReadOrLock, Timeout, Expire, Crash, GiveUp, TypeOK, vars
  <1> QED BY <1>2, <1>8

\* A request that is to revoke sessions does nothing else; once it is done,
\* has failed or was forgotten in a crash, nothing is owed to that member.
LEMMA DebtIsKept ==
  ASSUME IInv, [Next]_vars, NEW r \in Request, NEW m \in Member,
         stale'[m] = "OWED", Owes(r, m)
  PROVE  Owes(r, m)'
  <1>1. TypeOK
    BY DEF IInv, Typed
  <1>2. ASSUME NEW q \in Request, q # r,
               Arrive(q) \/ Serve(q) \/ Timeout(q) \/ RevokeFails(q)
        PROVE  pc'[r] = pc[r] /\ job'[r] = job[r]
    <2>1. CASE Arrive(q)
      BY <1>1, <1>2, <2>1 DEF Arrive, RequestTransition, RequestPromote,
         RequestPropose, RequestCancel, RequestAccept, RequestJoin, Admit, TypeOK
    <2>2. CASE Serve(q) \/ Timeout(q) \/ RevokeFails(q)
      <3>1. Answer(q) \/ \E l : Goto(q, l)
        BY <2>2 DEF Serve, TransitionLock, TransitionRead, TransitionCount,
           TransitionCommit, Revoke, PromoteRead, PromoteCommit, ProposeRead,
           ProposeCheckPending, ProposeInsert, CancelLock, CancelCommit,
           AcceptLock, AcceptLockProposer, AcceptLockSuccessor, AcceptRead,
           AcceptCommit, JoinRead, JoinCommit, CheckLifecycle, Refuse, Proceed,
           Lock, AnswerAfterRevoking, Timeout, RevokeFails
      <3> QED BY <1>1, <1>2, <3>1 DEF Answer, Goto, TypeOK
    <2> QED BY <1>2, <2>1, <2>2
  <1>3. ~Arrive(r) /\ ~Timeout(r)
    BY DEF Owes, Arrive, RequestTransition, RequestPromote, RequestPropose,
       RequestCancel, RequestAccept, RequestJoin, Admit, Timeout
  <1>4. Serve(r) => Revoke(r)
    BY DEF Owes, Serve, TransitionLock, TransitionRead, TransitionCount,
       TransitionCommit, PromoteRead, PromoteCommit, ProposeRead,
       ProposeCheckPending, ProposeInsert, CancelLock, CancelCommit, AcceptLock,
       AcceptLockProposer, AcceptLockSuccessor, AcceptRead, AcceptCommit, JoinRead,
       JoinCommit, At
  <1>5. ~Revoke(r) /\ ~RevokeFails(r) /\ ~Crash
    BY <1>1 DEF Revoke, RevokeFails, Crash, GiveUp, Owes, TypeOK
  <1> QED BY <1>2, <1>3, <1>4, <1>5 DEF Next, Expire, vars, Owes

\* SEC-07: a session that a suspension, removal or promotion is to end is about
\* to be revoked by a running request, unless a revocation failed or a crash
\* forgot it.
THEOREM StaleSessionsAreOwed == Spec => []StaleSessionIsOwed
  <1>1. Init => StaleSessionIsOwed
    BY DEF Init, StaleSessionIsOwed
  <1>2. IInv /\ StaleSessionIsOwed /\ [Next]_vars => StaleSessionIsOwed'
    <2> SUFFICES ASSUME IInv, StaleSessionIsOwed, [Next]_vars,
                        NEW m \in Member, stale'[m] = "OWED"
                 PROVE  \E r \in Request : Owes(r, m)'
      BY DEF StaleSessionIsOwed, Owes
    <2>1. CASE stale[m] # "OWED"
      BY <2>1, StaleGrowsWithDebt
    <2>2. CASE stale[m] = "OWED"
      <3>1. PICK r \in Request : Owes(r, m)
        BY <2>2 DEF StaleSessionIsOwed, Owes
      <3> QED BY <3>1, DebtIsKept
    <2> QED BY <2>1, <2>2
  <1> QED BY Invariance, <1>1, <1>2, PTL DEF Spec
=============================================================================
