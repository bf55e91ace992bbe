-------------------------- MODULE PermissionsProofs --------------------------
(***************************************************************************)
(* Theorems about Permissions, for every set of Companies, Business        *)
(* Scopes, capabilities and concurrent requests, and any number of         *)
(* changes.                                                                *)
(***************************************************************************)
EXTENDS Permissions, TLAPS

---------------------------------------------------------------------------
(* The inductive invariant *)

\* The rows of S that are still there, a request has deleted once it is past
\* the DELETE of their table, and has found while that DELETE waits.
PastCapabilities(r) ==
  pc[r] \in {"grant", "filter", "insert"}
    \/ (pc[r] = "waiting" /\ job[r].table = "grant")
PastGrants(r) == pc[r] \in {"filter", "insert"}
Deletes(r, S) ==
  \A x \in S \cap permission :
    /\ PastCapabilities(r) /\ x.what \in Capability => x \in job[r].gone
    /\ PastGrants(r) /\ x.what \in Grant => x \in job[r].gone
    /\ pc[r] = "waiting" /\ x \in In(job[r].table, permission) => x \in job[r].seen

Running(r) == job[r].op # "none"
Uncommitted(r) == Running(r) /\ pc[r] # "revoke"

\* Which statements an operation has.
Placed(r) ==
  /\ pc[r] = "idle" <=> ~Running(r)
  /\ pc[r] = "revoke" => job[r].op = "update"
  /\ pc[r] \in {"join", "filter"} => job[r].op = "accept"

\* The number of a change is new, and so are the rows that it will insert.
Numbered(r) ==
  Running(r) =>
    /\ job[r].change \in 1..changes
    /\ \A x \in job[r].were : x.change < job[r].change
    /\ Uncommitted(r) => \A x \in permission : x.change # job[r].change

\* What the request has found is deleted, by an acceptance all there is.
Replaces(r) ==
  /\ Uncommitted(r) => Deletes(r, job[r].were)
  /\ job[r].op = "accept" => Deletes(r, permission)

\* Deactivations only take targets away.
Filters(r) ==
  job[r].op = "accept" =>
    /\ live \subseteq job[r].targets
    /\ pc[r] = "insert" =>
         /\ job[r].want.capabilities = invitation.want.capabilities
         /\ GrantsOn(live) \subseteq job[r].want.grants
         /\ job[r].want.grants \subseteq GrantsOn(job[r].targets)

Knows(r) == Placed(r) /\ Numbered(r) /\ Replaces(r) /\ Filters(r)

\* Two requests have numbers of their own, and only one of them accepts.
Apart(r, q) ==
  /\ Running(r) /\ Running(q) => job[r].change # job[q].change
  /\ Uncommitted(r) /\ Running(q) => \A x \in job[q].were : x.change # job[r].change
  /\ ~(Accepting(r) /\ Accepting(q))

IInv ==
  /\ TypeOK
  /\ \A x \in permission : x.change <= changes
  /\ \A r \in Request : Knows(r)
  /\ \A r, q \in Request : r # q => Apart(r, q)

\* An idle request has a job of the right type, and names nothing.
LEMMA NoJobType == NoJob \in Job /\ NoJob.op = "none" /\ Nobody \in Wanted
  BY MaxChangeIsNatural DEF NoJob, Job, Wanted, Nobody, Table

\* IInv holds at the start.
LEMMA InitIInv == Init => IInv
  <1> SUFFICES ASSUME Init PROVE IInv
    OBVIOUS
  <1>1. \A r \in Request : job[r].op = "none" /\ pc[r] = "idle"
    BY NoJobType DEF Init
  <1>2. TypeOK
    <2>1. invitation \in [status : {"NONE", "PENDING", "ACCEPTED", "REVOKED"},
                          repeats : BOOLEAN, want : Wanted]
      BY NoJobType DEF Init
    <2>2. pc \in [Request -> Label] /\ job \in [Request -> Job]
      BY NoJobType DEF Init, Label
    <2>3. \A r \in Request : ~Accepting(r)
      BY <1>1 DEF Accepting
    <2>4. /\ permission = {} /\ profile = "USER" /\ stale = "NONE"
          /\ live = Company \cup Scope /\ changes \in 0..MaxChange
      BY MaxChangeIsNatural DEF Init
    <2>5. In("capability", permission) = {}
      BY <2>4 DEF In
    <2> QED BY <2>1, <2>2, <2>3, <2>4, <2>5 DEF TypeOK, Fate
  <1>3. permission = {}
    BY DEF Init
  <1> QED BY <1>1, <1>2, <1>3 DEF IInv, Knows, Placed, Numbered, Replaces, Filters,
             Apart, Running, Uncommitted, Accepting, Deletes

---------------------------------------------------------------------------
(* Steps that write no permission *)

\* The others rely on nothing that such a step of r takes away.
LEMMA QuietStepKeeps ==
  ASSUME IInv, TypeOK', NEW r \in Request, UNCHANGED <<permission, live, invitation>>,
         changes' \in changes..MaxChange,
         \A q \in Request \ {r} : pc'[q] = pc[q] /\ job'[q] = job[q],
         Knows(r)', \A q \in Request \ {r} : Apart(r, q)' /\ Apart(q, r)'
  PROVE  IInv'
  <1>1. changes \in Nat /\ changes' \in Nat /\ changes <= changes'
    BY MaxChangeIsNatural DEF IInv, TypeOK
  <1>2. ASSUME NEW q \in Request \ {r}
        PROVE  Knows(q)'
    <2>1. Knows(q) /\ pc'[q] = pc[q] /\ job'[q] = job[q] /\ job[q].change \in Nat
      BY DEF IInv, TypeOK, Job
    <2>2. Placed(q)' /\ Replaces(q)' /\ Filters(q)'
      BY <2>1 DEF Knows, Placed, Replaces, Filters, Running, Uncommitted, Deletes,
         PastCapabilities, PastGrants, In, GrantsOn
    <2>3. Numbered(q)'
      BY <1>1, <2>1 DEF Knows, Numbered, Running, Uncommitted
    <2> QED BY <2>2, <2>3 DEF Knows
  <1>3. ASSUME NEW p \in Request \ {r}, NEW q \in Request \ {r}, p # q
        PROVE  Apart(p, q)'
    BY <1>3 DEF IInv, Apart, Running, Uncommitted, Accepting
  <1>4. \A x \in permission' : x.change <= changes'
    BY <1>1 DEF IInv, TypeOK, Row
  <1> QED BY <1>2, <1>3, <1>4 DEF IInv

\* A request that is answered relies on nothing.
LEMMA AnswerKeepsApart ==
  ASSUME TypeOK, NEW r \in Request, Answer(r)
  PROVE  /\ \A q \in Request \ {r} : pc'[q] = pc[q] /\ job'[q] = job[q]
         /\ pc'[r] = "idle" /\ job'[r] = NoJob /\ job'[r].op = "none"
         /\ pc' \in [Request -> Label] /\ job' \in [Request -> Job]
         /\ Knows(r)' /\ \A q \in Request \ {r} : Apart(r, q)' /\ Apart(q, r)'
  <1>1. /\ \A q \in Request \ {r} : pc'[q] = pc[q] /\ job'[q] = job[q]
        /\ pc'[r] = "idle" /\ job'[r] = NoJob
        /\ pc' \in [Request -> Label] /\ job' \in [Request -> Job]
    BY NoJobType DEF Answer, TypeOK, Label
  <1>2. job'[r].op = "none"
    BY <1>1, NoJobType
  <1>3. Knows(r)'
    BY <1>1, <1>2 DEF Knows, Placed, Numbered, Replaces, Filters, Running, Uncommitted
  <1>4. \A q \in Request \ {r} : Apart(r, q)' /\ Apart(q, r)'
    BY <1>2 DEF Apart, Running, Uncommitted, Accepting
  <1> QED BY <1>1, <1>2, <1>3, <1>4

\* A refused request rolls back: rows stay, and its locks are released.
LEMMA RefuseKeeps ==
  ASSUME IInv, NEW r \in Request, Refuse(r)
  PROVE  IInv'
  <1>1. TypeOK /\ Answer(r) /\ UNCHANGED rows /\ changes' = changes
    BY DEF IInv, Refuse, Answer
  <1>2. TypeOK'
    BY <1>1, AnswerKeepsApart DEF TypeOK, rows, Accepting, In
  <1>3. changes' \in changes..MaxChange
    BY <1>1, MaxChangeIsNatural DEF TypeOK
  <1> QED BY <1>1, <1>2, <1>3, AnswerKeepsApart, QuietStepKeeps DEF rows

\* A request goes on, or its own state changes, without a new number.
LEMMA MoveKeeps ==
  ASSUME IInv, NEW r \in Request, UNCHANGED <<rows, changes>>,
         NEW label \in Label, NEW new \in Job,
         pc' = [pc EXCEPT ![r] = label], job' = [job EXCEPT ![r] = new],
         new.op = job[r].op, new.change = job[r].change, new.were = job[r].were,
         Uncommitted(r), label \notin {"idle", "revoke"}, Knows(r)',
         new.op = "accept" /\ label # "read" =>
           Accepting(r) \/ (/\ \A q \in Request : ~Accepting(q)
                            /\ invitation.status = "PENDING")
  PROVE  IInv'
  <1>1. TypeOK /\ \A q \in Request \ {r} : Apart(r, q) /\ Apart(q, r)
    BY DEF IInv
  <1>2. /\ pc'[r] = label /\ job'[r] = new
        /\ \A q \in Request \ {r} : pc'[q] = pc[q] /\ job'[q] = job[q]
        /\ pc' \in [Request -> Label] /\ job' \in [Request -> Job]
    BY <1>1 DEF TypeOK
  <1>3. TypeOK'
    <2>1. \A q \in Request : Accepting(q)' => invitation'.status = "PENDING"
      BY <1>1, <1>2 DEF TypeOK, Accepting, rows
    <2> QED BY <1>1, <1>2, <2>1 DEF TypeOK, rows, In
  <1>4. ASSUME NEW q \in Request \ {r}
        PROVE  Apart(r, q)' /\ Apart(q, r)'
    BY <1>1, <1>2 DEF Apart, Running, Uncommitted, Accepting
  <1>5. changes' \in changes..MaxChange
    BY <1>1, MaxChangeIsNatural DEF TypeOK
  <1>6. UNCHANGED <<permission, live, invitation>>
    BY DEF rows
  <1> QED BY <1>2, <1>3, <1>4, <1>5, <1>6, QuietStepKeeps

\* A request enters with the permissions it is to write.
LEMMA SubmitKeeps ==
  ASSUME IInv, NEW r \in Request, NEW op \in {"update", "accept"},
         NEW want \in Wanted, Submit(r, op, want)
  PROVE  IInv'
  <1> DEFINE new == [NoJob EXCEPT !.op = op, !.change = changes + 1, !.want = want,
                                  !.were = permission,
                                  !.targets = IF op = "accept" THEN live ELSE {}]
  <1>1. /\ TypeOK /\ pc[r] = "idle" /\ Placed(r) /\ changes \in Nat
        /\ changes' = changes + 1 /\ changes < MaxChange /\ UNCHANGED rows
    BY MaxChangeIsNatural DEF IInv, Submit, TypeOK, Knows
  <1>2. /\ new.op = op /\ new.change = changes + 1 /\ new.were = permission
        /\ new.targets = (IF op = "accept" THEN live ELSE {})
    BY DEF NoJob
  <1>3. changes' \in 0..MaxChange /\ changes' \in changes..MaxChange
    BY <1>1, MaxChangeIsNatural
  <1>4. new \in Job
    BY <1>1, <1>3, NoJobType DEF NoJob, Job, TypeOK, Table
  <1>5. pc' = [pc EXCEPT ![r] = "read"] /\ job' = [job EXCEPT ![r] = new]
    BY DEF Submit
  <1> HIDE DEF new
  <1>6. /\ pc'[r] = "read" /\ job'[r] = new
        /\ \A q \in Request \ {r} : pc'[q] = pc[q] /\ job'[q] = job[q]
        /\ pc' \in [Request -> Label] /\ job' \in [Request -> Job]
    BY <1>1, <1>4, <1>5 DEF TypeOK, Label
  <1>7. TypeOK'
    BY <1>1, <1>3, <1>6 DEF TypeOK, rows, In, Accepting
  <1>8. \A x \in permission : x.change \in Nat /\ x.change <= changes
    BY <1>1, MaxChangeIsNatural DEF IInv, TypeOK, Row
  <1>9. Knows(r)'
    <2>1. Placed(r)' /\ Replaces(r)' /\ Filters(r)'
      BY <1>1, <1>2, <1>6 DEF Placed, Replaces, Filters, Running, Deletes,
         PastCapabilities, PastGrants, rows
    <2>2. Numbered(r)'
      BY <1>1, <1>2, <1>6, <1>8 DEF Numbered, rows
    <2> QED BY <2>1, <2>2 DEF Knows
  <1>10. ASSUME NEW q \in Request \ {r}
         PROVE  Apart(r, q)' /\ Apart(q, r)'
    <2>1. /\ Knows(q) /\ Apart(q, r) /\ pc'[q] = pc[q] /\ job'[q] = job[q]
          /\ job[q].change \in Nat /\ job[q].were \subseteq Row
      BY <1>1, <1>6, MaxChangeIsNatural DEF IInv, TypeOK, Job
    <2>2. Running(q) => /\ job[q].change <= changes
                        /\ \A x \in job[q].were : x.change # changes + 1
      BY <1>1, <2>1, MaxChangeIsNatural DEF Knows, Numbered, Row
    <2> QED BY <1>1, <1>2, <1>6, <2>1, <2>2
            DEF Apart, Running, Uncommitted, Accepting, Knows, Numbered
  <1> QED BY <1>1, <1>3, <1>6, <1>7, <1>9, <1>10, QuietStepKeeps DEF rows

\* A statement that only reads.
LEMMA GotoKeeps ==
  ASSUME IInv, NEW r \in Request, Uncommitted(r),
         NEW label \in {"join", "capability"}, Goto(r, label),
         \/ At(r, "update", "read") /\ label = "capability"
         \/ At(r, "accept", "join") /\ label = "capability"
         \/ At(r, "accept", "read") /\ label = "join"
              /\ (\A q \in Request : ~Accepting(q)) /\ invitation.status = "PENDING"
  PROVE  IInv'
  <1>1. TypeOK /\ job[r] \in Job /\ Knows(r)
    BY DEF IInv, TypeOK
  <1>2. /\ pc' = [pc EXCEPT ![r] = label] /\ job' = [job EXCEPT ![r] = job[r]]
        /\ UNCHANGED <<rows, changes, job>>
    BY <1>1 DEF Goto, TypeOK
  <1>3. pc'[r] = label
    BY <1>1, <1>2 DEF TypeOK
  <1>4. Knows(r)'
    BY <1>1, <1>2, <1>3 DEF Knows, Placed, Numbered, Replaces, Filters, Running,
       Uncommitted, Deletes, PastCapabilities, PastGrants, At, rows
  <1>5. label \in Label /\ label \notin {"idle", "revoke"}
    BY DEF Label
  <1>6. job[r].op = "accept" /\ label # "read" =>
          Accepting(r) \/ (/\ \A q \in Request : ~Accepting(q)
                           /\ invitation.status = "PENDING")
    BY DEF At, Accepting
  <1> QED BY <1>1, <1>2, <1>4, <1>5, <1>6, MoveKeeps

\* A DELETE starts with the rows its snapshot has.
LEMMA DeleteKeeps ==
  ASSUME IInv, NEW r \in Request, Delete(r)
  PROVE  IInv'
  <1> DEFINE found == In(pc[r], permission)
             new == [job[r] EXCEPT !.table = pc[r], !.seen = found]
  <1>1. TypeOK /\ job[r] \in Job /\ Knows(r) /\ pc[r] \in {"capability", "grant"}
    BY DEF IInv, TypeOK, Delete, Table
  <1>2. found \in SUBSET Row
    BY <1>1 DEF TypeOK, In
  <1>3. /\ new \in Job /\ new.table = pc[r] /\ new.seen = found
        /\ new.op = job[r].op /\ new.change = job[r].change
        /\ new.were = job[r].were /\ new.gone = job[r].gone
        /\ new.targets = job[r].targets
    BY <1>1, <1>2 DEF Job, Table
  <1>4. /\ pc' = [pc EXCEPT ![r] = "waiting"] /\ job' = [job EXCEPT ![r] = new]
        /\ UNCHANGED <<rows, changes>>
    BY DEF Delete
  <1> HIDE DEF new
  <1>5. pc'[r] = "waiting" /\ job'[r] = new
    BY <1>1, <1>4 DEF TypeOK
  <1>6. Uncommitted(r) /\ Placed(r)'
    BY <1>1, <1>3, <1>5 DEF Knows, Placed, Running, Uncommitted
  <1>7. Numbered(r)' /\ Filters(r)'
    BY <1>1, <1>3, <1>4, <1>5, <1>6
       DEF Knows, Numbered, Filters, Running, Uncommitted, rows
  <1>8. ASSUME NEW T, Deletes(r, T)
        PROVE  Deletes(r, T)'
    BY <1>1, <1>3, <1>4, <1>5, <1>8 DEF Deletes, PastCapabilities, PastGrants, rows
  <1>9. Replaces(r)'
    BY <1>1, <1>3, <1>4, <1>5, <1>6, <1>8
       DEF Knows, Replaces, Running, Uncommitted, rows
  <1>10. new.op = "accept" => Accepting(r)
    BY <1>1, <1>3 DEF Accepting
  <1> QED BY <1>1, <1>3, <1>4, <1>6, <1>7, <1>9, <1>10, MoveKeeps DEF Knows, Label

\* A DELETE goes on when nobody else is deleting the rows it saw; the rest is
\* gone.
LEMMA DeletedKeeps ==
  ASSUME IInv, NEW r \in Request, Deleted(r)
  PROVE  IInv'
  <1> DEFINE gone == job[r].gone \cup (job[r].seen \cap permission)
             new == [job[r] EXCEPT !.seen = {}, !.gone = gone]
             label == AfterDelete(r)
  <1>1. /\ TypeOK /\ job[r] \in Job /\ Knows(r) /\ pc[r] = "waiting"
        /\ job[r].table \in {"capability", "grant"}
    BY DEF IInv, TypeOK, Deleted, Table, Job
  <1>2. gone \in SUBSET Row
    BY <1>1 DEF TypeOK, Job
  <1>3. /\ new \in Job /\ new.table = job[r].table /\ new.gone = gone
        /\ new.op = job[r].op /\ new.change = job[r].change
        /\ new.were = job[r].were /\ new.targets = job[r].targets
    BY <1>1, <1>2 DEF Job, Table
  <1>4. /\ pc' = [pc EXCEPT ![r] = label] /\ job' = [job EXCEPT ![r] = new]
        /\ UNCHANGED <<rows, changes>>
    BY <1>1 DEF Deleted, TypeOK
  <1>5. \/ job[r].table = "capability" /\ label = "grant"
        \/ job[r].table = "grant" /\ label = "filter" /\ job[r].op = "accept"
        \/ job[r].table = "grant" /\ label = "insert" /\ job[r].op # "accept"
    BY <1>1 DEF AfterDelete
  <1> HIDE DEF new, label
  <1>6. pc'[r] = label /\ job'[r] = new
    BY <1>1, <1>4 DEF TypeOK
  <1>7. Uncommitted(r) /\ Placed(r)'
    BY <1>1, <1>3, <1>5, <1>6 DEF Knows, Placed, Running, Uncommitted
  <1>8. Numbered(r)' /\ Filters(r)'
    BY <1>1, <1>3, <1>4, <1>5, <1>6, <1>7
       DEF Knows, Numbered, Filters, Running, Uncommitted, rows
  <1>9. ASSUME NEW T, Deletes(r, T)
        PROVE  Deletes(r, T)'
    <2> SUFFICES ASSUME NEW x \in T \cap permission
                 PROVE  /\ x.what \in Capability => x \in gone
                        /\ label # "grant" /\ x.what \in Grant => x \in gone
      BY <1>3, <1>4, <1>5, <1>6 DEF Deletes, PastCapabilities, PastGrants, rows
    <2>1. x \in In(job[r].table, permission) => x \in gone
      BY <1>1, <1>9 DEF Deletes
    <2>2. job[r].table = "grant" /\ x.what \in Capability => x \in gone
      BY <1>1, <1>9 DEF Deletes, PastCapabilities
    <2> QED BY <1>5, <2>1, <2>2 DEF In
  <1>10. Replaces(r)'
    BY <1>1, <1>3, <1>4, <1>6, <1>7, <1>9
       DEF Knows, Replaces, Running, Uncommitted, rows
  <1>11. new.op = "accept" => Accepting(r)
    BY <1>1, <1>3 DEF Accepting
  <1>12. label \in Label /\ label \notin {"idle", "revoke"}
    BY <1>5 DEF Label
  <1> QED BY <1>3, <1>4, <1>7, <1>8, <1>10, <1>11, <1>12, MoveKeeps DEF Knows

\* An acceptance reads which grants are live.
LEMMA AcceptFilterKeeps ==
  ASSUME IInv, NEW r \in Request, AcceptFilter(r)
  PROVE  IInv'
  <1> DEFINE kept == LiveTargets(invitation.want.grants)
             want == [capabilities |-> invitation.want.capabilities, grants |-> kept]
             new == [job[r] EXCEPT !.want = want]
  <1>1. /\ TypeOK /\ job[r] \in Job /\ Knows(r) /\ invitation.want \in Wanted
        /\ pc[r] = "filter" /\ job[r].op = "accept"
    BY DEF IInv, TypeOK, AcceptFilter, At
  <1>2. kept = GrantsOn(live)
    <2>1. invitation.want.grants \subseteq Grant
      BY <1>1 DEF Wanted
    <2>2. ASSUME NEW g \in Grant
          PROVE  g.company \in live \cap Company \/ g.scope \in live \cap Scope
                   <=> {g.company, g.scope} \cap live # {}
      <3>1. /\ g.company \in Company \cup {Nothing}
            /\ g.scope \in Scope \cup {Nothing} /\ live \subseteq Company \cup Scope
        BY <1>1, <2>2 DEF Grant, TypeOK
      <3> QED BY <3>1, NothingIsNoTarget
    <2> QED BY <2>1, <2>2 DEF LiveTargets, FilterLiveGrants, GrantsOn
  <1>3. /\ want \in Wanted /\ want.grants = kept
        /\ want.capabilities = invitation.want.capabilities
    BY <1>1, <1>2 DEF Wanted, GrantsOn
  <1>4. /\ pc' = [pc EXCEPT ![r] = "insert"] /\ job' = [job EXCEPT ![r] = new]
        /\ UNCHANGED <<rows, changes>>
    BY DEF AcceptFilter
  <1> HIDE DEF kept, want
  <1>5. /\ new \in Job /\ new.want = want /\ new.table = job[r].table
        /\ new.gone = job[r].gone /\ new.seen = job[r].seen
        /\ new.op = job[r].op /\ new.change = job[r].change
        /\ new.were = job[r].were /\ new.targets = job[r].targets
    BY <1>1, <1>3 DEF Job
  <1> HIDE DEF new
  <1>6. pc'[r] = "insert" /\ job'[r] = new
    BY <1>1, <1>4 DEF TypeOK
  <1>7. Uncommitted(r) /\ Placed(r)' /\ Numbered(r)'
    BY <1>1, <1>4, <1>5, <1>6
       DEF Knows, Placed, Numbered, Running, Uncommitted, rows
  <1>8. Replaces(r)'
    BY <1>1, <1>4, <1>5, <1>6
       DEF Knows, Replaces, Uncommitted, Running, Deletes, PastCapabilities,
           PastGrants, rows
  <1>9. Filters(r)'
    <2>1. live \subseteq job[r].targets
      BY <1>1 DEF Knows, Filters
    <2>2. GrantsOn(live) \subseteq GrantsOn(job[r].targets)
      BY <2>1 DEF GrantsOn
    <2> QED BY <1>2, <1>3, <1>4, <1>5, <1>6, <2>1, <2>2 DEF Filters, GrantsOn, rows
  <1>10. new.op = "accept" => Accepting(r)
    BY <1>1 DEF Accepting
  <1> QED BY <1>4, <1>5, <1>7, <1>8, <1>9, <1>10, MoveKeeps DEF Knows, Label

\* Revoking the sessions, or failing to, changes no permission.
LEMMA UpdateRevokeKeeps ==
  ASSUME IInv, NEW r \in Request, UpdateRevoke(r) \/ RevokeFails(r)
  PROVE  IInv'
  <1>1. TypeOK /\ Answer(r) /\ UNCHANGED <<permission, profile, live, invitation>>
        /\ changes' = changes /\ stale' \in Fate
    BY DEF IInv, UpdateRevoke, RevokeFails, Answer, TypeOK, Fate
  <1>2. TypeOK'
    BY <1>1, AnswerKeepsApart DEF TypeOK, Accepting, In
  <1>3. changes' \in changes..MaxChange
    BY <1>1, MaxChangeIsNatural DEF TypeOK
  <1> QED BY <1>1, <1>2, <1>3, AnswerKeepsApart, QuietStepKeeps

---------------------------------------------------------------------------
(* The two commits *)

\* What a commit writes: none of the rows it found is left, an acceptance
\* leaves no other row, and no capability is there twice.
LEMMA ReplaceWrites ==
  ASSUME IInv, NEW r \in Request, Replace(r), pc[r] = "insert",
         ~CapabilityTaken(r)
  PROVE  /\ permission' \subseteq Row
         /\ \A x, y \in In("capability", permission') : x.what = y.what => x = y
         /\ \A x \in permission' : x \in permission \/ x.change = job[r].change
         /\ permission' \cap job[r].were = {}
         /\ job[r].op = "accept" => permission' = Inserted(r)
  <1>1. /\ TypeOK /\ Knows(r) /\ job[r].want \in Wanted /\ Running(r)
        /\ job[r].gone \subseteq Row /\ job[r].change \in 1..MaxChange
    <2>1. job[r] \in Job /\ Knows(r) /\ TypeOK
      BY DEF IInv, TypeOK
    <2>2. Running(r) /\ job[r].change \in 1..changes
      BY <2>1 DEF Knows, Placed, Numbered
    <2> QED BY <2>1, <2>2, MaxChangeIsNatural DEF Job, TypeOK
  <1>2. permission' = (permission \ job[r].gone) \cup Inserted(r)
    BY DEF Replace
  <1>3. \A x \in Inserted(r) :
          /\ x \in Row /\ x.change = job[r].change
          /\ x.what \in job[r].want.capabilities \cup job[r].want.grants
    BY <1>1 DEF Inserted, Row, Wanted
  <1>4. \A x, y \in Inserted(r) : x.what = y.what => x = y
    BY DEF Inserted
  <1>5. \A x \in Inserted(r) :
          x.what \in Capability => x.what \in job[r].want.capabilities
    BY <1>1, <1>3, CapabilitiesAreNoGrants DEF Wanted
  <1>6. \A x, y \in In("capability", permission') : x.what = y.what => x = y
    BY <1>1, <1>2, <1>4, <1>5 DEF In, TypeOK, CapabilityTaken
  <1>7. Deletes(r, job[r].were) /\ (job[r].op = "accept" => Deletes(r, permission))
    BY <1>1 DEF Knows, Replaces, Uncommitted
  <1>8. \A x \in permission : x.what \in Capability \cup Grant
    BY <1>1 DEF TypeOK, Row
  <1>9. \A x \in permission \cap job[r].were : x \in job[r].gone
    BY <1>7, <1>8 DEF Deletes, PastCapabilities, PastGrants
  <1>10. job[r].op = "accept" => permission \subseteq job[r].gone
    BY <1>7, <1>8 DEF Deletes, PastCapabilities, PastGrants
  <1>11. Inserted(r) \cap job[r].were = {}
    <2>1. \A x \in job[r].were : x.change < job[r].change /\ x.change \in Nat
      BY <1>1 DEF Knows, Numbered, IInv, TypeOK, Job, Row
    <2> QED BY <1>1, <1>3, <2>1
  <1> QED BY <1>1, <1>2, <1>3, <1>6, <1>9, <1>10, <1>11 DEF TypeOK

\* No other request relies on what a commit changes: an acceptance that has
\* started to delete keeps every commit waiting.
LEMMA CommitKeepsOthers ==
  ASSUME IInv, NEW r \in Request, Replace(r), At(r, "update", "insert")
                 \/ At(r, "accept", "insert"),
         ~CapabilityTaken(r), UNCHANGED <<live, changes>>,
         invitation'.want = invitation.want,
         NEW q \in Request \ {r}, pc'[q] = pc[q], job'[q] = job[q],
         Accepting(q) => pc[q] = "join"
  PROVE  Knows(q)'
  <1>1. /\ TypeOK /\ Knows(q) /\ Knows(r) /\ Apart(r, q) /\ Apart(q, r)
        /\ Uncommitted(r) /\ pc[r] = "insert"
    BY DEF IInv, At, Running, Uncommitted
  <1>2. \A x \in permission' : x \in permission \/ x.change = job[r].change
    BY <1>1, ReplaceWrites
  <1>3. Placed(q)' /\ Filters(q)'
    BY <1>1 DEF Knows, Placed, Filters, Running, GrantsOn
  <1>4. Numbered(q)'
    BY <1>1, <1>2 DEF Knows, Numbered, Apart, Running, Uncommitted
  <1>5. Uncommitted(q) => Deletes(q, job[q].were)'
    <2> SUFFICES ASSUME Uncommitted(q), NEW x \in job[q].were, x \in permission'
                 PROVE  /\ PastCapabilities(q) /\ x.what \in Capability =>
                             x \in job[q].gone
                        /\ PastGrants(q) /\ x.what \in Grant => x \in job[q].gone
                        /\ pc[q] = "waiting"
                             /\ x \in In(job[q].table, permission') =>
                           x \in job[q].seen
      BY DEF Deletes, PastCapabilities, PastGrants
    <2>1. x \in permission
      BY <1>1, <1>2 DEF Apart, Uncommitted
    <2>2. Deletes(q, job[q].were)
      BY <1>1 DEF Knows, Replaces
    <2>3. x \in In(job[q].table, permission') => x \in In(job[q].table, permission)
      BY <2>1 DEF In
    <2> QED BY <2>1, <2>2, <2>3 DEF Deletes
  <1>6. job[q].op = "accept" => Deletes(q, permission)'
    <2>1. job[q].op = "accept" => pc[q] \in {"read", "join"}
      BY DEF Accepting
    <2> QED BY <2>1 DEF Deletes, PastCapabilities, PastGrants
  <1> QED BY <1>3, <1>4, <1>5, <1>6 DEF Knows, Replaces, Running, Uncommitted

\* An update commits the permissions it has replaced whole.
LEMMA UpdateCommitKeeps ==
  ASSUME IInv, NEW r \in Request, UpdateCommit(r), ~Refuse(r)
  PROVE  IInv'
  <1>1. /\ TypeOK /\ Knows(r) /\ At(r, "update", "insert") /\ ~CapabilityTaken(r)
        /\ \A q \in Request : Accepting(q) => pc[q] = "join"
        /\ Replace(r) /\ stale' = "OWED" /\ pc' = [pc EXCEPT ![r] = "revoke"]
        /\ UNCHANGED <<profile, live, invitation, changes, job>>
    BY DEF IInv, UpdateCommit, UpdateAndRevoke
  <1>2. /\ pc'[r] = "revoke" /\ pc[r] = "insert" /\ job[r].op = "update"
        /\ \A q \in Request \ {r} : pc'[q] = pc[q]
    BY <1>1 DEF TypeOK, At
  <1>3. /\ permission' \subseteq Row
        /\ \A x, y \in In("capability", permission') : x.what = y.what => x = y
        /\ \A x \in permission' : x \in permission \/ x.change = job[r].change
    BY <1>1, <1>2, ReplaceWrites
  <1>4. TypeOK'
    <2>1. \A q \in Request : Accepting(q)' => invitation'.status = "PENDING"
      BY <1>1, <1>2 DEF TypeOK, Accepting
    <2>2. pc' \in [Request -> Label]
      BY <1>1 DEF TypeOK, Label
    <2> QED BY <1>1, <1>3, <2>1, <2>2 DEF TypeOK, Fate
  <1>5. job[r].change <= changes
    BY <1>1, <1>2, MaxChangeIsNatural DEF Knows, Numbered, Running, TypeOK
  <1>6. \A x \in permission' : x.change <= changes'
    BY <1>1, <1>3, <1>5 DEF IInv
  <1>7. Knows(r)'
    BY <1>1, <1>2 DEF Knows, Placed, Numbered, Replaces, Filters, Running,
       Uncommitted
  <1>8. \A q \in Request \ {r} : Knows(q)'
    BY <1>1, <1>2, CommitKeepsOthers
  <1>9. \A p, q \in Request : p # q => Apart(p, q)'
    BY <1>1, <1>2 DEF IInv, Apart, Running, Uncommitted, Accepting
  <1> QED BY <1>4, <1>6, <1>7, <1>8, <1>9 DEF IInv

\* An acceptance commits the permissions it has replaced whole.
LEMMA AcceptCommitKeeps ==
  ASSUME IInv, NEW r \in Request, AcceptCommit(r), ~Refuse(r)
  PROVE  IInv'
  <1>1. /\ TypeOK /\ Knows(r) /\ At(r, "accept", "insert") /\ ~CapabilityTaken(r)
        /\ Replace(r) /\ Answer(r) /\ profile' = "USER"
        /\ invitation' = [invitation EXCEPT !.status = "ACCEPTED"]
        /\ UNCHANGED <<live, stale, changes>>
    BY DEF IInv, AcceptCommit, Answer
  <1>2. pc[r] = "insert" /\ job[r].op = "accept" /\ Accepting(r)
    BY <1>1 DEF At, Accepting
  <1>3. \A q \in Request \ {r} : ~Accepting(q)
    BY <1>2 DEF IInv, Apart
  <1>4. /\ permission' \subseteq Row
        /\ \A x, y \in In("capability", permission') : x.what = y.what => x = y
        /\ \A x \in permission' : x \in permission \/ x.change = job[r].change
    BY <1>1, <1>2, ReplaceWrites
  <1>5. /\ \A q \in Request \ {r} : pc'[q] = pc[q] /\ job'[q] = job[q]
        /\ pc' \in [Request -> Label] /\ job' \in [Request -> Job]
        /\ job'[r].op = "none" /\ Knows(r)'
        /\ \A q \in Request \ {r} : Apart(r, q)' /\ Apart(q, r)'
    BY <1>1, AnswerKeepsApart
  <1>6. TypeOK'
    <2>1. invitation' \in [status : {"NONE", "PENDING", "ACCEPTED", "REVOKED"},
                           repeats : BOOLEAN, want : Wanted]
      BY <1>1 DEF TypeOK
    <2>2. \A q \in Request : ~Accepting(q)'
      BY <1>3, <1>5 DEF Accepting
    <2> QED BY <1>1, <1>4, <1>5, <2>1, <2>2 DEF TypeOK
  <1>7. job[r].change <= changes
    BY <1>1, <1>2, MaxChangeIsNatural DEF Knows, Numbered, Running, TypeOK
  <1>8. \A x \in permission' : x.change <= changes'
    BY <1>1, <1>4, <1>7 DEF IInv
  <1>9. \A q \in Request \ {r} : Knows(q)'
    <2>1. invitation'.want = invitation.want
      BY <1>1 DEF TypeOK
    <2> QED BY <1>1, <1>3, <1>5, <2>1, CommitKeepsOthers
  <1>10. \A p, q \in Request \ {r} : p # q => Apart(p, q)'
    BY <1>5 DEF IInv, Apart, Running, Uncommitted, Accepting
  <1> QED BY <1>5, <1>6, <1>8, <1>9, <1>10 DEF IInv

---------------------------------------------------------------------------
(* What happens meanwhile, and the theorem *)

\* Invitations, promotions and deactivations leave requests alone.
LEMMA MeanwhileKeeps ==
  ASSUME IInv, Invite \/ Revoke \/ Promote \/ Deactivate
  PROVE  IInv'
  <1>1. /\ TypeOK /\ UNCHANGED <<permission, changes, stale, pc, job>>
        /\ live' \subseteq live
    BY DEF IInv, Invite, Revoke, Promote, Deactivate
  <1>2. TypeOK'
    <2>1. invitation' \in [status : {"NONE", "PENDING", "ACCEPTED", "REVOKED"},
                           repeats : BOOLEAN, want : Wanted]
      BY <1>1, OfferedIsWanted DEF TypeOK, Invite, Revoke, Promote, Deactivate
    <2>2. profile' \in {"USER", "ADMINISTRATOR"}
      BY <1>1 DEF TypeOK, Invite, Revoke, Promote, Deactivate
    <2>3. \A q \in Request : Accepting(q) => invitation'.status = "PENDING"
      BY <1>1 DEF TypeOK, Invite, Revoke, Promote, Deactivate
    <2> QED BY <1>1, <2>1, <2>2, <2>3 DEF TypeOK, Accepting, In
  <1>3. ASSUME NEW r \in Request
        PROVE  Knows(r)'
    <2>1. Knows(r)
      BY DEF IInv
    <2>2. Filters(r)'
      <3>1. Accepting(r) => invitation'.want = invitation.want
        BY <1>1 DEF TypeOK, Invite, Revoke, Promote, Deactivate
      <3> QED BY <1>1, <2>1, <3>1 DEF Knows, Filters, Accepting, GrantsOn
    <2> QED BY <1>1, <2>1, <2>2 DEF Knows, Placed, Numbered, Replaces, Running,
            Uncommitted, Deletes, PastCapabilities, PastGrants
  <1>4. \A p, q \in Request : p # q => Apart(p, q)'
    BY <1>1 DEF IInv, Apart, Running, Uncommitted, Accepting
  <1> QED BY <1>1, <1>2, <1>3, <1>4 DEF IInv

\* Every step keeps IInv.
LEMMA NextIInv == IInv /\ [Next]_vars => IInv'
  <1> SUFFICES ASSUME IInv, [Next]_vars PROVE IInv'
    OBVIOUS
  <1>1. ASSUME NEW r \in Request, At(r, "update", "read") \/ Accepting(r)
                 \/ At(r, "accept", "read")
        PROVE  Uncommitted(r)
    BY <1>1 DEF IInv, Knows, Placed, At, Running, Uncommitted, Accepting
  <1>2. ASSUME NEW r \in Request, RequestUpdate(r) \/ RequestAccept(r)
        PROVE  IInv'
    BY <1>2, SubmitKeeps, NoJobType, OfferedIsWanted DEF RequestUpdate, RequestAccept
  <1>3. ASSUME NEW r \in Request, UpdateRead(r)
        PROVE  IInv'
    BY <1>1, <1>3, RefuseKeeps, GotoKeeps DEF UpdateRead
  <1>4. ASSUME NEW r \in Request, AcceptRead(r)
        PROVE  IInv'
    BY <1>1, <1>4, RefuseKeeps, GotoKeeps DEF AcceptRead
  <1>5. ASSUME NEW r \in Request, AcceptJoin(r)
        PROVE  IInv'
    <2>1. Accepting(r)
      BY <1>5 DEF AcceptJoin, At, Accepting
    <2> QED BY <1>1, <1>5, <2>1, GotoKeeps DEF AcceptJoin
  <1>6. ASSUME NEW r \in Request, UpdateCommit(r) \/ AcceptCommit(r)
        PROVE  IInv'
    BY <1>6, RefuseKeeps, UpdateCommitKeeps, AcceptCommitKeeps
  <1>7. ASSUME NEW r \in Request, Serve(r)
        PROVE  IInv'
    BY <1>3, <1>4, <1>5, <1>6, <1>7, DeleteKeeps, DeletedKeeps, AcceptFilterKeeps,
       UpdateRevokeKeeps DEF Serve
  <1>8. ASSUME NEW r \in Request, Lose(r) \/ RevokeFails(r)
        PROVE  IInv'
    BY <1>8, RefuseKeeps, UpdateRevokeKeeps DEF Lose
  <1>9. CASE UNCHANGED vars
    BY <1>9 DEF vars, rows, IInv, TypeOK, Knows, Placed, Numbered, Replaces, Filters,
       Apart, Running, Uncommitted, Accepting, Deletes, PastCapabilities, PastGrants,
       GrantsOn, In
  <1> QED BY <1>2, <1>7, <1>8, <1>9, MeanwhileKeeps DEF Next

\* What each statement of an update or an acceptance may rely on.
THEOREM InductiveInvariant == Spec => []IInv
  BY InitIInv, NextIInv, PTL DEF Spec

\* No membership has a capability twice, and an invitation that is being
\* accepted stays open until the acceptance commits.
THEOREM TypeCorrect == Spec => []TypeOK
  <1>1. IInv => TypeOK
    BY DEF IInv
  <1> QED BY <1>1, InductiveInvariant, PTL

---------------------------------------------------------------------------
(* What a change of permissions replaces *)

\* Only the commit of an update or an acceptance changes permissions.
LEMMA OnlyCommitsReplace ==
  ASSUME [Next]_vars, permission' # permission
  PROVE  \E r \in Request :
           /\ UpdateCommit(r) \/ AcceptCommit(r)
           /\ pc[r] = "insert" /\ Replace(r) /\ ~CapabilityTaken(r)
  <1>1. ASSUME NEW r \in Request, Refuse(r) PROVE FALSE
    BY <1>1 DEF Refuse, rows
  <1>2. ASSUME NEW r \in Request, RequestUpdate(r) \/ RequestAccept(r) PROVE FALSE
    BY <1>2 DEF RequestUpdate, RequestAccept, Submit, rows
  <1>3. ASSUME NEW r \in Request,
               \/ UpdateRead(r) \/ AcceptRead(r) \/ AcceptJoin(r) \/ Delete(r)
               \/ Deleted(r) \/ AcceptFilter(r) \/ UpdateRevoke(r) \/ Lose(r)
               \/ RevokeFails(r)
        PROVE  FALSE
    BY <1>1, <1>3 DEF UpdateRead, AcceptRead, AcceptJoin, Delete, Deleted,
       AcceptFilter, UpdateRevoke, RevokeFails, Lose, Goto, rows
  <1>4. ASSUME NEW r \in Request, UpdateCommit(r) \/ AcceptCommit(r)
        PROVE  pc[r] = "insert" /\ Replace(r) /\ ~CapabilityTaken(r)
    BY <1>1, <1>4 DEF UpdateCommit, AcceptCommit, UpdateAndRevoke, At
  <1>5. ~(Invite \/ Revoke \/ Promote \/ Deactivate)
    BY DEF Invite, Revoke, Promote, Deactivate
  <1> QED BY <1>2, <1>3, <1>4, <1>5 DEF Next, Serve, vars

\* Permissions are reduced for good: no row that a member had when a change
\* was submitted survives its commit, whichever other changes come between.
THEOREM FoundIsReplaced == Spec => ReplacesWhatItFound
  <1>1. IInv /\ [Next]_vars =>
          [permission' # permission =>
             \E r \in Request :
               pc[r] = "insert" /\ permission' \cap job[r].were = {}]_vars
    BY OnlyCommitsReplace, ReplaceWrites
  <1> QED BY <1>1, InductiveInvariant, PTL DEF Spec, ReplacesWhatItFound

\* Once a former member has accepted, the permissions are the invitation's:
\* its capabilities, every grant with a target that is still ACTIVE, and none
\* that had no ACTIVE target any more when the request came.
THEOREM AcceptedIsReplaced == Spec => AcceptanceReplaces
  <1> DEFINE Replaced(r) ==
        /\ permission' = Inserted(r)
        /\ job[r].want.capabilities = invitation.want.capabilities
        /\ GrantsOn(live) \subseteq job[r].want.grants
        /\ job[r].want.grants \subseteq GrantsOn(job[r].targets)
  <1> DEFINE Step ==
        \A r \in Request :
          At(r, "accept", "insert") /\ permission' # permission => Replaced(r)
  <1>1. IInv /\ [Next]_vars => Step
    <2> SUFFICES ASSUME IInv, [Next]_vars, NEW r \in Request,
                        At(r, "accept", "insert"), permission' # permission
                 PROVE  Replaced(r)
      OBVIOUS
    <2>1. PICK q \in Request :
            /\ UpdateCommit(q) \/ AcceptCommit(q)
            /\ pc[q] = "insert" /\ Replace(q) /\ ~CapabilityTaken(q)
      BY OnlyCommitsReplace
    <2>2. Accepting(r) /\ pc[r] # "join" /\ job[r].op = "accept"
      BY DEF At, Accepting
    <2>3. ~(UpdateCommit(q) /\ ~Refuse(q))
      BY <2>2 DEF UpdateCommit
    <2>4. ~Refuse(q)
      BY DEF Refuse, rows
    <2>5. Accepting(q)
      BY <2>1, <2>3, <2>4 DEF AcceptCommit, At, Accepting
    <2>6. q = r
      BY <2>2, <2>5 DEF IInv, Apart
    <2>7. permission' = Inserted(r)
      BY <2>1, <2>2, <2>6, ReplaceWrites
    <2>8. Filters(r) /\ pc[r] = "insert"
      BY <2>1, <2>6 DEF IInv, Knows
    <2> QED BY <2>2, <2>7, <2>8 DEF Filters
  <1>2. IInv /\ [Next]_vars => [Step]_vars
    BY <1>1
  <1> QED BY <1>2, InductiveInvariant, PTL DEF Spec, AcceptanceReplaces

---------------------------------------------------------------------------
(* The sessions an update is to end *)

Owes(r) == At(r, "update", "revoke")

\* Only the commit of an update makes the member's sessions stale.
LEMMA StaleByUpdate ==
  ASSUME [Next]_vars, stale # "OWED", stale' = "OWED"
  PROVE  \E r \in Request : UpdateCommit(r) /\ ~Refuse(r)
  <1>1. ASSUME NEW r \in Request, Refuse(r) PROVE FALSE
    BY <1>1 DEF Refuse, rows
  <1>2. ASSUME NEW r \in Request, RequestUpdate(r) \/ RequestAccept(r) PROVE FALSE
    BY <1>2 DEF RequestUpdate, RequestAccept, Submit, rows
  <1>3. ASSUME NEW r \in Request,
               \/ UpdateRead(r) \/ AcceptRead(r) \/ AcceptJoin(r) \/ Delete(r)
               \/ Deleted(r) \/ AcceptFilter(r) \/ UpdateRevoke(r)
               \/ AcceptCommit(r) \/ Lose(r) \/ RevokeFails(r)
        PROVE  FALSE
    BY <1>1, <1>3 DEF UpdateRead, AcceptRead, AcceptJoin, Delete, Deleted,
       AcceptFilter, UpdateRevoke, RevokeFails, AcceptCommit, Lose, Goto, rows
  <1>4. ~(Invite \/ Revoke \/ Promote \/ Deactivate)
    BY DEF Invite, Revoke, Promote, Deactivate
  <1> QED BY <1>1, <1>2, <1>3, <1>4 DEF Next, Serve, vars

\* A step of r is no other request's.
LEMMA StepIsOwn ==
  ASSUME TypeOK, NEW r \in Request, NEW q \in Request, q # r,
         \/ RequestUpdate(r) \/ RequestAccept(r) \/ Serve(r)
         \/ Lose(r) \/ RevokeFails(r)
  PROVE  pc'[q] = pc[q] /\ job'[q] = job[q]
  <1>1. \E l : pc' = [pc EXCEPT ![r] = l]
    BY DEF RequestUpdate, RequestAccept, Submit, Serve, UpdateRead, AcceptRead,
       AcceptJoin, Delete, Deleted, AcceptFilter, UpdateCommit, UpdateAndRevoke,
       UpdateRevoke, RevokeFails, AcceptCommit, Lose, Goto, Refuse, Answer
  <1>2. job'[q] = job[q]
    BY DEF RequestUpdate, RequestAccept, Submit, Serve, UpdateRead, AcceptRead,
       AcceptJoin, Delete, Deleted, AcceptFilter, UpdateCommit, UpdateAndRevoke,
       UpdateRevoke, RevokeFails, AcceptCommit, Lose, Goto, Refuse, Answer, TypeOK
  <1> QED BY <1>1, <1>2 DEF TypeOK

\* SEC-07: a session opened before an update committed is about to be revoked
\* by a running request, whichever of two gets to it, unless a revocation
\* failed or was forgotten in a crash.
THEOREM StaleSessionsAreOwed == Spec => []StaleSessionIsOwed
  <1>1. Init => StaleSessionIsOwed
    BY DEF Init, StaleSessionIsOwed
  <1>2. IInv /\ StaleSessionIsOwed /\ [Next]_vars => StaleSessionIsOwed'
    <2> SUFFICES ASSUME IInv, StaleSessionIsOwed, [Next]_vars, stale' = "OWED"
                 PROVE  \E r \in Request : Owes(r)'
      BY DEF StaleSessionIsOwed, Owes
    <2>1. TypeOK
      BY DEF IInv
    <2>2. CASE stale # "OWED"
      <3>1. PICK r \in Request : UpdateCommit(r) /\ ~Refuse(r)
        BY <2>1, <2>2, StaleByUpdate
      <3> QED BY <2>1, <3>1 DEF UpdateCommit, UpdateAndRevoke, Owes, At, TypeOK
    <2>3. CASE stale = "OWED"
      <3>1. PICK r \in Request : Owes(r)
        BY <2>3 DEF StaleSessionIsOwed, Owes
      <3>2. ASSUME NEW q \in Request, q # r,
                   \/ RequestUpdate(q) \/ RequestAccept(q) \/ Serve(q)
                   \/ Lose(q) \/ RevokeFails(q)
            PROVE  Owes(r)'
        BY <2>1, <3>1, <3>2, StepIsOwn DEF Owes, At
      <3>3. ~(RequestUpdate(r) \/ RequestAccept(r) \/ Lose(r))
        BY <3>1 DEF Owes, At, RequestUpdate, RequestAccept, Submit, Lose
      <3>4. Serve(r) => UpdateRevoke(r)
        BY <3>1 DEF Owes, Serve, UpdateRead, AcceptRead, AcceptJoin, Delete, Table,
           Deleted, AcceptFilter, UpdateCommit, AcceptCommit, At
      <3>5. ~UpdateRevoke(r) /\ ~RevokeFails(r)
        BY <2>3 DEF UpdateRevoke, RevokeFails
      <3>6. CASE UNCHANGED <<pc, job>>
        BY <3>1, <3>6 DEF Owes, At
      <3> QED BY <3>2, <3>3, <3>4, <3>5, <3>6
              DEF Next, Invite, Revoke, Promote, Deactivate, vars
    <2> QED BY <2>2, <2>3
  <1> QED BY InductiveInvariant, <1>1, <1>2, PTL DEF Spec
====
