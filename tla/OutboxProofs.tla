---------------------------- MODULE OutboxProofs ----------------------------
(***************************************************************************)
(* Theorems about Outbox, for every number of processes, mails and         *)
(* attempts, and every limit of the sweep.                                 *)
(***************************************************************************)
EXTENDS Outbox, TLAPS

---------------------------------------------------------------------------
(* The inductive invariant.  OneHolder is what keeps the others: whoever   *)
(* records an outcome still holds a mail that is PENDING.  An orphaned     *)
(* call holds nothing.                                                     *)

\* SELECT ... FOR UPDATE: a row is held by at most one process, and only while
\* it is PENDING.
OneHolder ==
  \A i, j \in Instance, m \in Mail :
    Holds(i, m) => m \in Pending /\ (Holds(j, m) => i = j)

\* Who is about to record a success has seen the provider take the mail.
RecordsWhatWasTaken ==
  \A i \in Instance, m \in Mail : task[i][m] = "record" => delivery[m].taken > 0

\* A mail of which no outcome was missed and that the provider has taken is
\* SENT, or about to be.
Known(m) ==
  \/ delivery[m].missed
  \/ delivery[m].taken = 0
  \/ /\ delivery[m].taken = 1
     /\ outbox[m].status = "SENT" \/ \E i \in Instance : task[i][m] = "record"
OutcomesKnown == \A m \in Mail : Known(m)

\* A process that does not serve yet dispatches one mail at a time.
OneAtATime ==
  \A i \in Instance : phase[i] # "up" =>
    \A m, n \in Mail : task[i][m] # "none" /\ task[i][n] # "none" => m = n

\* A mail that is still to be sent has an attempt left.
AttemptLeft == \A m \in Pending : outbox[m].attempts < MaxAttempts

IInv ==
  /\ TypeOK /\ TokenWhilePending /\ OneHolder /\ SettledForAReason
  /\ RecordsWhatWasTaken /\ OutcomesKnown /\ OneAtATime /\ AttemptLeft

\* IInv holds at the start.
LEMMA InitIInv == Init => IInv
  <1> SUFFICES ASSUME Init PROVE IInv
    OBVIOUS
  <1>1. TypeOK
    <2>1. [status |-> "NONE", attempts |-> 0, token |-> FALSE] \in Row
      BY AttemptsArePositive DEF Row
    <2>2. outbox \in [Mail -> Row] /\ delivery \in [Mail -> Delivery]
      BY <2>1 DEF Init, Delivery
    <2>3. task \in [Instance -> [Mail -> Task]]
      BY DEF Init, Task
    <2>4. /\ phase \in [Instance -> Phase]
          /\ todo \in [Instance -> SUBSET Mail]
          /\ calm \in BOOLEAN
      BY DEF Init, Phase
    <2> QED BY <2>2, <2>3, <2>4 DEF TypeOK
  <1>2. \A m \in Mail : outbox[m].status = "NONE" /\ ~outbox[m].token
    BY DEF Init
  <1>3. \A i \in Instance, m \in Mail : task[i][m] = "none"
    BY DEF Init
  <1>4. \A m \in Mail : Known(m)
    BY DEF Init, Known
  <1> QED BY <1>1, <1>2, <1>3, <1>4 DEF IInv, TokenWhilePending, OneHolder,
             SettledForAReason, RecordsWhatWasTaken, OutcomesKnown, OneAtATime,
             AttemptLeft, Pending, Holds

\* The oldest of a set are in it.
LEMMA OldestIn == ASSUME NEW S PROVE Oldest(S) \subseteq S
  BY DEF Oldest

---------------------------------------------------------------------------
(* Steps that write no row. *)

\* What may happen to the delivery of a mail: nothing, while a success that is
\* still to be recorded stays so; or its outcome is missed.
Excused(m) ==
  \/ /\ delivery'[m] = delivery[m]
     /\ \A i \in Instance : task[i][m] = "record" => task'[i][m] = "record"
  \/ delivery'[m].missed /\ delivery'[m].taken >= delivery[m].taken

\* A process that loses tasks, or begins some that hold nothing yet, leaves
\* the invariant alone.
LEMMA TasksKeep ==
  ASSUME IInv, UNCHANGED <<outbox, calm>>,
         phase' \in [Instance -> Phase], todo' \in [Instance -> SUBSET Mail],
         task' \in [Instance -> [Mail -> Task]], delivery' \in [Mail -> Delivery],
         \A i \in Instance, m \in Mail :
           task'[i][m] \in {task[i][m], "none", "begin", "orphan"},
         \A m \in Mail : Excused(m), OneAtATime'
  PROVE  IInv'
  <1>1. TypeOK'
    BY DEF IInv, TypeOK
  <1>2. \A i \in Instance, m \in Mail : Holds(i, m)' => Holds(i, m)
    BY DEF Holds
  <1>3. Pending' = Pending
    BY DEF Pending
  <1>4. \A m \in Mail : delivery[m].taken \in 0..2 /\ delivery'[m].taken \in 0..2
    BY DEF IInv, TypeOK, Delivery
  <1>5. SettledForAReason' /\ RecordsWhatWasTaken'
    <2>1. \A m \in Mail : delivery'[m].taken >= delivery[m].taken
      BY <1>4 DEF Excused
    <2>2. \A i \in Instance, m \in Mail :
            task'[i][m] = "record" => task[i][m] = "record"
      OBVIOUS
    <2>3. \A m \in Mail : delivery[m].taken > 0 => delivery'[m].taken > 0
      BY <1>4, <2>1
    <2> QED BY <2>2, <2>3 DEF IInv, SettledForAReason, RecordsWhatWasTaken
  <1>6. OutcomesKnown'
    <2> SUFFICES ASSUME NEW m \in Mail PROVE Known(m)'
      BY DEF OutcomesKnown
    <2>1. Known(m) /\ Excused(m)
      BY DEF IInv, OutcomesKnown
    <2> QED BY <2>1 DEF Known, Excused
  <1> QED BY <1>1, <1>2, <1>3, <1>5, <1>6 DEF IInv, TokenWhilePending, OneHolder,
             AttemptLeft

\* The effect of Goto.
LEMMA GotoTask ==
  ASSUME TypeOK, NEW i \in Instance, NEW m \in Mail, NEW l \in Task,
         Goto(i, m, l)
  PROVE  /\ task' \in [Instance -> [Mail -> Task]]
         /\ task'[i][m] = l
         /\ \A j \in Instance, n \in Mail :
              j # i \/ n # m => task'[j][n] = task[j][n]
  BY DEF TypeOK, Goto

\* The effect of Die on the tasks: those of the process end.
LEMMA DieTask ==
  ASSUME TypeOK, NEW i \in Instance, Die(i)
  PROVE  /\ task' \in [Instance -> [Mail -> Task]]
         /\ \A n \in Mail : task'[i][n] = "none"
         /\ \A j \in Instance \ {i}, n \in Mail : task'[j][n] = task[j][n]
         /\ \A j \in Instance \ {i} : phase'[j] = phase[j]
         /\ phase' \in [Instance -> Phase] /\ todo' \in [Instance -> SUBSET Mail]
  BY DEF TypeOK, Die, Phase, Task

\* The effect of Call.
LEMMA CallRow ==
  ASSUME TypeOK, NEW m \in Mail, NEW takes \in BOOLEAN, NEW learns \in BOOLEAN,
         Call(m, takes, learns)
  PROVE  /\ delivery' \in [Mail -> Delivery]
         /\ delivery'[m].taken = IF ~takes THEN delivery[m].taken
                                 ELSE IF delivery[m].taken = 0 THEN 1 ELSE 2
         /\ delivery'[m].missed = (delivery[m].missed \/ ~learns)
         /\ \A n \in Mail \ {m} : delivery'[n] = delivery[n]
  <1> DEFINE new == [taken |-> IF ~takes THEN delivery[m].taken
                               ELSE IF delivery[m].taken = 0 THEN 1 ELSE 2,
                     missed |-> delivery[m].missed \/ ~learns]
  <1>1. delivery[m] \in Delivery /\ delivery \in [Mail -> Delivery]
    BY DEF TypeOK
  <1>2. new \in Delivery
    BY <1>1 DEF Delivery
  <1>3. delivery' = [delivery EXCEPT ![m] = new]
    BY <1>1 DEF Call, Delivery
  <1> HIDE DEF new
  <1>4. delivery' \in [Mail -> Delivery] /\ delivery'[m] = new
        /\ \A n \in Mail \ {m} : delivery'[n] = delivery[n]
    BY <1>1, <1>2, <1>3
  <1> QED BY <1>4 DEF new

\* Starting, stopping and sweeping only move the process.
LEMMA BootIInv ==
  ASSUME IInv, NEW i \in Instance, Boot(i) \/ Stop(i), UNCHANGED calm
  PROVE  IInv'
  <1> USE DEF Phase
  <1>1. TypeOK /\ OneAtATime /\ "begin" \in Task
    BY DEF IInv, Task
  <1>2. CASE Start(i) \/ Listen(i) \/ Stop(i)
    <2>1. OneAtATime'
      BY <1>1, <1>2 DEF Start, Listen, Stop, Idle, OneAtATime, TypeOK
    <2> QED BY <1>1, <1>2, <2>1, TasksKeep DEF Start, Listen, Stop, TypeOK, Excused
  <1>3. CASE Select(i)
    <2>1. OneAtATime'
      BY <1>1, <1>3 DEF Select, OneAtATime, TypeOK
    <2> QED BY <1>1, <1>3, <2>1, TasksKeep DEF Select, TypeOK, Pending, Excused
  <1>4. CASE SweepNext(i)
    <2>1. PICK m \in todo[i] :
            /\ Idle(i)
            /\ todo' = [todo EXCEPT ![i] = @ \ {m}]
            /\ Goto(i, m, "begin")
            /\ UNCHANGED <<outbox, delivery, phase>>
      BY <1>4, OldestIn DEF SweepNext
    <2>2. m \in Mail
      BY <1>1 DEF TypeOK
    <2>3. /\ task' \in [Instance -> [Mail -> Task]]
          /\ task'[i][m] = "begin"
          /\ \A j \in Instance, n \in Mail :
               j # i \/ n # m => task'[j][n] = task[j][n]
      BY <1>1, <2>1, <2>2, GotoTask
    <2>4. phase' \in [Instance -> Phase] /\ todo' \in [Instance -> SUBSET Mail]
      BY <1>1, <2>1 DEF TypeOK
    <2>5. OneAtATime'
      BY <1>1, <2>1, <2>2, <2>3 DEF OneAtATime, Idle
    <2>6. \A n \in Mail : Excused(n)
      BY <2>1, <2>2, <2>3 DEF Excused, Idle
    <2>7. delivery' \in [Mail -> Delivery]
      BY <1>1, <2>1 DEF TypeOK
    <2>8. \A j \in Instance, n \in Mail : task'[j][n] \in {task[j][n], "begin"}
      BY <2>2, <2>3
    <2> QED BY <2>1, <2>3, <2>4, <2>5, <2>6, <2>7, <2>8, TasksKeep
  <1> QED BY <1>2, <1>3, <1>4 DEF Boot

\* A dispatch that throws ends its task, or the process whose sweep awaits it;
\* what came of a mail it has sent is missed.
LEMMA ThrowKeeps ==
  ASSUME IInv, NEW i \in Instance, NEW m \in Mail, Throw(i, m),
         UNCHANGED <<outbox, calm>>, delivery' \in [Mail -> Delivery],
         task[i][m] # "none",
         \A n \in Mail \ {m} : delivery'[n] = delivery[n],
         \/ delivery'[m] = delivery[m] /\ task[i][m] # "record"
         \/ delivery'[m].missed /\ delivery'[m].taken >= delivery[m].taken
  PROVE  IInv'
  <1>1. TypeOK /\ OneAtATime /\ "none" \in Task
    BY DEF IInv, Task
  <1>2. CASE phase[i] = "up" /\ Goto(i, m, "none") /\ UNCHANGED <<phase, todo>>
    <2>1. /\ task' \in [Instance -> [Mail -> Task]]
          /\ task'[i][m] = "none"
          /\ \A j \in Instance, n \in Mail :
               j # i \/ n # m => task'[j][n] = task[j][n]
      BY <1>1, <1>2, GotoTask
    <2>2. phase' \in [Instance -> Phase] /\ todo' \in [Instance -> SUBSET Mail]
      BY <1>1, <1>2 DEF TypeOK
    <2>3. OneAtATime'
      BY <1>1, <1>2, <2>1 DEF OneAtATime
    <2>4. \A n \in Mail : Excused(n)
      BY <2>1 DEF Excused
    <2>5. \A j \in Instance, n \in Mail : task'[j][n] \in {task[j][n], "none"}
      BY <2>1
    <2> QED BY <2>1, <2>2, <2>3, <2>4, <2>5, TasksKeep
  <1>3. CASE phase[i] = "sweep" /\ Die(i)
    <2>1. \A n \in Mail \ {m} : task[i][n] = "none"
      BY <1>1, <1>3 DEF OneAtATime
    <2>2. \A j \in Instance, n \in Mail : task'[j][n] \in {task[j][n], "none"}
      BY <1>1, <1>3, DieTask
    <2>3. OneAtATime'
      BY <1>1, <1>3, DieTask DEF OneAtATime
    <2>4. \A n \in Mail : Excused(n)
      BY <1>1, <1>3, <2>1, DieTask DEF Excused
    <2> QED BY <1>1, <1>3, <2>2, <2>3, <2>4, DieTask, TasksKeep
  <1> QED BY <1>2, <1>3 DEF Throw

\* A crash, a lost transaction and an orphaned call only end tasks.
LEMMA FailureIInv ==
  ASSUME IInv, NEW i \in Instance, UNCHANGED calm,
         \/ Crash(i)
         \/ \E m \in Mail : Lose(i, m) \/ LoseSending(i, m) \/ OrphanEnds(i, m)
  PROVE  IInv'
  <1>1. TypeOK /\ OneAtATime /\ "none" \in Task /\ "orphan" \in Task
    BY DEF IInv, Task
  <1>2. CASE Crash(i)
    <2>1. PICK reach \in SUBSET {m \in Mail : task[i][m] \in {"sending", "orphan"}} :
            delivery' = [m \in Mail |->
              [taken |-> IF m \notin reach THEN delivery[m].taken
                         ELSE IF delivery[m].taken = 0 THEN 1 ELSE 2,
               missed |-> \/ delivery[m].missed
                          \/ task[i][m] \in {"sending", "orphan", "record"}]]
      BY <1>2 DEF Crash
    <2>2. \A m \in Mail : delivery[m] \in Delivery /\ delivery[m].taken \in 0..2
                         /\ delivery[m].missed \in BOOLEAN
      BY <1>1 DEF TypeOK, Delivery
    <2>3. delivery' \in [Mail -> Delivery]
      BY <2>1, <2>2 DEF Delivery
    <2>4. Die(i) /\ UNCHANGED outbox
      BY <1>2 DEF Crash
    <2>5. \A j \in Instance, n \in Mail : task'[j][n] \in {task[j][n], "none"}
      BY <1>1, <2>4, DieTask
    <2>6. OneAtATime'
      BY <1>1, <2>4, DieTask DEF OneAtATime
    <2>7. ASSUME NEW m \in Mail PROVE Excused(m)
      <3>1. CASE task[i][m] \in {"sending", "orphan", "record"}
        BY <2>1, <2>2, <3>1 DEF Excused
      <3>2. CASE task[i][m] \notin {"sending", "orphan", "record"}
        <4>1. /\ delivery'[m].taken = delivery[m].taken
              /\ delivery'[m].missed = delivery[m].missed
          BY <2>1, <2>2, <3>2
        <4>2. delivery'[m] = delivery[m]
          BY <2>2, <2>3, <4>1 DEF Delivery
        <4> QED BY <1>1, <2>4, <3>2, <4>2, DieTask DEF Excused
      <3> QED BY <3>1, <3>2
    <2> QED BY <1>1, <2>3, <2>4, <2>5, <2>6, <2>7, DieTask, TasksKeep
  <1>3. ASSUME NEW m \in Mail, Lose(i, m) PROVE IInv'
    <2>1. CASE task[i][m] = "record" /\ Call(m, FALSE, FALSE)
      <3>1. /\ delivery' \in [Mail -> Delivery]
            /\ delivery'[m].missed /\ delivery'[m].taken = delivery[m].taken
            /\ \A n \in Mail \ {m} : delivery'[n] = delivery[n]
        BY <1>1, <2>1, CallRow
      <3>2. delivery'[m].taken >= delivery[m].taken
        BY <1>1, <3>1 DEF TypeOK, Delivery
      <3> QED BY <1>3, <2>1, <3>1, <3>2, ThrowKeeps DEF Lose
    <2>2. CASE task[i][m] # "record" /\ UNCHANGED delivery
      BY <1>1, <1>3, <2>2, ThrowKeeps DEF Lose, TypeOK
    <2> QED BY <1>3, <2>1, <2>2 DEF Lose
  <1>4. ASSUME NEW m \in Mail, LoseSending(i, m) PROVE IInv'
    <2>1. /\ task' \in [Instance -> [Mail -> Task]]
          /\ task'[i][m] = "orphan" /\ task[i][m] = "sending"
          /\ \A j \in Instance, n \in Mail :
               j # i \/ n # m => task'[j][n] = task[j][n]
          /\ UNCHANGED <<outbox, delivery, phase, todo>>
      BY <1>1, <1>4, GotoTask DEF LoseSending
    <2>2. OneAtATime' /\ \A n \in Mail : Excused(n)
      BY <1>1, <2>1 DEF OneAtATime, Excused
    <2>3. \A j \in Instance, n \in Mail : task'[j][n] \in {task[j][n], "orphan"}
      BY <2>1
    <2> QED BY <1>1, <2>1, <2>2, <2>3, TasksKeep DEF TypeOK
  <1>5. ASSUME NEW m \in Mail, OrphanEnds(i, m) PROVE IInv'
    <2>1. PICK takes \in BOOLEAN : Call(m, takes, FALSE)
      BY <1>5 DEF OrphanEnds
    <2>2. delivery[m].taken \in 0..2
      BY <1>1 DEF TypeOK, Delivery
    <2>3. /\ delivery' \in [Mail -> Delivery]
          /\ delivery'[m].missed
          /\ delivery'[m].taken = IF ~takes THEN delivery[m].taken
                                 ELSE IF delivery[m].taken = 0 THEN 1 ELSE 2
          /\ \A n \in Mail \ {m} : delivery'[n] = delivery[n]
      BY <1>1, <2>1, CallRow
    <2>4. delivery'[m].taken >= delivery[m].taken
      BY <2>2, <2>3
    <2> QED BY <1>5, <2>3, <2>4, ThrowKeeps DEF OrphanEnds
  <1> QED BY <1>2, <1>3, <1>4, <1>5

---------------------------------------------------------------------------
(* Steps that write rows. *)

\* A new row is held by nobody.
LEMMA EnqueueIInv ==
  ASSUME IInv, NEW i \in Instance, Enqueue(i), UNCHANGED calm
  PROVE  IInv'
  <1> DEFINE NewRow == [status |-> "PENDING", attempts |-> 0, token |-> TRUE]
  <1>1. PICK m \in Unused :
          /\ outbox' = [outbox EXCEPT ![m] = NewRow]
          /\ task' = [task EXCEPT ![i][m] = "begin"]
          /\ UNCHANGED <<delivery, phase, todo>>
    BY OldestIn DEF Enqueue
  <1>2. TypeOK /\ m \in Mail /\ m \notin Pending
    BY DEF IInv, Unused, Pending
  <1>3. /\ NewRow \in Row /\ NewRow.status = "PENDING" /\ NewRow.token
        /\ NewRow.attempts < MaxAttempts
    BY AttemptsArePositive DEF Row
  <1> HIDE DEF NewRow
  <1>4. /\ task' \in [Instance -> [Mail -> Task]]
        /\ task'[i][m] = "begin"
        /\ \A j \in Instance, n \in Mail :
             j # i \/ n # m => task'[j][n] = task[j][n]
    BY <1>1, <1>2, GotoTask DEF Goto, Task
  <1>5. /\ outbox' \in [Mail -> Row] /\ outbox'[m] = NewRow
        /\ \A n \in Mail \ {m} : outbox'[n] = outbox[n]
    BY <1>1, <1>2, <1>3 DEF TypeOK
  <1>6. TypeOK'
    BY <1>1, <1>2, <1>4, <1>5 DEF TypeOK
  <1>7. Pending' = Pending \cup {m}
    BY <1>2, <1>3, <1>5 DEF Pending
  <1>8. \A j \in Instance, n \in Mail : Holds(j, n)' => Holds(j, n)
    BY <1>4 DEF Holds
  <1>9. TokenWhilePending' /\ OneHolder' /\ SettledForAReason'
    BY <1>1, <1>3, <1>5, <1>7, <1>8
       DEF IInv, TokenWhilePending, OneHolder, SettledForAReason
  <1>10. RecordsWhatWasTaken' /\ AttemptLeft'
    BY <1>1, <1>2, <1>3, <1>4, <1>5, <1>7
       DEF IInv, RecordsWhatWasTaken, AttemptLeft
  <1>11. OneAtATime'
    <2>1. phase[i] = "up"
      BY DEF Enqueue
    <2> QED BY <1>1, <1>2, <1>4, <2>1 DEF IInv, OneAtATime
  <1>12. OutcomesKnown'
    <2> SUFFICES ASSUME NEW n \in Mail PROVE Known(n)'
      BY DEF OutcomesKnown
    <2>1. Known(n) /\ \A j \in Instance : ~Holds(j, m)
      BY <1>2 DEF IInv, OutcomesKnown, OneHolder
    <2>2. CASE n = m
      <3>1. outbox[m].status = "NONE"
        BY <1>1 DEF Unused
      <3> QED BY <1>1, <2>1, <2>2, <3>1 DEF Known, Holds
    <2>3. CASE n # m
      BY <1>1, <1>4, <1>5, <2>1, <2>3 DEF Known
    <2> QED BY <2>2, <2>3
  <1> QED BY <1>6, <1>9, <1>10, <1>11, <1>12 DEF IInv

\* A step of one dispatch: only the task <<i, m>> and the row m may change.
StepOf(i, m, l) ==
  /\ Goto(i, m, l) /\ l \in Task
  /\ \A n \in Mail \ {m} : outbox'[n] = outbox[n] /\ delivery'[n] = delivery[n]
  /\ outbox' \in [Mail -> Row] /\ delivery' \in [Mail -> Delivery]
  /\ UNCHANGED <<phase, todo, calm>>

\* Such a step keeps the invariant when it does so for its own row: whoever
\* holds the row afterwards is this process and the row is PENDING.
LEMMA DispatchKeeps ==
  ASSUME IInv, NEW i \in Instance, NEW m \in Mail, NEW l \in Task,
         StepOf(i, m, l), task[i][m] # "none",
         \A j \in Instance \ {i} : ~Holds(j, m),
         l # "none" => l \in {"sending", "record", "fail"} /\ m \in Pending',
         outbox'[m].token <=> outbox'[m].status = "PENDING",
         outbox'[m].status = "SENT" => delivery'[m].taken > 0,
         outbox'[m].status = "FAILED" => outbox'[m].attempts = MaxAttempts,
         l = "record" => delivery'[m].taken > 0,
         \/ delivery'[m].missed \/ delivery'[m].taken = 0
         \/ delivery'[m].taken = 1 /\ (l = "record" \/ outbox'[m].status = "SENT"),
         outbox'[m].status = "PENDING" => outbox'[m].attempts < MaxAttempts
  PROVE  IInv'
  <1>1. TypeOK
    BY DEF IInv
  <1>2. /\ task' \in [Instance -> [Mail -> Task]]
        /\ task'[i][m] = l
        /\ \A j \in Instance, n \in Mail :
             j # i \/ n # m => task'[j][n] = task[j][n]
    BY <1>1, GotoTask DEF StepOf
  <1>3. TypeOK'
    BY <1>1, <1>2 DEF TypeOK, StepOf
  <1>4. \A n \in Mail \ {m} : n \in Pending' <=> n \in Pending
    BY DEF Pending, StepOf
  <1>5. \A j \in Instance, n \in Mail \ {m} : Holds(j, n)' <=> Holds(j, n)
    BY <1>2 DEF Holds
  <1>6. \A j \in Instance \ {i} : ~Holds(j, m)'
    BY <1>2 DEF Holds
  <1>7. TokenWhilePending'
    BY <1>4 DEF IInv, TokenWhilePending, StepOf, Pending
  <1>8. OneHolder'
    <2> SUFFICES ASSUME NEW j \in Instance, NEW k \in Instance, NEW n \in Mail,
                        Holds(j, n)'
                 PROVE  n \in Pending' /\ (Holds(k, n)' => j = k)
      BY DEF OneHolder
    <2>1. CASE n # m
      BY <2>1, <1>4, <1>5 DEF IInv, OneHolder
    <2>2. CASE n = m
      BY <2>2, <1>2, <1>6 DEF Holds
    <2> QED BY <2>1, <2>2
  <1>9. SettledForAReason'
    BY DEF IInv, SettledForAReason, StepOf
  <1>10. RecordsWhatWasTaken'
    <2> SUFFICES ASSUME NEW j \in Instance, NEW n \in Mail, task'[j][n] = "record"
                 PROVE  delivery'[n].taken > 0
      BY DEF RecordsWhatWasTaken
    <2>1. CASE n # m
      BY <2>1, <1>2 DEF IInv, RecordsWhatWasTaken, StepOf
    <2>2. CASE n = m
      BY <2>2, <1>2, <1>6 DEF Holds
    <2> QED BY <2>1, <2>2
  <1>11. AttemptLeft'
    BY <1>4 DEF IInv, AttemptLeft, StepOf, Pending
  <1>12. OneAtATime'
    BY <1>2 DEF IInv, OneAtATime, StepOf
  <1>13. OutcomesKnown'
    <2> SUFFICES ASSUME NEW n \in Mail PROVE Known(n)'
      BY DEF OutcomesKnown
    <2>1. CASE n # m
      BY <2>1, <1>2 DEF IInv, OutcomesKnown, Known, StepOf
    <2>2. CASE n = m
      BY <2>2, <1>2 DEF Known
    <2> QED BY <2>1, <2>2
  <1> QED BY <1>3, <1>7, <1>8, <1>9, <1>10, <1>11, <1>12, <1>13 DEF IInv

\* A mail that is PENDING and whose success nobody is recording was not taken,
\* unless an outcome was missed.
LEMMA PendingKnown ==
  ASSUME IInv, NEW m \in Pending, \A i \in Instance : task[i][m] # "record"
  PROVE  delivery[m].missed \/ delivery[m].taken = 0
  BY DEF IInv, OutcomesKnown, Known, Pending

\* What a process that holds a mail knows of it.
LEMMA HolderKnows ==
  ASSUME IInv, NEW i \in Instance, NEW m \in Mail, Holds(i, m)
  PROVE  /\ \A j \in Instance \ {i} : ~Holds(j, m)
         /\ outbox[m].status = "PENDING" /\ outbox[m].token
         /\ outbox[m].attempts \in Nat /\ outbox[m].attempts < MaxAttempts
         /\ outbox[m] \in Row
         /\ \/ task[i][m] = "record" \/ delivery[m].missed
            \/ delivery[m].taken = 0
  <1>1. m \in Pending /\ \A j \in Instance : Holds(j, m) => i = j
    BY DEF IInv, OneHolder
  <1>2. outbox[m] \in Row
    BY DEF IInv, TypeOK
  <1>3. \/ task[i][m] = "record" \/ delivery[m].missed
        \/ delivery[m].taken = 0
    BY <1>1, PendingKnown DEF Holds
  <1> QED BY <1>1, <1>2, <1>3, AttemptsArePositive
          DEF IInv, Pending, TokenWhilePending, AttemptLeft, Row

\* A step of a dispatcher keeps IInv: what it writes is the mail it has
\* claimed.
LEMMA DispatchIInv ==
  ASSUME IInv, NEW i \in Instance, NEW m \in Mail, Dispatch(i, m),
         ~OrphanEnds(i, m),
         UNCHANGED calm
  PROVE  IInv'
  <1>1. TypeOK
    BY DEF IInv
  <1>2. {"none", "sending", "record", "fail"} \subseteq Task
    BY DEF Task
  \* The lock: nobody else holds the row.  A row that is settled is left alone.
  <1>3. CASE Begin(i, m)
    <2>1. \A j \in Instance \ {i} : ~Holds(j, m)
      BY <1>3 DEF Begin, Free
    <2>2. outbox[m].status = "PENDING" <=> m \in Pending
      BY DEF Pending
    <2>3. Pending' = Pending
      BY <1>3 DEF Begin, Pending
    <2>4. \A j \in Instance : task[j][m] # "record"
      BY <1>3, <2>1 DEF Begin, Holds
    <2>5. Known(m)
      BY DEF IInv, OutcomesKnown
    <2>6. CASE m \in Pending
      <3>1. StepOf(i, m, "sending")
        BY <1>1, <1>2, <1>3, <2>6 DEF Begin, StepOf, TypeOK
      <3>2. delivery[m].missed \/ delivery[m].taken = 0
        BY <2>4, <2>6, PendingKnown
      <3> QED BY <1>2, <1>3, <2>1, <2>2, <2>3, <2>6, <3>1, <3>2, DispatchKeeps
              DEF Begin, IInv, TokenWhilePending, SettledForAReason, AttemptLeft
    <2>7. CASE m \notin Pending
      <3>1. StepOf(i, m, "none")
        BY <1>1, <1>2, <1>3, <2>7 DEF Begin, StepOf, TypeOK
      <3>2. \/ delivery[m].missed \/ delivery[m].taken = 0
            \/ delivery[m].taken = 1 /\ outbox[m].status = "SENT"
        BY <2>4, <2>5 DEF Known
      <3> QED BY <1>2, <1>3, <2>1, <2>2, <2>3, <2>7, <3>1, <3>2, DispatchKeeps
              DEF Begin, IInv, TokenWhilePending, SettledForAReason, AttemptLeft
    <2> QED BY <2>6, <2>7
  \* The call to the provider.
  <1>4. CASE Send(i, m)
    <2>1. Holds(i, m) /\ Pending' = Pending /\ m \in Pending
      BY <1>4 DEF Send, Holds, Pending, IInv, OneHolder
    <2>2. /\ StepOf(i, m, "record") /\ delivery'[m].missed = delivery[m].missed
          /\ delivery'[m].taken = IF delivery[m].taken = 0 THEN 1 ELSE 2
      <3>1. /\ delivery' \in [Mail -> Delivery]
            /\ delivery'[m].missed = delivery[m].missed
            /\ delivery'[m].taken = IF delivery[m].taken = 0 THEN 1 ELSE 2
            /\ \A n \in Mail \ {m} : delivery'[n] = delivery[n]
        <4>1. delivery'[m].missed = (delivery[m].missed \/ FALSE)
          BY <1>1, <1>4, CallRow DEF Send
        <4>2. delivery[m].missed \in BOOLEAN
          BY <1>1 DEF TypeOK, Delivery
        <4> QED BY <1>1, <1>4, <4>1, <4>2, CallRow DEF Send
      <3> QED BY <1>1, <1>2, <1>4, <3>1 DEF Send, StepOf, TypeOK
    <2>3. /\ delivery'[m].taken > 0
          /\ delivery'[m].missed \/ delivery'[m].taken = 1
      BY <1>4, <2>1, <2>2, HolderKnows DEF Send
    <2> QED BY <1>2, <1>4, <2>1, <2>2, <2>3, HolderKnows, DispatchKeeps DEF Send
  <1>5. CASE SendFails(i, m)
    <2>1. Holds(i, m) /\ Pending' = Pending /\ m \in Pending
      BY <1>5 DEF SendFails, Holds, Pending, IInv, OneHolder
    <2>2. PICK takes \in BOOLEAN : Call(m, takes, ~takes)
      BY <1>5 DEF SendFails
    <2>3. StepOf(i, m, "fail")
      BY <1>1, <1>2, <1>5, <2>2, CallRow DEF SendFails, StepOf, TypeOK
    <2>4. /\ delivery'[m].missed = (delivery[m].missed \/ takes)
          /\ ~takes => delivery'[m].taken = delivery[m].taken
      BY <1>1, <2>2, CallRow
    <2>5. delivery'[m].missed \/ delivery'[m].taken = 0
      BY <1>5, <2>1, <2>4, HolderKnows DEF SendFails
    <2> QED BY <1>2, <1>5, <2>1, <2>3, <2>5, HolderKnows, DispatchKeeps
            DEF SendFails
  \* The outcome is written and the row released.
  <1>6. CASE RecordSent(i, m)
    <2>1. Holds(i, m) /\ task[i][m] = "record" /\ delivery[m].taken > 0
      BY <1>6 DEF RecordSent, Holds, IInv, RecordsWhatWasTaken
    <2>2. outbox[m] \in Row /\ outbox[m].attempts \in Nat
          /\ outbox[m].attempts < MaxAttempts
      BY <2>1, HolderKnows
    <2> DEFINE new == [status |-> "SENT", attempts |-> outbox[m].attempts + 1,
                       token |-> FALSE]
    <2>3. outbox' = [outbox EXCEPT ![m] = new]
      BY <1>1, <1>6, <2>2 DEF RecordSent, TypeOK, Row
    <2>4. new \in Row /\ new.status = "SENT" /\ ~new.token
      BY <2>2, AttemptsArePositive DEF Row
    <2> HIDE DEF new
    <2>5. StepOf(i, m, "none") /\ outbox'[m] = new /\ delivery' = delivery
      BY <1>1, <1>2, <1>6, <2>3, <2>4 DEF RecordSent, StepOf, TypeOK
    <2>6. delivery[m].missed \/ delivery[m].taken = 1
      BY <2>1 DEF IInv, OutcomesKnown, Known
    <2> QED BY <1>2, <2>1, <2>4, <2>5, <2>6, HolderKnows, DispatchKeeps
  <1>7. CASE RecordFailure(i, m)
    <2> DEFINE attempts == outbox[m].attempts + 1
               terminal == attempts >= MaxAttempts
               new == [status |-> IF terminal THEN "FAILED" ELSE "PENDING",
                       attempts |-> attempts, token |-> ~terminal]
    <2>1. Holds(i, m) /\ task[i][m] = "fail"
      BY <1>7 DEF RecordFailure, Holds
    <2>2. outbox[m].token = TRUE /\ outbox[m].attempts \in Nat
          /\ outbox[m].attempts < MaxAttempts
      BY <2>1, HolderKnows DEF Row
    <2>3. outbox' = [outbox EXCEPT ![m] = new]
      BY <1>1, <1>7, <2>2 DEF RecordFailure, TypeOK
    <2>4. new \in Row /\ (new.token <=> new.status = "PENDING")
          /\ (new.status = "FAILED" => new.attempts = MaxAttempts)
          /\ (new.status = "PENDING" => new.attempts < MaxAttempts)
          /\ new.status # "SENT"
      <3>1. attempts \in 0..MaxAttempts /\ (terminal => attempts = MaxAttempts)
            /\ (~terminal => attempts < MaxAttempts) /\ terminal \in BOOLEAN
        BY <2>2, AttemptsArePositive
      <3> HIDE DEF attempts, terminal
      <3>2. CASE terminal
        BY <3>1, <3>2 DEF Row
      <3>3. CASE ~terminal
        BY <3>1, <3>3 DEF Row
      <3> QED BY <3>2, <3>3
    <2> HIDE DEF new, attempts, terminal
    <2>5. StepOf(i, m, "none") /\ outbox'[m] = new /\ delivery' = delivery
      BY <1>1, <1>2, <1>7, <2>3, <2>4 DEF RecordFailure, StepOf, TypeOK
    <2> QED BY <1>2, <2>1, <2>4, <2>5, HolderKnows, DispatchKeeps
  <1> QED BY <1>3, <1>4, <1>5, <1>6, <1>7 DEF Dispatch

---------------------------------------------------------------------------
(* The theorems. *)

\* Every step keeps IInv.
LEMMA NextIInv == ASSUME IInv, [Next]_vars PROVE IInv'
  <1>1. CASE UNCHANGED vars \/ Calm
    <2>1. UNCHANGED work /\ calm' \in BOOLEAN
      BY <1>1 DEF vars, Calm, IInv, TypeOK
    <2>2. TypeOK' /\ OutcomesKnown' /\ OneAtATime'
      BY <2>1 DEF work, IInv, TypeOK, OutcomesKnown, Known, OneAtATime
    <2> QED BY <2>1, <2>2 DEF work, IInv, TokenWhilePending, OneHolder,
               SettledForAReason, RecordsWhatWasTaken, AttemptLeft, Pending, Holds
  <1>2. ASSUME NEW i \in Instance, UNCHANGED calm,
               Enqueue(i) \/ Boot(i) \/ Stop(i) \/ Crash(i)
        PROVE  IInv'
    BY <1>2, EnqueueIInv, BootIInv, FailureIInv
  <1>3. ASSUME NEW i \in Instance, NEW m \in Mail, UNCHANGED calm,
               Dispatch(i, m) \/ Lose(i, m) \/ LoseSending(i, m)
        PROVE  IInv'
    BY <1>3, FailureIInv, DispatchIInv
  <1> QED BY <1>1, <1>2, <1>3 DEF Next

\* IInv is inductive.
THEOREM InductiveInvariant == Spec => []IInv
  BY InitIInv, NextIInv, PTL DEF Spec

\* email-dispatcher.service.ts: the tables keep their shape; in particular no
\* mail is attempted more than MaxAttempts times.
THEOREM TypeCorrect == Spec => []TypeOK
  BY InductiveInvariant, PTL DEF IInv

\* The encrypted token of a mail is in the database exactly while the mail is
\* PENDING (EmailDispatcherService.dispatchOne).
THEOREM SecretWhilePending == Spec => []TokenWhilePending
  BY InductiveInvariant, PTL DEF IInv

\* EmailDispatcherService.dispatchOne: the row lock and the status that is read
\* under it let the provider take a mail twice only after the outcome of a call
\* was missed, across processes and restarts.
THEOREM SentTwiceRightly == Spec => []SentTwiceForAReason
  <1>1. IInv => SentTwiceForAReason
    BY DEF IInv, OutcomesKnown, Known, SentTwiceForAReason
  <1> QED BY <1>1, InductiveInvariant, PTL

\* A mail that is marked SENT was taken by the provider, and one that is given
\* up used all its attempts.
THEOREM SettledRightly == Spec => []SettledForAReason
  BY InductiveInvariant, PTL DEF IInv
=============================================================================
