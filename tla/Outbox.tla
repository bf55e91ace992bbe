------------------------------- MODULE Outbox -------------------------------
(***************************************************************************)
(* The transactional e-mail outbox (apps/api/src/email): a mutation writes *)
(* its e-mail in its own transaction, the request that committed it tries  *)
(* to send it at once, and a process that starts sweeps what is PENDING    *)
(* before it listens.                                                      *)
(*                                                                         *)
(* dispatchOne runs in ONE transaction, the call to the mail provider      *)
(* included: the row is locked, sent, and marked.  The transaction can be  *)
(* lost at any point (its timeout, its connection).  That frees the row    *)
(* and undoes the mark; it does not stop the call, which goes on without   *)
(* the lock while others may send the same mail.                           *)
(***************************************************************************)
EXTENDS Naturals, FiniteSets

CONSTANTS
  Instance,     \* API processes (one replaces the other in a deployment)
  Mail,         \* ids of outbox rows, in the order of created_at
  MaxAttempts,  \* MAX_ATTEMPTS
  SweepLimit    \* the limit of dispatchAllPending

ASSUME MailIsOrdered == Mail \subseteq Nat
ASSUME AttemptsArePositive == MaxAttempts \in Nat \ {0}
ASSUME LimitIsPositive == SweepLimit \in Nat \ {0}

VARIABLES
  outbox,    \* email_outbox
  delivery,  \* of each mail: how often the provider took it (2: or more),
             \* and whether the outcome of a call was ever missed
  phase,     \* what each process is doing
  todo,      \* the rows its startup sweep still has to dispatch
  task,      \* where dispatchOne of a process is with a row
  calm       \* from now on no transaction and no process is lost, but for the
             \* processes whose sweep awaits an orphaned call

work == <<outbox, delivery, phase, todo, task>>
vars == <<work, calm>>

Row == [status : {"NONE", "PENDING", "SENT", "FAILED"},
        attempts : 0..MaxAttempts, token : BOOLEAN]
Phase == {"down", "select", "sweep", "up"}
\* "orphan": the call goes on, its transaction is gone.
Task == {"none", "begin", "sending", "record", "fail", "orphan"}
Delivery == [taken : 0..2, missed : BOOLEAN]

Pending == {m \in Mail : outbox[m].status = "PENDING"}
Unused == {m \in Mail : outbox[m].status = "NONE"}
Oldest(S) == {m \in S : \A n \in S : m <= n}
Holds(i, m) == task[i][m] \in {"sending", "record", "fail"}
Free(i, m) == \A j \in Instance \ {i} : ~Holds(j, m)

Init ==
  /\ outbox = [m \in Mail |-> [status |-> "NONE", attempts |-> 0,
                               token |-> FALSE]]
  /\ delivery = [m \in Mail |-> [taken |-> 0, missed |-> FALSE]]
  /\ phase = [i \in Instance |-> "down"]
  /\ todo = [i \in Instance |-> {}]
  /\ task = [i \in Instance |-> [m \in Mail |-> "none"]]
  /\ calm = FALSE

---------------------------------------------------------------------------
(* The requests that send e-mail. *)

\* The business transaction commits with its outbox row, and the handler
\* calls dispatchOne.
Enqueue(i) ==
  \E m \in Oldest(Unused) :
    /\ phase[i] = "up"
    /\ outbox' = [outbox EXCEPT ![m] =
                    [status |-> "PENDING", attempts |-> 0, token |-> TRUE]]
    /\ task' = [task EXCEPT ![i][m] = "begin"]
    /\ UNCHANGED <<delivery, phase, todo>>

---------------------------------------------------------------------------
(* dispatchOne *)

Goto(i, m, label) == task' = [task EXCEPT ![i][m] = label]

Die(i) ==
  /\ phase' = [phase EXCEPT ![i] = "down"]
  /\ todo' = [todo EXCEPT ![i] = {}]
  /\ task' = [task EXCEPT ![i] = [m \in Mail |-> "none"]]

\* dispatchOne throws: a request goes on without, a sweep ends the process.
Throw(i, m) ==
  \/ phase[i] = "up" /\ Goto(i, m, "none") /\ UNCHANGED <<phase, todo>>
  \/ phase[i] = "sweep" /\ Die(i)

\* Mutant: the row is read without FOR UPDATE.
BeginWithoutLock(i, m) ==
  /\ task[i][m] = "begin"
  /\ Goto(i, m, IF m \in Pending THEN "sending" ELSE "none")
  /\ UNCHANGED <<outbox, delivery, phase, todo>>

\* SELECT ... FOR UPDATE; a row that is not PENDING was handled before.
Begin(i, m) ==
  /\ task[i][m] = "begin"
  /\ Free(i, m)
  /\ Goto(i, m, IF m \in Pending THEN "sending" ELSE "none")
  /\ UNCHANGED <<outbox, delivery, phase, todo>>

\* A call to the provider, which takes the mail or not, and whose outcome the
\* process learns or misses.
Call(m, takes, learns) ==
  delivery' = [delivery EXCEPT ![m] =
    [taken |-> IF ~takes THEN @.taken ELSE IF @.taken = 0 THEN 1 ELSE 2,
     missed |-> @.missed \/ ~learns]]

Send(i, m) ==
  /\ task[i][m] = "sending" /\ outbox[m].token
  /\ Call(m, TRUE, TRUE)
  /\ Goto(i, m, "record")
  /\ UNCHANGED <<outbox, phase, todo>>

\* Mutant: the error of a send is not caught.
SendFailsUncaught(i, m) ==
  /\ task[i][m] = "sending"
  /\ Throw(i, m)
  /\ UNCHANGED <<outbox, delivery>>

\* The adapter throws; the provider may have taken the mail all the same.
SendFails(i, m) ==
  /\ task[i][m] = "sending"
  /\ \E takes \in BOOLEAN : Call(m, takes, ~takes)
  /\ Goto(i, m, "fail")
  /\ UNCHANGED <<outbox, phase, todo>>

\* Mutant: the attempt is recorded without clearing the token.
RecordSentKeepingToken(i, m) ==
  /\ task[i][m] = "record"
  /\ outbox' = [outbox EXCEPT ![m].status = "SENT", ![m].attempts = @ + 1]
  /\ Goto(i, m, "none")
  /\ UNCHANGED <<delivery, phase, todo>>

RecordSent(i, m) ==
  /\ task[i][m] = "record"
  /\ outbox' = [outbox EXCEPT ![m].status = "SENT", ![m].attempts = @ + 1,
                              ![m].token = FALSE]
  /\ Goto(i, m, "none")
  /\ UNCHANGED <<delivery, phase, todo>>

\* Mutant: attempts is not written back.
RecordFailureUncounted(i, m) ==
  /\ task[i][m] = "fail"
  /\ \/ outbox[m].attempts + 1 < MaxAttempts /\ UNCHANGED outbox
     \/ /\ outbox[m].attempts + 1 >= MaxAttempts
        /\ outbox' = [outbox EXCEPT ![m].status = "FAILED", ![m].token = FALSE]
  /\ Goto(i, m, "none")
  /\ UNCHANGED <<delivery, phase, todo>>

\* Mutant: the limit is checked before this attempt is counted.
RecordFailureTooLate(i, m) ==
  /\ task[i][m] = "fail"
  /\ outbox' =
       IF outbox[m].attempts >= MaxAttempts
       THEN [outbox EXCEPT ![m] = [status |-> "FAILED", attempts |-> @.attempts,
                                   token |-> FALSE]]
       ELSE [outbox EXCEPT ![m].attempts = @ + 1]
  /\ Goto(i, m, "none")
  /\ UNCHANGED <<delivery, phase, todo>>

\* Mutant: a mail is given up one attempt early.
RecordFailureTooEarly(i, m) ==
  LET attempts == outbox[m].attempts + 1
      terminal == attempts + 1 >= MaxAttempts IN
  /\ task[i][m] = "fail"
  /\ outbox' = [outbox EXCEPT ![m] =
       [status |-> IF terminal THEN "FAILED" ELSE "PENDING",
        attempts |-> attempts, token |-> @.token /\ ~terminal]]
  /\ Goto(i, m, "none")
  /\ UNCHANGED <<delivery, phase, todo>>

RecordFailure(i, m) ==
  LET attempts == outbox[m].attempts + 1
      terminal == attempts >= MaxAttempts IN
  /\ task[i][m] = "fail"
  /\ outbox' = [outbox EXCEPT ![m] =
       [status |-> IF terminal THEN "FAILED" ELSE "PENDING",
        attempts |-> attempts, token |-> @.token /\ ~terminal]]
  /\ Goto(i, m, "none")
  /\ UNCHANGED <<delivery, phase, todo>>

---------------------------------------------------------------------------
(* main.ts: the startup sweep, then listen. *)

Start(i) ==
  /\ phase[i] = "down"
  /\ phase' = [phase EXCEPT ![i] = "select"]
  /\ UNCHANGED <<outbox, delivery, todo, task>>

\* The oldest SweepLimit of the rows that are PENDING now.
Select(i) ==
  /\ phase[i] = "select"
  /\ phase' = [phase EXCEPT ![i] = "sweep"]
  /\ todo' = [todo EXCEPT ![i] =
       {m \in Pending : Cardinality({n \in Pending : n < m}) < SweepLimit}]
  /\ UNCHANGED <<outbox, delivery, task>>

Idle(i) == \A m \in Mail : task[i][m] = "none"

\* One after the other, each awaited.
SweepNext(i) ==
  \E m \in Oldest(todo[i]) :
    /\ phase[i] = "sweep" /\ Idle(i)
    /\ todo' = [todo EXCEPT ![i] = @ \ {m}]
    /\ Goto(i, m, "begin")
    /\ UNCHANGED <<outbox, delivery, phase>>

Listen(i) ==
  /\ phase[i] = "sweep" /\ Idle(i) /\ todo[i] = {}
  /\ phase' = [phase EXCEPT ![i] = "up"]
  /\ UNCHANGED <<outbox, delivery, todo, task>>

---------------------------------------------------------------------------
(* Failures *)

\* A deployment stops a process that has nothing to do.
Stop(i) ==
  /\ phase[i] = "up" /\ Idle(i)
  /\ phase' = [phase EXCEPT ![i] = "down"]
  /\ UNCHANGED <<outbox, delivery, todo, task>>

\* The calls under way may still reach the provider; what came of them, and of
\* one whose success was still to be recorded, is missed.
Crash(i) ==
  /\ ~calm /\ phase[i] # "down"
  /\ Die(i)
  /\ \E reach \in SUBSET {m \in Mail : task[i][m] \in {"sending", "orphan"}} :
       delivery' = [m \in Mail |->
         [taken |-> IF m \notin reach THEN delivery[m].taken
                    ELSE IF delivery[m].taken = 0 THEN 1 ELSE 2,
          missed |-> \/ delivery[m].missed
                     \/ task[i][m] \in {"sending", "orphan", "record"}]]
  /\ UNCHANGED outbox

\* The transaction of dispatchOne is lost at one of its statements.
Lose(i, m) ==
  /\ ~calm /\ task[i][m] \in {"begin", "record", "fail"}
  /\ Throw(i, m)
  /\ \/ task[i][m] = "record" /\ Call(m, FALSE, FALSE)
     \/ task[i][m] # "record" /\ UNCHANGED delivery
  /\ UNCHANGED outbox

\* It is lost during the call, which is still awaited.
LoseSending(i, m) ==
  /\ ~calm /\ task[i][m] = "sending"
  /\ Goto(i, m, "orphan")
  /\ UNCHANGED <<outbox, delivery, phase, todo>>

\* The call returns; both UPDATEs fail in a transaction that is closed.
OrphanEnds(i, m) ==
  /\ task[i][m] = "orphan"
  /\ Throw(i, m)
  /\ \E takes \in BOOLEAN : Call(m, takes, FALSE)
  /\ UNCHANGED outbox

\* For the liveness of what survives: failures need not end, but may.
Calm ==
  /\ ~calm /\ calm' = TRUE
  /\ UNCHANGED work

---------------------------------------------------------------------------
Dispatch(i, m) ==
  \/ Begin(i, m) \/ Send(i, m) \/ SendFails(i, m)
  \/ RecordSent(i, m) \/ RecordFailure(i, m) \/ OrphanEnds(i, m)

Boot(i) == Start(i) \/ Select(i) \/ SweepNext(i) \/ Listen(i)

Next ==
  \/ /\ \/ \E i \in Instance : Enqueue(i) \/ Boot(i) \/ Stop(i) \/ Crash(i)
        \/ \E i \in Instance, m \in Mail :
             Dispatch(i, m) \/ Lose(i, m) \/ LoseSending(i, m)
     /\ UNCHANGED calm
  \/ Calm

Spec == Init /\ [][Next]_vars

\* A dispatch and a boot that can go on do; whether a send succeeds, whether
\* anybody sends an e-mail and whether a process ever stops is open.
FairSpec ==
  /\ Spec
  /\ \A i \in Instance : WF_work(Boot(i))
  /\ \A i \in Instance, m \in Mail : SF_work(Dispatch(i, m))

---------------------------------------------------------------------------
(* Properties *)

TypeOK ==
  /\ outbox \in [Mail -> Row]
  /\ delivery \in [Mail -> Delivery]
  /\ phase \in [Instance -> Phase]
  /\ todo \in [Instance -> SUBSET Mail]
  /\ task \in [Instance -> [Mail -> Task]]
  /\ calm \in BOOLEAN

\* "cleared immediately on success or terminal failure" (SUBMISSION.md 162,
\* SEC-17): the secret of a mail is in the database exactly while the mail
\* may still have to be sent.
TokenWhilePending == \A m \in Mail : outbox[m].token <=> m \in Pending

\* "the outbox row's own PENDING/SENT/FAILED state is what actually prevents a
\* double-send on retry" (gmail-email.adapter.ts 57-59), as far as it does: the
\* provider takes a mail twice only after the outcome of a call was missed,
\* because its transaction or its process was lost meanwhile or its answer was
\* an error; whichever processes sweep and serve at once, and however often
\* they restart, a mail whose calls all came to an end is not sent again.
SentTwiceForAReason ==
  \A m \in Mail : delivery[m].taken = 2 => delivery[m].missed

\* A mail is SENT only if the provider has it, and given up only after
\* MaxAttempts attempts that were committed one by one, across restarts.
SettledForAReason ==
  \A m \in Mail :
    /\ outbox[m].status = "SENT" => delivery[m].taken > 0
    /\ outbox[m].status = "FAILED" => outbox[m].attempts = MaxAttempts

\* However badly the provider answers, a process that starts gets to listen,
\* once no transaction and no process is lost any more: a failed send never
\* leaves the sweep (main.ts 27-32).
StartsUp ==
  \A i \in Instance : calm /\ phase[i] = "down" ~> phase[i] = "up"

\* "nothing durable is ever silently lost if the process was killed between
\* commit and send" (email-dispatcher.service.ts 25-27): with sweeps that
\* complete again and again, every mail is settled in the end, also those
\* that the sweep's limit leaves for later.
SweepsSettle ==
  (\A i \in Instance : []<>(phase[i] = "down") /\ []<>(phase[i] = "up"))
    => \A m \in Mail : m \in Pending ~> m \notin Pending
=============================================================================
