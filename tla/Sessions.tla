------------------------------ MODULE Sessions ------------------------------
(***************************************************************************)
(* The sessions, the password and the reset tokens of ONE identity, as     *)
(* AuthService, SessionService and PasswordResetService keep them          *)
(* (apps/api/src/identity).  Identities share none of these rows, so one   *)
(* is enough.                                                              *)
(*                                                                         *)
(* login and logout run statement by statement outside any transaction;    *)
(* request and complete are one transaction each, at READ COMMITTED: a     *)
(* statement sees what is committed when it starts, waits for rows another *)
(* transaction has locked, and the last writes are one step with COMMIT.   *)
(***************************************************************************)
EXTENDS Naturals, FiniteSets

CONSTANTS
  Session,  \* ids of sessions
  Token,    \* password-reset tokens, each of them generated once
  Request,  \* requests the API serves concurrently
  Nothing

\* Of the constants.
NothingIsNothing == Nothing \notin Session \cup Token

VARIABLES
  password,    \* password_credentials: which of its successive passwords
  session,     \* sessions, each with the password its login verified
  resetToken,  \* password_reset_tokens
  locks,       \* the token rows a transaction has locked
  pc, job

rows == <<password, session, resetToken>>
vars == <<password, session, resetToken, locks, pc, job>>

SessionRow == [status : {"NONE", "LIVE", "EXPIRED", "REVOKED"}, knew : Nat]
TokenRow ==
  [status : {"NONE", "PENDING", "USED", "REVOKED"}, expired : BOOLEAN]
Label == {"idle", "verify", "open", "close", "revoke", "insert",
          "lock", "credential", "sessions", "commit"}
\* "seen" is what the UPDATE of the sessions found; "before" only serves a
\* property: the sessions that were live when the reset was submitted.
Job ==
  [op : {"none", "login", "logout", "request", "complete"}, knows : Nat,
   session : Session \cup {Nothing}, token : Token \cup {Nothing},
   seen : SUBSET Session, before : SUBSET Session]

NoJob == [op |-> "none", knows |-> 0, session |-> Nothing, token |-> Nothing,
          seen |-> {}, before |-> {}]

Live == {s \in Session : session[s].status = "LIVE"}
Open == {t \in Token : resetToken[t].status = "PENDING"}
Sent == {t \in Token : resetToken[t].status # "NONE"}

Free(r, row) == \A q \in Request \ {r} : row \notin locks[q]
At(r, op, label) == job[r].op = op /\ pc[r] = label
Fresh(t) == t \notin Sent /\ \A q \in Request : job[q].token # t

Init ==
  /\ password = 0
  /\ session = [s \in Session |-> [status |-> "NONE", knew |-> 0]]
  /\ resetToken = [t \in Token |-> [status |-> "NONE", expired |-> FALSE]]
  /\ locks = [r \in Request |-> {}]
  /\ pc = [r \in Request |-> "idle"]
  /\ job = [r \in Request |-> NoJob]

---------------------------------------------------------------------------
Admit(r, j, label) ==
  /\ pc[r] = "idle"
  /\ pc' = [pc EXCEPT ![r] = label]
  /\ job' = [job EXCEPT ![r] = j]
  /\ UNCHANGED <<rows, locks>>

Goto(r, label) == pc' = [pc EXCEPT ![r] = label]

Answer(r) ==
  /\ locks' = [locks EXCEPT ![r] = {}]
  /\ pc' = [pc EXCEPT ![r] = "idle"]
  /\ job' = [job EXCEPT ![r] = NoJob]
Refuse(r) == Answer(r) /\ UNCHANGED rows

---------------------------------------------------------------------------
(* login: the credential is read and verified, then a session is created.  *)

\* Somebody gives a password that is, or once was, the identity's.
RequestLogin(r) ==
  \E p \in 0..password :
    Admit(r, [NoJob EXCEPT !.op = "login", !.knows = p], "verify")

LoginVerify(r) ==
  /\ At(r, "login", "verify")
  /\ \/ job[r].knows # password /\ Refuse(r)
     \/ job[r].knows = password /\ Goto(r, "open") /\ UNCHANGED <<rows, locks, job>>

\* SessionService.create: always a new session.
LoginOpen(r) ==
  /\ At(r, "login", "open")
  /\ \E s \in Session :
       /\ session[s].status = "NONE"
       /\ session' = [session EXCEPT ![s] =
                        [status |-> "LIVE", knew |-> job[r].knows]]
  /\ Answer(r)
  /\ UNCHANGED <<password, resetToken>>

---------------------------------------------------------------------------
(* logout: the guard has validated the session, logout revokes it.         *)

RequestLogout(r) ==
  \E s \in Live :
    Admit(r, [NoJob EXCEPT !.op = "logout", !.session = s], "close")

\* UPDATE ... WHERE revoked_at IS NULL
Revoked(S) ==
  [s \in Session |->
     IF s \in S /\ session[s].status \in {"LIVE", "EXPIRED"}
     THEN [session[s] EXCEPT !.status = "REVOKED"] ELSE session[s]]

Logout(r) ==
  /\ At(r, "logout", "close")
  /\ session' = Revoked({job[r].session})
  /\ Answer(r)
  /\ UNCHANGED <<password, resetToken>>

\* revokeAllForIdentity: after a suspension, a removal, a promotion.
RevokeAllForIdentity ==
  /\ session' = Revoked(Session)
  /\ UNCHANGED <<password, resetToken, locks, pc, job>>

---------------------------------------------------------------------------
(* request: the token is generated, then in one transaction the open       *)
(* tokens are revoked and it is inserted with its e-mail.                  *)

RequestReset(r) ==
  \E t \in Token :
    /\ Fresh(t)
    /\ Admit(r, [NoJob EXCEPT !.op = "request", !.token = t], "revoke")

\* Mutant: the open tokens are left alone.
RevokeNone(r) ==
  /\ At(r, "request", "revoke")
  /\ Goto(r, "insert")
  /\ UNCHANGED <<rows, locks, job>>

\* The UPDATE waits for a token that is being used or revoked, and looks
\* again; a token that is not committed yet it cannot see.
RevokeOpen(r) ==
  /\ At(r, "request", "revoke")
  /\ \A t \in Open : Free(r, t)
  /\ locks' = [locks EXCEPT ![r] = Open]
  /\ Goto(r, "insert")
  /\ UNCHANGED <<rows, job>>

InsertToken(r) ==
  /\ At(r, "request", "insert")
  /\ resetToken' = [t \in Token |->
       IF t \in locks[r] THEN [resetToken[t] EXCEPT !.status = "REVOKED"]
       ELSE IF t = job[r].token THEN [status |-> "PENDING", expired |-> FALSE]
       ELSE resetToken[t]]
  /\ Answer(r)
  /\ UNCHANGED <<password, session>>

---------------------------------------------------------------------------
(* complete *)

RequestComplete(r) ==
  \E t \in Sent :
    Admit(r, [NoJob EXCEPT !.op = "complete", !.token = t, !.before = Live],
          "lock")

Usable(t) == resetToken[t].status = "PENDING" /\ ~resetToken[t].expired

\* Mutant: the token is read without FOR UPDATE.
CompleteWithoutLock(r) ==
  LET t == job[r].token IN
  /\ At(r, "complete", "lock")
  /\ \/ ~Usable(t) /\ Refuse(r)
     \/ Usable(t) /\ Goto(r, "credential") /\ UNCHANGED <<rows, locks, job>>

CompleteLock(r) ==
  LET t == job[r].token IN
  /\ At(r, "complete", "lock")
  /\ Free(r, t)
  /\ \/ ~Usable(t) /\ Refuse(r)
     \/ /\ Usable(t) /\ Goto(r, "credential")
        /\ locks' = [locks EXCEPT ![r] = {t}]
        /\ UNCHANGED <<rows, job>>

\* The credential row is locked by its UPDATE until COMMIT.
CompleteCredential(r) ==
  /\ At(r, "complete", "credential")
  /\ \A q \in Request : pc[q] \notin {"sessions", "commit"}
  /\ Goto(r, "sessions")
  /\ UNCHANGED <<rows, locks, job>>

\* SEC-15.  The sessions that this UPDATE sees will be revoked; one that is
\* created before COMMIT will not.
CompleteSessions(r) ==
  /\ At(r, "complete", "sessions")
  /\ job' = [job EXCEPT ![r].seen =
               {s \in Session : session[s].status \in {"LIVE", "EXPIRED"}}]
  /\ Goto(r, "commit")
  /\ UNCHANGED <<rows, locks>>

\* Mutant: used_at is not set.
CompleteLeavingToken(r) ==
  /\ At(r, "complete", "commit")
  /\ password' = password + 1
  /\ session' = Revoked(job[r].seen)
  /\ Answer(r)
  /\ UNCHANGED resetToken

\* Mutant: the sessions are not revoked.
CompleteLeavingSessions(r) ==
  /\ At(r, "complete", "commit")
  /\ password' = password + 1
  /\ resetToken' = [resetToken EXCEPT ![job[r].token].status = "USED"]
  /\ Answer(r)
  /\ UNCHANGED session

CompleteCommit(r) ==
  /\ At(r, "complete", "commit")
  /\ password' = password + 1
  /\ resetToken' = [resetToken EXCEPT ![job[r].token].status = "USED"]
  /\ session' = Revoked(job[r].seen)
  /\ Answer(r)

---------------------------------------------------------------------------
ExpireSession(s) ==
  /\ s \in Live
  /\ session' = [session EXCEPT ![s].status = "EXPIRED"]
  /\ UNCHANGED <<password, resetToken, locks, pc, job>>

ExpireToken(t) ==
  /\ t \in Open /\ ~resetToken[t].expired
  /\ resetToken' = [resetToken EXCEPT ![t].expired = TRUE]
  /\ UNCHANGED <<password, session, locks, pc, job>>

\* A request is lost with its transaction: a timeout, the process.
Lose(r) == pc[r] # "idle" /\ Refuse(r)

---------------------------------------------------------------------------
Arrive(r) ==
  RequestLogin(r) \/ RequestLogout(r) \/ RequestReset(r) \/ RequestComplete(r)

Serve(r) ==
  \/ LoginVerify(r) \/ LoginOpen(r) \/ Logout(r)
  \/ RevokeOpen(r) \/ InsertToken(r)
  \/ CompleteLock(r) \/ CompleteCredential(r) \/ CompleteSessions(r)
  \/ CompleteCommit(r)

Next ==
  \/ \E r \in Request : Arrive(r) \/ Serve(r) \/ Lose(r)
  \/ RevokeAllForIdentity
  \/ \E s \in Session : ExpireSession(s)
  \/ \E t \in Token : ExpireToken(t)

Spec == Init /\ [][Next]_vars

---------------------------------------------------------------------------
(* Properties *)

\* The types, and the row a completion has checked: it stays open until the
\* completion commits.
TypeOK ==
  /\ password \in Nat
  /\ session \in [Session -> SessionRow]
  /\ resetToken \in [Token -> TokenRow]
  /\ locks \in [Request -> SUBSET Token]
  /\ pc \in [Request -> Label]
  /\ job \in [Request -> Job]
  /\ \A r \in Request :
       pc[r] \in {"credential", "sessions", "commit"} => job[r].token \in Open

\* "a reset token cannot be used twice" (password-reset.test.ts 66), however
\* many completions carry it at once: the password changes only with a token
\* that was open until then, and that token is closed for good.
PasswordChangeStep ==
  /\ password' # password => \E t \in Open : resetToken'[t].status = "USED"
  /\ \A t \in Sent \ Open : resetToken'[t].status = resetToken[t].status
PasswordChangeSpendsToken == [][PasswordChangeStep]_vars

\* Requests that overlap do not see each other's token, but that is all: no
\* more tokens are open than requests run in parallel, however many are made.
OpenTokensBounded == Cardinality(Open) <= Cardinality(Request)

\* Whoever was logged in when a reset was submitted is not any more when the
\* new password takes effect (SEC-15), whatever logs in and out meanwhile.
ResetStep ==
  password' # password =>
    \E r \in Request :
      /\ At(r, "complete", "commit")
      /\ \A s \in job[r].before : session'[s].status # "LIVE"
ResetEndsEarlierSessions == [][ResetStep]_vars
===========================================================================
