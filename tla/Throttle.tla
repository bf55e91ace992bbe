------------------------------ MODULE Throttle ------------------------------
(***************************************************************************)
(* How failed logins slow down further ones: ThrottleService, and          *)
(* AuthService.login around it (apps/api/src/identity).                    *)
(*                                                                         *)
(* A login counts the failures of its account and of its source in two     *)
(* statements that run in parallel, sleeps, verifies the password and      *)
(* records the outcome; other logins come in between.  Delays are in units *)
(* of 500 ms.  Recorded successes are not counted and are left out.        *)
(***************************************************************************)
EXTENDS Naturals, FiniteSets

CONSTANTS
  Email, Ip,
  Attempt,       \* rows of failures within the window at a time; a bound
  Request,       \* logins the API serves concurrently
  FreeAttempts,  \* FREE_ATTEMPTS
  MaxDelay,      \* MAX_DELAY_MS
  Nothing

\* Of the constants.
NothingIsNothing == Nothing \notin Email \cup Ip
DelaysAreNumbers == FreeAttempts \in Nat /\ MaxDelay \in Nat

VARIABLES
  failure,  \* login_attempts that failed within WINDOW_MS
  login     \* the logins that are being served

vars == <<failure, login>>

\* "waited" only serves a property: the delay the login had waited out.
FailureRow ==
  [email : Email \cup {Nothing}, ip : Ip \cup {Nothing}, waited : Nat]
\* The counts that are still to come, and the larger delay of those that have
\* come: with both, the login sleeps.
Login == [email : Email \cup {Nothing}, ip : Ip \cup {Nothing},
          counts : SUBSET {"email", "ip"}, delay : Nat]

NoRow == [email |-> Nothing, ip |-> Nothing, waited |-> 0]
NoLogin == [email |-> Nothing, ip |-> Nothing, counts |-> {}, delay |-> 0]

ByEmail(e) == {a \in Attempt : failure[a].email = e}
ByIp(i) == {a \in Attempt : failure[a].ip = i}

\* 2^n
Power[n \in Nat] == IF n = 0 THEN 1 ELSE 2 * Power[n - 1]

\* computeDelayMs
ComputeDelay(n) ==
  LET backoff == Power[n - FreeAttempts] IN
  IF n <= FreeAttempts THEN 0
  ELSE IF backoff < MaxDelay THEN backoff ELSE MaxDelay

Init ==
  /\ failure = [a \in Attempt |-> NoRow]
  /\ login = [r \in Request |-> NoLogin]

---------------------------------------------------------------------------
Sleeps(r) == login[r] # NoLogin /\ login[r].counts = {}

Arrive(r) ==
  \E e \in Email, i \in Ip :
    /\ login[r] = NoLogin
    /\ login' = [login EXCEPT ![r] = [email |-> e, ip |-> i, delay |-> 0,
                                      counts |-> {"email", "ip"}]]
    /\ UNCHANGED failure

\* One of the two counts of currentDelayMs is answered.
Counted(r, which, rows) ==
  LET delay == ComputeDelay(Cardinality(rows)) IN
  /\ which \in login[r].counts
  /\ login' = [login EXCEPT ![r].counts = @ \ {which},
                            ![r].delay = IF delay > @ THEN delay ELSE @]
  /\ UNCHANGED failure

\* Mutant: failures are counted for the pair of account and source.
CountPair(r) ==
  Counted(r, "email", ByEmail(login[r].email) \cap ByIp(login[r].ip))

CountEmail(r) == Counted(r, "email", ByEmail(login[r].email))
CountIp(r) == Counted(r, "ip", ByIp(login[r].ip))

Finish(r) == login' = [login EXCEPT ![r] = NoLogin]

\* The password is wrong, or there is no such account: recorded, then refused.
Fail(r) ==
  /\ Sleeps(r)
  /\ \E a \in Attempt :
       /\ failure[a] = NoRow
       /\ failure' = [failure EXCEPT ![a] =
            [email |-> login[r].email, ip |-> login[r].ip,
             waited |-> login[r].delay]]
  /\ Finish(r)

\* The password is right; a session is created (module Sessions).
Succeed(r) == Sleeps(r) /\ Finish(r) /\ UNCHANGED failure

\* The process stops, or a statement fails.
Lose(r) == login[r] # NoLogin /\ Finish(r) /\ UNCHANGED failure

\* The window moves on past a failure.
Forget(a) ==
  /\ failure[a] # NoRow
  /\ failure' = [failure EXCEPT ![a] = NoRow]
  /\ UNCHANGED login

Next ==
  \/ \E r \in Request :
       \/ Arrive(r) \/ CountEmail(r) \/ CountIp(r) \/ Fail(r) \/ Succeed(r)
       \/ Lose(r)
  \/ \E a \in Attempt : Forget(a)

Spec == Init /\ [][Next]_vars

---------------------------------------------------------------------------
(* Properties *)

\* The types.
TypeOK ==
  /\ failure \in [Attempt -> FailureRow]
  /\ login \in [Request -> Login]

\* "progressive-delay throttling by account AND by source, so an attacker
\* cannot bypass the limit by varying only one dimension" (throttle.service.ts
\* 9-10), and not by trying in parallel either: of the failures of an account,
\* or of a source, within the window, at most n - 1 have waited less than the
\* n-th is meant to, and one for every login served at the same time.
BackoffHolds ==
  \A n \in 1..Cardinality(Attempt) :
    LET Early(rows) == {a \in rows : failure[a].waited < ComputeDelay(n)} IN
    \A rows \in {ByEmail(e) : e \in Email} \cup {ByIp(i) : i \in Ip} :
      Cardinality(Early(rows)) <= n - 1 + Cardinality(Request)
=============================================================================
