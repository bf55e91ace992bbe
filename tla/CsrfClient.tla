----------------------------- MODULE CsrfClient -----------------------------
(***************************************************************************)
(* The browser's side of a session: the tabs of one browser share its      *)
(* session cookie, and each keeps the CSRF token of the session it knew    *)
(* last.  apiFetch attaches the token to an unsafe request and, when the   *)
(* answer is a 403, fetches the token again and retries once.              *)
(*                                                                         *)
(* A CSRF token is the session it belongs to (an HMAC of its id under its  *)
(* secret).  Safe requests touch none of this and are left out.            *)
(***************************************************************************)
EXTENDS Naturals

CONSTANTS
  Tab,
  Call,     \* unsafe calls of apiFetch at the same time
  Session,  \* the sessions ever opened; a bound
  Nothing

\* Of the constants.
NothingIsNothing == Nothing \notin Session

\* "login" is every call that opens a session: login, register, accepting an
\* invitation.  It passes no guard.  "write" is any other unsafe request.
Op == {"write", "login", "logout"}
Place == {"idle", "token", "tokenAnswered", "request", "handler", "answered",
          "done"}
Answer == {"none", "ok", "unauthenticated", "csrf", "forbidden", "failed",
           "lost"}

VARIABLES
  status,    \* of each session on the server
  cookie,    \* the session cookie of the browser
  cached,    \* cachedCsrfToken of each tab
  pc, call,  \* where each call is
  effects,   \* how often each call had an effect
  disturbed  \* whether the browser's session changed during each call

vars == <<status, cookie, cached, pc, call, effects, disturbed>>
server == <<status, effects>>
browser == <<cookie, cached>>

NoCall == [tab |-> Nothing, op |-> "write", cookie |-> Nothing,
           header |-> Nothing, answer |-> "none", retried |-> FALSE]

Init ==
  /\ status = [s \in Session |-> "NEW"]
  /\ cookie = Nothing
  /\ cached = [t \in Tab |-> Nothing]
  /\ pc = [c \in Call |-> "idle"]
  /\ call = [c \in Call |-> NoCall]
  /\ effects = [c \in Call |-> 0]
  /\ disturbed = [c \in Call |-> FALSE]

\* validate: a session that is there, not revoked and not expired.
Valid(s) == s # Nothing /\ status[s] = "OPEN"

\* The cookie is replaced or cleared, or its session ends.
Rotates == cookie' # cookie \/ (Valid(cookie) /\ ~Valid(cookie)')
Watch ==
  disturbed' = [c \in Call |->
    pc[c] # "idle" /\ pc'[c] # "idle" /\ (disturbed[c] \/ Rotates)]

---------------------------------------------------------------------------
(* The browser. *)

At(c, place) == pc[c] = place
Goto(c, place) == pc' = [pc EXCEPT ![c] = place]
Note(c, fields) == call' = [call EXCEPT ![c] = fields]

\* The browser attaches the cookie it has at that moment.
Send(c, k, token) ==
  /\ Note(c, [k EXCEPT !.cookie = cookie, !.header = token])
  /\ Goto(c, "request")
FetchToken(c, k) ==
  /\ Note(c, [k EXCEPT !.cookie = cookie])
  /\ Goto(c, "token")

\* apiFetch, until its first await.
Start(c) ==
  \E t \in Tab, o \in Op :
    LET k == [NoCall EXCEPT !.tab = t, !.op = o] IN
    /\ At(c, "idle")
    /\ IF cached[t] = Nothing THEN FetchToken(c, k) ELSE Send(c, k, cached[t])
    /\ UNCHANGED <<server, browser>>
    /\ Watch

\* apiFetch returns the answer, or throws it.
Return(c, answer) ==
  /\ Note(c, [NoCall EXCEPT !.answer = answer])
  /\ Goto(c, "done")

\* The caller goes on.
Settle(c) ==
  /\ At(c, "done")
  /\ Note(c, NoCall)
  /\ Goto(c, "idle")
  /\ effects' = [effects EXCEPT ![c] = 0]
  /\ UNCHANGED <<status, browser>>
  /\ Watch

\* The rest of fetchCsrfToken, and of apiFetch or doFetch up to the request:
\* nothing else in the tab runs in between.  Without a new token a first
\* attempt goes on with what the tab has, and a retry is given up.
ReceiveToken(c) ==
  LET k == call[c] IN
  /\ At(c, "tokenAnswered")
  /\ \/ /\ k.answer = "ok"
        /\ cached' = [cached EXCEPT ![k.tab] = k.cookie]
        /\ Send(c, [k EXCEPT !.answer = "none"], k.cookie)
     \/ /\ k.answer # "ok" /\ ~k.retried
        /\ Send(c, [k EXCEPT !.answer = "none"], cached[k.tab])
        /\ UNCHANGED cached
     \/ /\ k.answer # "ok" /\ k.retried
        /\ Return(c, k.answer)
        /\ UNCHANGED cached
  /\ UNCHANGED <<server, cookie>>
  /\ Watch

Is403(answer) == answer \in {"csrf", "forbidden"}

\* Mutants: what else could be retried.
RetriesEveryError(k) == ~k.retried /\ k.answer # "ok"
RetriesForbiddenOnly(k) == ~k.retried /\ k.answer = "forbidden"

Retries(k) == ~k.retried /\ Is403(k.answer)

\* The rest of apiFetch and of its caller, login or logout.  The browser has
\* followed the Set-Cookie of the answer, whatever cookie it has by now.
Receive(c) ==
  LET k == call[c] IN
  /\ At(c, "answered")
  /\ \/ /\ Retries(k)
        /\ FetchToken(c, [k EXCEPT !.retried = TRUE])
        /\ UNCHANGED browser
     \/ /\ ~Retries(k)
        /\ Return(c, k.answer)
        /\ IF k.answer = "ok" /\ k.op # "write"
           THEN /\ cookie' = k.header
                /\ cached' = [cached EXCEPT ![k.tab] = k.header]
           ELSE UNCHANGED <<cookie, cached>>
  /\ UNCHANGED server
  /\ Watch

\* The network fails, before or after the server has done its part.
Lose(c) ==
  /\ pc[c] \notin {"idle", "done"}
  /\ Return(c, "lost")
  /\ UNCHANGED <<server, browser>>
  /\ Watch

---------------------------------------------------------------------------
(* The server. *)

Reply(c, answer) == Note(c, [call[c] EXCEPT !.answer = answer])

\* GET auth/csrf, behind the SessionAuthGuard.  A retry keeps its refusal when
\* it gets no token.
ServeToken(c) ==
  /\ At(c, "token")
  /\ \/ Valid(call[c].cookie) /\ Reply(c, "ok")
     \/ ~Valid(call[c].cookie) /\ ~call[c].retried /\ Reply(c, "unauthenticated")
     \/ ~Valid(call[c].cookie) /\ call[c].retried /\ UNCHANGED call
  /\ Goto(c, "tokenAnswered")
  /\ UNCHANGED <<server, browser>>
  /\ Watch

\* SessionAuthGuard.canActivate, and the other guards of the route.
Guard(c) ==
  LET k == call[c] IN
  /\ At(c, "request")
  /\ \/ /\ k.op = "login"
        /\ Goto(c, "handler") /\ UNCHANGED call
     \/ /\ k.op # "login" /\ ~Valid(k.cookie)
        /\ Goto(c, "answered") /\ Reply(c, "unauthenticated")
     \/ /\ k.op # "login" /\ Valid(k.cookie) /\ k.header # k.cookie
        /\ Goto(c, "answered") /\ Reply(c, "csrf")
     \/ /\ k.op = "write" /\ Valid(k.cookie) /\ k.header = k.cookie
        /\ Goto(c, "answered") /\ Reply(c, "forbidden")
     \/ /\ k.op # "login" /\ Valid(k.cookie) /\ k.header = k.cookie
        /\ Goto(c, "handler") /\ UNCHANGED call
  /\ UNCHANGED <<server, browser>>
  /\ Watch

Takes(c) == effects' = [effects EXCEPT ![c] = @ + 1]

\* A request is carried out and answered, or fails: rolled back, or after its
\* transaction.
Write(c) ==
  /\ At(c, "handler") /\ call[c].op = "write"
  /\ \/ Takes(c) /\ Reply(c, "ok")
     \/ Takes(c) /\ Reply(c, "failed")
     \/ UNCHANGED effects /\ Reply(c, "failed")
  /\ Goto(c, "answered")
  /\ UNCHANGED <<status, browser>>
  /\ Watch

\* Mutant: the cookie is written for a session that was not inserted.
LoginWithoutSession(c) ==
  /\ At(c, "handler") /\ call[c].op = "login"
  /\ \E s \in Session :
       /\ status[s] = "NEW"
       /\ Note(c, [call[c] EXCEPT !.header = s, !.answer = "ok"])
  /\ Takes(c)
  /\ Goto(c, "answered")
  /\ UNCHANGED <<status, browser>>
  /\ Watch

\* SessionService.create.  The answer carries the cookie and the token of the
\* new session, noted in place of the request's header.
Login(c) ==
  /\ At(c, "handler") /\ call[c].op = "login"
  /\ \/ /\ \E s \in Session :
             /\ status[s] = "NEW"
             /\ status' = [status EXCEPT ![s] = "OPEN"]
             /\ Note(c, [call[c] EXCEPT !.header = s, !.answer = "ok"])
        /\ Takes(c)
     \/ Reply(c, "unauthenticated") /\ UNCHANGED server
  /\ Goto(c, "answered")
  /\ UNCHANGED browser
  /\ Watch

\* The session of the request ends; the answer clears cookie and token.
Logout(c) ==
  /\ At(c, "handler") /\ call[c].op = "logout"
  /\ status' = [status EXCEPT ![call[c].cookie] = "ENDED"]
  /\ Takes(c)
  /\ Note(c, [call[c] EXCEPT !.header = Nothing, !.answer = "ok"])
  /\ Goto(c, "answered")
  /\ UNCHANGED browser
  /\ Watch

\* A session expires, or is revoked by whatever else revokes sessions.
End(s) ==
  /\ status[s] = "OPEN"
  /\ status' = [status EXCEPT ![s] = "ENDED"]
  /\ UNCHANGED <<effects, browser, pc, call>>
  /\ Watch

---------------------------------------------------------------------------
Next ==
  \/ \E c \in Call :
       \/ Start(c) \/ ServeToken(c) \/ ReceiveToken(c) \/ Guard(c) \/ Write(c)
       \/ Login(c) \/ Logout(c) \/ Receive(c) \/ Settle(c) \/ Lose(c)
  \/ \E s \in Session : End(s)

Spec == Init /\ [][Next]_vars

---------------------------------------------------------------------------
(* Properties *)

\* The variables have their types, and cookie and tokens are of sessions that
\* have been opened.
TypeOK ==
  /\ status \in [Session -> {"NEW", "OPEN", "ENDED"}]
  /\ cookie \in Session \cup {Nothing}
  /\ cached \in [Tab -> Session \cup {Nothing}]
  /\ pc \in [Call -> Place]
  /\ call \in [Call -> [tab : Tab \cup {Nothing}, op : Op,
                        cookie : Session \cup {Nothing},
                        header : Session \cup {Nothing}, answer : Answer,
                        retried : BOOLEAN]]
  /\ effects \in [Call -> Nat]
  /\ disturbed \in [Call -> BOOLEAN]
  /\ \A s \in {cookie} \cup {cached[t] : t \in Tab} :
       s # Nothing => status[s] # "NEW"

Returned(c, answers) == At(c, "done") /\ call[c].answer \in answers

\* The retry is transparent: a call that is sent twice has its effect once,
\* and one its caller is told was refused or not authenticated has none.
EffectOnce ==
  \A c \in Call :
    /\ effects[c] <= 1
    /\ Returned(c, {"ok"}) => effects[c] = 1
    /\ Returned(c, {"csrf", "forbidden", "unauthenticated"}) => effects[c] = 0

\* "a stale in-memory token doesn't surface as a user-facing error": however
\* stale the token of the tab is, and whatever other calls do to it, a call
\* fails its CSRF check only when the browser's session changed or ended while
\* it was under way.
StaleTokenHeals ==
  \A c \in Call : Returned(c, {"csrf"}) => disturbed[c]
=============================================================================
