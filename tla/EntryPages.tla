----------------------------- MODULE EntryPages -----------------------------
(***************************************************************************)
(* The pages of the web application through which a person comes in: home, *)
(* login, register, the link of an invitation, password reset, and the two *)
(* layouts that look whose session it is (apps/web/src/app).               *)
(*                                                                         *)
(* The tabs of a browser share its session cookie.  A call carries the     *)
(* cookie there is when it is sent, and the cookie of its answer is taken  *)
(* when that arrives, whatever was done in another tab meanwhile.          *)
(*                                                                         *)
(* A session is whose it is; sessions of one person are not told apart.    *)
(* A page is left when nothing is under way: to leave it earlier is to     *)
(* have the call fail first.                                               *)
(***************************************************************************)
CONSTANTS
  Tab,
  Person,
  Platform,  \* the Platform Administrators
  Invited,   \* whom the invitation is addressed to
  Nothing

\* Of the constants.
PersonsAreKnown == Platform \subseteq Person /\ Invited \in Person

VARIABLES
  account,     \* those who have an identity with a password
  belongs,     \* membership: in the inviting Organization, or in another
  invitation,
  cookie,      \* whose valid session the browser has
  tab,
  missed       \* for a property only: tabs where a call failed, or during
               \* whose calls the browser's session changed

server == <<account, belongs, invitation>>
vars == <<server, cookie, tab, missed>>

Op == {"none", "me", "organization", "login", "register", "accept",
       "acceptExisting", "requestReset", "completeReset", "logout"}
Page == {"home", "landing", "login", "register", "invitation", "loginRequired",
         "forgot", "requested", "reset", "updated", "platformCheck", "platform",
         "orgCheck", "org", "unavailable"}
Answer == {"none", "ok", "platform", "loginRequired", "failed"}

Mounted(page) ==
  CASE page \in {"home", "platformCheck"} -> "me"
    [] page = "orgCheck" -> "organization"
    [] OTHER -> "none"

\* "link" is the invitation's token in the address; "through" says that
\* home was reached by accepting it; "sent" is the cookie of the running call,
\* "got" that of its answer, and "who" the person it is about.
Shows(page, link, through, session) ==
  [page |-> page, link |-> link, through |-> through, op |-> Mounted(page),
   stage |-> IF Mounted(page) = "none" THEN "idle" ELSE "asked",
   who |-> Nothing, sent |-> IF Mounted(page) = "none" THEN Nothing ELSE session,
   got |-> Nothing, answer |-> "none"]

Init ==
  /\ account \in SUBSET Person /\ Platform \subseteq account
  /\ belongs = [p \in Person |-> "none"]
  /\ invitation = "PENDING"
  /\ cookie = Nothing
  /\ tab = [t \in Tab |-> Shows("landing", FALSE, FALSE, Nothing)]
  /\ missed = {}

Goes(t, page, link, through) ==
  tab' = [tab EXCEPT ![t] = Shows(page, link, through, cookie')]

\* The cookie of the browser becomes another one.
Takes(t, session) ==
  /\ cookie' = session
  /\ missed' = IF session = cookie THEN missed ELSE missed \cup (Tab \ {t})

---------------------------------------------------------------------------
(* The person at the browser *)

\* An address is entered, or the link of a message opened.
Visit(t) ==
  /\ tab[t].stage = "idle"
  /\ UNCHANGED <<server, cookie>>
  /\ missed' = missed \ {t}
  /\ \/ Goes(t, "invitation", TRUE, FALSE)
     \/ \E page \in {"home", "login", "register", "forgot", "reset",
                     "platformCheck", "orgCheck"} : Goes(t, page, FALSE, FALSE)

\* "Sign in to accept this invitation"
SignInToAccept(t) ==
  /\ tab[t].page = "loginRequired" /\ tab[t].stage = "idle"
  /\ UNCHANGED <<server, cookie, missed>>
  /\ Goes(t, "login", TRUE, FALSE)

Asks(t, op, who) ==
  tab' = [tab EXCEPT ![t].op = op, ![t].stage = "asked", ![t].who = who,
                     ![t].sent = cookie, ![t].answer = "none"]

OpsOf(page) ==
  CASE page = "login" -> {"login"}
    [] page = "register" -> {"register"}
    [] page \in {"invitation", "loginRequired"} -> {"accept"}
    [] page = "forgot" -> {"requestReset"}
    [] page = "reset" -> {"completeReset"}
    [] page \in {"platform", "org", "unavailable"} -> {"logout"}
    [] OTHER -> {}

\* onSubmit of a form, which is disabled meanwhile, or onSignOut.
Submit(t) == \E op \in OpsOf(tab[t].page) :
  /\ tab[t].stage = "idle"
  /\ \E p \in IF op \in {"login", "register", "completeReset"} THEN Person
             ELSE {Nothing} : Asks(t, op, p)
  /\ missed' = missed \ {t}
  /\ UNCHANGED <<server, cookie>>

---------------------------------------------------------------------------
(* The API *)

Replies(t, answer, session) ==
  tab' = [tab EXCEPT ![t].stage = "answered", ![t].answer = answer,
                     ![t].got = session]
\* Sessions of p end while t is answered.
RepliesEnding(t, p) ==
  /\ cookie' = IF cookie = p THEN Nothing ELSE cookie
  /\ tab' = [u \in Tab |->
       IF u = t THEN [tab[t] EXCEPT !.stage = "answered", !.answer = "ok"]
       ELSE [tab[u] EXCEPT !.sent = IF @ = p THEN Nothing ELSE @,
                           !.got = IF @ = p THEN Nothing ELSE @]]
  /\ missed' = missed \cup (Tab \ {t})

In(where) == {p \in Person : belongs[p] = where}
Belong(p, where) == belongs' = [belongs EXCEPT ![p] = where]

\* Mutant: any session will do.
AcceptAsAnyone(p) ==
  /\ p # Nothing /\ invitation = "PENDING" /\ belongs[p] # "other"
  /\ Belong(p, "inviting") /\ invitation' = "ACCEPTED" /\ UNCHANGED account

\* acceptForExistingIdentity, for the session's identity.
AcceptAs(p) ==
  /\ p = Invited /\ invitation = "PENDING" /\ belongs[p] # "other"
  /\ Belong(p, "inviting") /\ invitation' = "ACCEPTED" /\ UNCHANGED account

AcceptAsNew ==
  /\ Invited \notin account /\ invitation = "PENDING"
  /\ account' = account \cup {Invited} /\ invitation' = "ACCEPTED"
  /\ Belong(Invited, "inviting")

\* The calls that read, or refuse.
Read(t) ==
  LET call == tab[t] IN
  /\ call.stage = "asked"
  /\ \/ /\ call.op = "me" /\ call.sent # Nothing
        /\ Replies(t, IF call.sent \in Platform THEN "platform" ELSE "ok", Nothing)
     \/ /\ call.op = "organization" /\ call.sent # Nothing
        /\ call.sent \notin In("none") /\ Replies(t, "ok", Nothing)
     \/ /\ call.op = "accept" /\ invitation = "PENDING" /\ Invited \in account
        /\ Replies(t, "loginRequired", Nothing)
     \/ call.op = "requestReset" /\ Replies(t, "ok", Nothing)
  /\ UNCHANGED <<server, cookie, missed>>

\* The calls that change something.  The cookie of an answer is in "got".
Write(t) ==
  LET call == tab[t] IN
  /\ call.stage = "asked"
  /\ \/ /\ call.op = "login" /\ call.who \in account
        /\ Replies(t, "ok", call.who) /\ UNCHANGED <<server, cookie, missed>>
     \/ /\ call.op = "register" /\ call.who \notin account
        /\ account' = account \cup {call.who} /\ Belong(call.who, "other")
        /\ Replies(t, "ok", call.who) /\ UNCHANGED <<invitation, cookie, missed>>
     \/ /\ call.op = "accept" /\ AcceptAsNew
        /\ Replies(t, "ok", Invited) /\ UNCHANGED <<cookie, missed>>
     \/ /\ call.op = "acceptExisting" /\ AcceptAs(call.sent)
        /\ Replies(t, "ok", Nothing) /\ UNCHANGED <<cookie, missed>>
     \/ /\ call.op = "completeReset" /\ call.who \in account
        /\ RepliesEnding(t, call.who) /\ UNCHANGED server
     \/ /\ call.op = "logout" /\ call.sent # Nothing
        /\ RepliesEnding(t, call.sent) /\ UNCHANGED server

Refused(t) ==
  LET call == tab[t] IN
  CASE call.op = "login" -> call.who \notin account
    [] call.op = "register" -> call.who \in account
    [] call.op = "accept" -> invitation # "PENDING"
    [] call.op = "acceptExisting" ->
         call.sent # Invited \/ invitation # "PENDING" \/ Invited \in In("other")
    [] call.op = "organization" -> call.sent \in {Nothing} \cup In("none")
    [] call.op \in {"me", "logout"} -> call.sent = Nothing
    [] OTHER -> call.op = "completeReset"

\* The call is refused for what it asks.
Refuse(t) ==
  /\ tab[t].stage = "asked" /\ Refused(t)
  /\ Replies(t, "failed", Nothing)
  /\ UNCHANGED <<server, cookie, missed>>

\* It fails, or its answer is lost, whatever the API did.
Fail(t) ==
  /\ tab[t].stage \in {"asked", "answered"} /\ tab[t].answer # "failed"
  /\ Replies(t, "failed", Nothing)
  /\ missed' = missed \cup {t}
  /\ UNCHANGED <<server, cookie>>

\* A session expires or is revoked; an invitation ends; a member is removed.
Others ==
  \/ /\ cookie' = Nothing /\ missed' = missed \cup Tab
     /\ tab' = [t \in Tab |-> [tab[t] EXCEPT !.sent = Nothing, !.got = Nothing]]
     /\ UNCHANGED server
  \/ /\ invitation = "PENDING" /\ invitation' = "ENDED"
     /\ UNCHANGED <<account, belongs, cookie, tab, missed>>
  \/ /\ \E p \in Person : belongs[p] = "inviting" /\ Belong(p, "none")
     /\ UNCHANGED <<account, invitation, cookie, tab, missed>>

---------------------------------------------------------------------------
(* The page goes on with the answer. *)

Comes(t, op) == tab[t].stage = "answered" /\ tab[t].op = op
Ok(t) == tab[t].answer = "ok"

\* The form is there again.
Again(t, page) ==
  tab' = [tab EXCEPT ![t] = Shows(page, tab[t].link, FALSE, cookie)]

\* HomePage, PlatformAdminLayout and OrgLayout
Checked(t) ==
  /\ UNCHANGED <<server, cookie, missed>>
  /\ \/ /\ Comes(t, "me") /\ tab[t].page = "home"
        /\ Goes(t, CASE tab[t].answer = "platform" -> "platformCheck"
                     [] Ok(t) -> "orgCheck"
                     [] OTHER -> "landing", FALSE, FALSE)
     \/ /\ Comes(t, "me") /\ tab[t].page = "platformCheck"
        /\ Goes(t, IF tab[t].answer = "platform" THEN "platform" ELSE "unavailable",
                FALSE, FALSE)
     \/ /\ Comes(t, "organization")
        /\ Goes(t, IF Ok(t) THEN "org" ELSE "unavailable", FALSE, FALSE)

\* Mutant: the page goes home without accepting the invitation.
LoggedInOnly(t) ==
  /\ Comes(t, "login")
  /\ IF Ok(t) THEN Takes(t, tab[t].got) /\ Goes(t, "home", FALSE,
                     tab[t].link /\ tab[t].who = Invited)
     ELSE Again(t, "login") /\ UNCHANGED <<cookie, missed>>
  /\ UNCHANGED server

\* LoginForm: the session is there; a pending invitation is accepted next.
LoggedIn(t) ==
  /\ Comes(t, "login")
  /\ \/ /\ Ok(t) /\ Takes(t, tab[t].got)
        /\ \/ ~tab[t].link /\ Goes(t, "home", FALSE, FALSE)
           \/ /\ tab[t].link
              /\ tab' = [tab EXCEPT ![t].op = "acceptExisting",
                   ![t].stage = "asked", ![t].answer = "none",
                   ![t].sent = tab[t].got, ![t].got = Nothing]
     \/ ~Ok(t) /\ Again(t, "login") /\ UNCHANGED <<cookie, missed>>
  /\ UNCHANGED server

Registered(t) ==
  /\ Comes(t, "register")
  /\ \/ Ok(t) /\ Takes(t, tab[t].got) /\ Goes(t, "home", FALSE, FALSE)
     \/ ~Ok(t) /\ Again(t, "register") /\ UNCHANGED <<cookie, missed>>
  /\ UNCHANGED server

\* AcceptInvitationForm: an account there is may be the one signed in.
Accepted(t) ==
  /\ Comes(t, "accept")
  /\ \/ Ok(t) /\ Takes(t, tab[t].got) /\ Goes(t, "home", FALSE, TRUE)
     \/ /\ tab[t].answer = "loginRequired"
        /\ tab' = [tab EXCEPT ![t].op = "acceptExisting", ![t].stage = "asked",
                              ![t].answer = "none", ![t].sent = cookie]
        /\ UNCHANGED <<cookie, missed>>
     \/ /\ tab[t].answer = "failed" /\ Again(t, "invitation")
        /\ UNCHANGED <<cookie, missed>>
  /\ UNCHANGED server

\* From the login page the answer does not matter.
AcceptedExisting(t) ==
  /\ Comes(t, "acceptExisting")
  /\ UNCHANGED <<server, cookie, missed>>
  /\ \/ /\ tab[t].page = "login"
        /\ Goes(t, "home", FALSE, tab[t].who = Invited)
     \/ tab[t].page # "login" /\ Ok(t) /\ Goes(t, "home", FALSE, TRUE)
     \/ tab[t].page # "login" /\ ~Ok(t) /\ Again(t, "loginRequired")

\* A request says the same whatever comes; after a reset the page goes to login
\* by itself.
ResetComes(t) ==
  /\ UNCHANGED <<server, cookie, missed>>
  /\ \/ Comes(t, "requestReset") /\ Again(t, "requested")
     \/ /\ Comes(t, "completeReset")
        /\ Again(t, IF Ok(t) THEN "updated" ELSE "reset")
     \/ tab[t].page = "updated" /\ Goes(t, "login", FALSE, FALSE)

\* Without an answer that it worked the page stays.
SignedOut(t) ==
  /\ Comes(t, "logout")
  /\ \/ Ok(t) /\ Takes(t, Nothing) /\ Goes(t, "login", FALSE, FALSE)
     \/ /\ ~Ok(t) /\ UNCHANGED <<cookie, missed>>
        /\ tab' = [tab EXCEPT ![t].stage = "idle", ![t].op = "none"]
  /\ UNCHANGED server

Next ==
  \/ \E t \in Tab :
       \/ Visit(t) \/ SignInToAccept(t) \/ Submit(t)
       \/ Read(t) \/ Write(t) \/ Refuse(t) \/ Fail(t)
       \/ Checked(t) \/ LoggedIn(t) \/ Registered(t) \/ Accepted(t)
       \/ AcceptedExisting(t) \/ ResetComes(t) \/ SignedOut(t)
  \/ Others

Spec == Init /\ [][Next]_vars

---------------------------------------------------------------------------
(* Properties *)

\* The types.
TypeOK ==
  /\ account \subseteq Person
  /\ belongs \in [Person -> {"none", "inviting", "other"}]
  /\ invitation \in {"PENDING", "ACCEPTED", "ENDED"}
  /\ cookie \in Person \cup {Nothing}
  /\ missed \subseteq Tab
  /\ tab \in [Tab -> [page : Page, link : BOOLEAN, through : BOOLEAN, op : Op,
                      stage : {"idle", "asked", "answered"}, answer : Answer,
                      who : Person \cup {Nothing}, sent : Person \cup {Nothing},
                      got : Person \cup {Nothing}]]

\* The link of an invitation lets in the invited person and nobody else,
\* whoever is signed in in the browser.  And it does let in: the invited person
\* who comes home by it has left no invitation open, unless a call failed or
\* the session was changed meanwhile, or the person belongs elsewhere.
JoinsAsInvited ==
  /\ \A p \in Person : belongs[p] = "inviting" => p = Invited
  /\ \A t \in Tab \ missed :
       tab[t].through => invitation # "PENDING" \/ belongs[Invited] = "other"
=============================================================================
