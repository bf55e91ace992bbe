--------------------------- MODULE SessionsProofs ---------------------------
(***************************************************************************)
(* Theorems about Sessions, for every number of sessions, reset tokens and *)
(* concurrent requests.                                                    *)
(***************************************************************************)
EXTENDS Sessions, FiniteSetTheorems, TLAPS

---------------------------------------------------------------------------
(* The inductive invariant: what each statement of request and complete    *)
(* knows by the locks it holds.                                            *)

Completing == {"credential", "sessions", "commit"}

LocksExclusive ==
  \A r, q \in Request : r # q => locks[r] \cap locks[q] = {}

\* The tokens a request has locked are open: those it is going to revoke, or
\* the one it completes.
LocksAreOpen(r) ==
  /\ pc[r] = "insert" => locks[r] \subseteq Open
  /\ pc[r] \in Completing => locks[r] = {job[r].token} /\ job[r].token \in Open
  /\ pc[r] \notin Completing \cup {"insert"} => locks[r] = {}

\* A generated token is nobody else's until it is inserted.
TokenIsNew(r) ==
  job[r].op = "request" =>
    /\ job[r].token \in Token \ Sent
    /\ \A q \in Request \ {r} : job[q].token # job[r].token

\* A completion names a token.
NamesToken(r) == job[r].op = "complete" => job[r].token \in Token

\* The sessions that were live when a reset was submitted are ended, or among
\* those it has seen and is going to revoke.
EarlierAreSeen(r) ==
  /\ \A s \in job[r].before : session[s].status # "NONE"
  /\ pc[r] = "commit" =>
       \A s \in job[r].before :
         session[s].status \in {"LIVE", "EXPIRED"} => s \in job[r].seen

Knows(r) ==
  LocksAreOpen(r) /\ TokenIsNew(r) /\ NamesToken(r) /\ EarlierAreSeen(r)

IInv == TypeOK /\ LocksExclusive /\ \A r \in Request : Knows(r)

\* An idle request has a job of the right type, and names nothing.
LEMMA NoJobType == NoJob \in Job /\ NoJob.op = "none" /\ NoJob.before = {}
  BY DEF NoJob, Job

\* IInv holds at the start.
LEMMA InitIInv == Init => IInv
  <1> SUFFICES ASSUME Init PROVE IInv
    OBVIOUS
  <1>1. TypeOK
    <2>1. [status |-> "NONE", knew |-> 0] \in SessionRow
      BY DEF SessionRow
    <2>2. [status |-> "NONE", expired |-> FALSE] \in TokenRow
      BY DEF TokenRow
    <2> QED BY <2>1, <2>2, NoJobType DEF Init, TypeOK, Label
  <1>2. LocksExclusive /\ \A r \in Request : Knows(r)
    BY NoJobType DEF Init, LocksExclusive, Knows, LocksAreOpen, TokenIsNew,
       NamesToken, EarlierAreSeen, Completing
  <1> QED BY <1>1, <1>2 DEF IInv

---------------------------------------------------------------------------
(* What a step of one request leaves to the others. *)

\* Only the request's own bookkeeping changes.
OnlyOwn(r) ==
  \A q \in Request \ {r} :
    locks'[q] = locks[q] /\ pc'[q] = pc[q] /\ job'[q] = job[q]

\* Sessions go on from LIVE to EXPIRED to REVOKED.
SessionsGoOn ==
  \A s \in Session :
    /\ session[s].status # "NONE" => session'[s].status # "NONE"
    /\ session[s].status = "REVOKED" => session'[s].status = "REVOKED"

\* Tokens that another request has locked stay open, its new token unsent and
\* its own.
LeavesTokens(q) ==
  /\ \A t \in locks[q] : t \in Open => t \in Open'
  /\ job[q].op = "request" =>
       /\ job[q].token \notin Sent'
       /\ \A p \in Request \ {q} : job'[p].token # job[q].token

\* What a request knows stays true while others write: sessions only end, and
\* its locked tokens are left to it.
LEMMA OthersKnow ==
  ASSUME IInv, NEW q \in Request, SessionsGoOn, LeavesTokens(q),
         locks'[q] = locks[q], pc'[q] = pc[q], job'[q] = job[q]
  PROVE  Knows(q)'
  <1>1. TypeOK /\ Knows(q)
    BY DEF IInv
  <1>2. job[q].before \subseteq Session
    BY <1>1 DEF TypeOK, Job
  <1>3. LocksAreOpen(q)'
    BY <1>1 DEF Knows, LocksAreOpen, LeavesTokens
  <1>4. TokenIsNew(q)'
    BY <1>1 DEF Knows, TokenIsNew, LeavesTokens
  <1>5. EarlierAreSeen(q)'
    BY <1>1, <1>2 DEF Knows, EarlierAreSeen, SessionsGoOn, TypeOK, SessionRow
  <1>6. NamesToken(q)'
    BY <1>1 DEF Knows, NamesToken
  <1> QED BY <1>3, <1>4, <1>5, <1>6 DEF Knows

---------------------------------------------------------------------------
(* The steps: every request is admitted, answered or goes on.              *)

\* What is admitted is new or names a token that was sent, and holds nothing.
LEMMA AdmitKeeps ==
  ASSUME NothingIsNothing, IInv, NEW r \in Request, NEW j \in Job,
         NEW label \in Label \ (Completing \cup {"insert", "commit"}),
         Admit(r, j, label), j.before \subseteq Live,
         j.op = "request" => j.token \in Token /\ Fresh(j.token),
         j.op # "request" => j.token \in Sent \cup {Nothing},
         j.op = "complete" => j.token \in Token
  PROVE  IInv'
  <1>1. TypeOK /\ LocksExclusive /\ \A q \in Request : Knows(q)
    BY DEF IInv
  <1>2. /\ pc' = [pc EXCEPT ![r] = label] /\ job' = [job EXCEPT ![r] = j]
        /\ UNCHANGED <<password, session, resetToken, locks>>
    BY DEF Admit, rows
  <1>3. /\ Open' = Open /\ Sent' = Sent /\ Live' = Live
        /\ pc[r] = "idle" /\ locks[r] = {}
    BY <1>1, <1>2 DEF Open, Sent, Live, Admit, Knows, LocksAreOpen, Completing
  <1>4. /\ pc'[r] = label /\ job'[r] = j
        /\ \A q \in Request \ {r} : pc'[q] = pc[q] /\ job'[q] = job[q]
        /\ \A q \in Request : locks'[q] = locks[q]
    BY <1>1, <1>2 DEF TypeOK
  <1>5. TypeOK'
    <2>1. pc' \in [Request -> Label] /\ job' \in [Request -> Job]
      BY <1>1, <1>2 DEF TypeOK
    <2>2. \A q \in Request :
            pc'[q] \in Completing => job'[q].token \in Open'
      BY <1>1, <1>3, <1>4 DEF TypeOK, Completing
    <2> QED BY <1>1, <1>2, <2>1, <2>2 DEF TypeOK, Completing
  <1>6. LocksExclusive'
    BY <1>1, <1>2 DEF LocksExclusive
  <1>7. Knows(r)'
    <2>1. LocksAreOpen(r)'
      BY <1>3, <1>4 DEF LocksAreOpen, Completing
    <2>2. TokenIsNew(r)'
      BY <1>3, <1>4 DEF TokenIsNew, Fresh
    <2>3. EarlierAreSeen(r)'
      BY <1>2, <1>4 DEF EarlierAreSeen, Live
    <2> QED BY <1>4, <2>1, <2>2, <2>3 DEF Knows, NamesToken
  <1>8. ASSUME NEW q \in Request \ {r} PROVE Knows(q)'
    <2>1. SessionsGoOn
      BY <1>2 DEF SessionsGoOn
    <2>2. Knows(q) /\ job[q] \in Job
      BY <1>1 DEF TypeOK
    <2>3. CASE job[q].op # "request"
      <3>1. LeavesTokens(q)
        BY <1>3, <2>3 DEF LeavesTokens
      <3> QED BY <1>4, <2>1, <3>1, OthersKnow
    <2>4. CASE job[q].op = "request"
      <3>1. job[q].token \in Token \ Sent /\ job[q].token # Nothing
        BY <2>2, <2>4 DEF Knows, TokenIsNew, NothingIsNothing
      <3>2. j.token # job[q].token
        BY <3>1 DEF Fresh
      <3>3. \A p \in Request \ {q} : job'[p].token # job[q].token
        BY <1>4, <2>2, <2>4, <3>2 DEF Knows, TokenIsNew
      <3>4. LeavesTokens(q)
        BY <1>3, <3>1, <3>3 DEF LeavesTokens
      <3> QED BY <1>4, <2>1, <3>4, OthersKnow
    <2> QED BY <2>3, <2>4
  <1> QED BY <1>5, <1>6, <1>7, <1>8 DEF IInv

\* An answer gives up the locks.  The tokens it closes are the request's own,
\* and so is the one it sends.
LEMMA AnswerKeeps ==
  ASSUME NothingIsNothing, IInv, NEW r \in Request, Answer(r), SessionsGoOn,
         password' \in Nat, session' \in [Session -> SessionRow],
         resetToken' \in [Token -> TokenRow],
         Open \subseteq Open' \cup locks[r],
         \A t \in Sent' \ Sent : job[r].op = "request" /\ t = job[r].token
  PROVE  IInv'
  <1>1. TypeOK /\ LocksExclusive /\ \A q \in Request : Knows(q)
    BY DEF IInv
  <1>2. /\ pc'[r] = "idle" /\ job'[r] = NoJob /\ locks'[r] = {}
        /\ \A q \in Request \ {r} :
             pc'[q] = pc[q] /\ job'[q] = job[q] /\ locks'[q] = locks[q]
        /\ pc' \in [Request -> Label] /\ job' \in [Request -> Job]
        /\ locks' \in [Request -> SUBSET Token]
    BY <1>1, NoJobType DEF TypeOK, Answer, Label
  <1>3. \A q \in Request \ {r} : \A t \in locks[q] : t \in Open => t \in Open'
    BY <1>1 DEF LocksExclusive
  <1>4. TypeOK'
    <2>1. ASSUME NEW q \in Request, pc'[q] \in Completing
          PROVE  job'[q].token \in Open'
      <3>1. q # r
        BY <1>2, <2>1 DEF Completing
      <3>2. locks[q] = {job[q].token} /\ job[q].token \in Open
        BY <1>1, <1>2, <2>1, <3>1 DEF Knows, LocksAreOpen
      <3> QED BY <1>2, <1>3, <3>1, <3>2
    <2> QED BY <1>2, <2>1 DEF TypeOK, Completing
  <1>5. LocksExclusive'
    BY <1>1, <1>2 DEF LocksExclusive
  <1>6. Knows(r)'
    BY <1>2, NoJobType
    DEF Knows, LocksAreOpen, TokenIsNew, NamesToken, EarlierAreSeen, Completing
  <1>7. ASSUME NEW q \in Request \ {r} PROVE Knows(q)'
    <2>1. Knows(q)
      BY <1>1
    <2>2. CASE job[q].op # "request"
      <3>1. LeavesTokens(q)
        BY <1>3, <2>2 DEF LeavesTokens
      <3> QED BY <1>2, <3>1, OthersKnow
    <2>3. CASE job[q].op = "request"
      <3>1. /\ job[q].token \in Token \ Sent
            /\ \A p \in Request \ {q} : job[p].token # job[q].token
        BY <2>1, <2>3 DEF Knows, TokenIsNew
      <3>2. job[q].token # Nothing /\ NoJob.token = Nothing
        BY <3>1 DEF NothingIsNothing, NoJob
      <3>3. job[q].token \notin Sent'
        BY <3>1
      <3>4. \A p \in Request \ {q} : job'[p].token # job[q].token
        BY <1>2, <3>1, <3>2
      <3>5. LeavesTokens(q)
        BY <1>3, <3>3, <3>4 DEF LeavesTokens
      <3> QED BY <1>2, <3>5, OthersKnow
    <2> QED BY <2>2, <2>3
  <1> QED BY <1>4, <1>5, <1>6, <1>7 DEF IInv

\* The request goes on without writing rows; "mine" are the locks it then
\* holds and "j" its bookkeeping.
LEMMA GoOnKeeps ==
  ASSUME IInv, NEW r \in Request, NEW label \in Label, NEW mine, NEW j \in Job,
         UNCHANGED rows, Goto(r, label), locks' = [locks EXCEPT ![r] = mine],
         job' = [job EXCEPT ![r] = j], j.op = job[r].op,
         j.token = job[r].token, j.before = job[r].before,
         mine \subseteq Open, \A q \in Request \ {r} : mine \cap locks[q] = {},
         label \in Completing => mine = {j.token},
         label \notin Completing \cup {"insert"} => mine = {},
         label = "commit" =>
           \A s \in Session :
             session[s].status \in {"LIVE", "EXPIRED"} => s \in j.seen
  PROVE  IInv'
  <1>1. TypeOK /\ LocksExclusive /\ \A q \in Request : Knows(q)
    BY DEF IInv
  <1>2. /\ pc'[r] = label /\ job'[r] = j /\ locks'[r] = mine
        /\ \A q \in Request \ {r} :
             pc'[q] = pc[q] /\ job'[q] = job[q] /\ locks'[q] = locks[q]
        /\ pc' \in [Request -> Label] /\ job' \in [Request -> Job]
        /\ locks' \in [Request -> SUBSET Token]
    BY <1>1 DEF TypeOK, Goto, Open
  <1>3. /\ UNCHANGED <<password, session, resetToken>>
        /\ Open' = Open /\ Sent' = Sent
    BY DEF rows, Open, Sent
  <1>4. TypeOK'
    <2>1. ASSUME NEW q \in Request, pc'[q] \in Completing
          PROVE  job'[q].token \in Open'
      BY <1>1, <1>2, <1>3, <2>1 DEF TypeOK, Completing
    <2> QED BY <1>1, <1>2, <1>3, <2>1 DEF TypeOK, Completing
  <1>5. LocksExclusive'
    BY <1>1, <1>2 DEF LocksExclusive
  <1>6. Knows(r)'
    <2>1. LocksAreOpen(r)'
      BY <1>2, <1>3 DEF LocksAreOpen
    <2>2. TokenIsNew(r)'
      <3>1. TokenIsNew(r)
        BY <1>1 DEF Knows
      <3>2. \A q \in Request \ {r} : job'[q].token = job[q].token
        BY <1>2
      <3>3. job'[r].op = job[r].op /\ job'[r].token = job[r].token
        BY <1>2
      <3> QED BY <1>3, <3>1, <3>2, <3>3 DEF TokenIsNew
    <2>3. j.before \subseteq Session
      BY DEF Job
    <2>4. EarlierAreSeen(r)'
      BY <1>1, <1>2, <1>3, <2>3 DEF Knows, EarlierAreSeen
    <2>5. NamesToken(r)'
      BY <1>1, <1>2 DEF Knows, NamesToken
    <2> QED BY <2>1, <2>2, <2>4, <2>5 DEF Knows
  <1>7. ASSUME NEW q \in Request \ {r} PROVE Knows(q)'
    <2>1. SessionsGoOn
      BY <1>3 DEF SessionsGoOn
    <2>2. \A p \in Request : job'[p].token = job[p].token
      BY <1>2
    <2>3. LeavesTokens(q)
      BY <1>1, <1>3, <2>2 DEF LeavesTokens, Knows, TokenIsNew
    <2> QED BY <1>2, <2>1, <2>3, OthersKnow
  <1> QED BY <1>4, <1>5, <1>6, <1>7 DEF IInv

\* A step that is nobody's: sessions end, tokens expire.
LEMMA RowsKeep ==
  ASSUME IInv, SessionsGoOn, UNCHANGED <<password, locks, pc, job>>,
         session' \in [Session -> SessionRow],
         resetToken' \in [Token -> TokenRow], Open' = Open, Sent' = Sent
  PROVE  IInv'
  <1>1. TypeOK /\ LocksExclusive /\ \A q \in Request : Knows(q)
    BY DEF IInv
  <1>2. TypeOK' /\ LocksExclusive'
    BY <1>1 DEF TypeOK, LocksExclusive
  <1>3. ASSUME NEW q \in Request PROVE Knows(q)'
    <2>1. LeavesTokens(q)
      BY <1>1 DEF LeavesTokens, Knows, TokenIsNew
    <2> QED BY <2>1, OthersKnow
  <1> QED BY <1>2, <1>3 DEF IInv

\* A revocation ends sessions, and revives none.
LEMMA RevokedGoOn ==
  ASSUME TypeOK, NEW S, session' = Revoked(S)
  PROVE  /\ session' \in [Session -> SessionRow]
         /\ SessionsGoOn
         /\ \A s \in S \cap Session : session'[s].status # "LIVE"
  <1>1. \A s \in Session : session[s] \in SessionRow
    BY DEF TypeOK
  <1>2. \A s \in Session :
          [session[s] EXCEPT !.status = "REVOKED"] \in SessionRow
    BY <1>1 DEF SessionRow
  <1>3. \A s \in Session : session'[s] \in SessionRow
    BY <1>1, <1>2 DEF Revoked
  <1>4. \A s \in Session :
          session'[s].status = IF s \in S /\ session[s].status \in {"LIVE", "EXPIRED"}
                               THEN "REVOKED" ELSE session[s].status
    BY <1>1 DEF Revoked, SessionRow
  <1> QED BY <1>3, <1>4 DEF Revoked, SessionsGoOn

---------------------------------------------------------------------------
(* Every action *)

\* A request that arrives knows nothing yet that could turn false.
LEMMA ArriveKeeps ==
  ASSUME NothingIsNothing, IInv, NEW r \in Request, Arrive(r)
  PROVE  IInv'
  <1>1. TypeOK
    BY DEF IInv
  <1>2. CASE RequestLogin(r)
    <2>1. PICK p \in 0..password :
            Admit(r, [NoJob EXCEPT !.op = "login", !.knows = p], "verify")
      BY <1>2 DEF RequestLogin
    <2> DEFINE j == [NoJob EXCEPT !.op = "login", !.knows = p]
    <2>2. j \in Job /\ j.op = "login" /\ j.token = Nothing /\ j.before = {}
      <3>1. p \in Nat
        BY <1>1, <2>1 DEF TypeOK
      <3> QED BY <3>1 DEF NoJob, Job
    <2>3. "verify" \in Label \ (Completing \cup {"insert", "commit"})
      BY DEF Label, Completing
    <2> HIDE DEF j
    <2> QED BY <2>1, <2>2, <2>3, AdmitKeeps DEF j
  <1>3. CASE RequestLogout(r)
    <2>1. PICK s \in Live :
            Admit(r, [NoJob EXCEPT !.op = "logout", !.session = s], "close")
      BY <1>3 DEF RequestLogout
    <2> DEFINE j == [NoJob EXCEPT !.op = "logout", !.session = s]
    <2>2. j \in Job /\ j.op = "logout" /\ j.token = Nothing /\ j.before = {}
      BY <1>1, <2>1 DEF NoJob, Job, Live
    <2>3. "close" \in Label \ (Completing \cup {"insert", "commit"})
      BY DEF Label, Completing
    <2> HIDE DEF j
    <2> QED BY <2>1, <2>2, <2>3, AdmitKeeps DEF j
  <1>4. CASE RequestReset(r)
    <2>1. PICK t \in Token :
            /\ Fresh(t)
            /\ Admit(r, [NoJob EXCEPT !.op = "request", !.token = t], "revoke")
      BY <1>4 DEF RequestReset
    <2> DEFINE j == [NoJob EXCEPT !.op = "request", !.token = t]
    <2>2. j \in Job /\ j.op = "request" /\ j.token = t /\ j.before = {}
      BY <1>1, <2>1 DEF NoJob, Job
    <2>3. "revoke" \in Label \ (Completing \cup {"insert", "commit"})
      BY DEF Label, Completing
    <2> HIDE DEF j
    <2> QED BY <2>1, <2>2, <2>3, AdmitKeeps DEF j
  <1>5. CASE RequestComplete(r)
    <2>1. PICK t \in Sent :
            Admit(r, [NoJob EXCEPT !.op = "complete", !.token = t,
                                   !.before = Live], "lock")
      BY <1>5 DEF RequestComplete
    <2> DEFINE j == [NoJob EXCEPT !.op = "complete", !.token = t,
                                  !.before = Live]
    <2>2. /\ j \in Job /\ j.op = "complete" /\ j.token = t /\ j.before = Live
          /\ t \in Token
      BY <1>1, <2>1 DEF NoJob, Job, Live, Sent
    <2>3. "lock" \in Label \ (Completing \cup {"insert", "commit"})
      BY DEF Label, Completing
    <2> HIDE DEF j
    <2> QED BY <2>1, <2>2, <2>3, AdmitKeeps DEF j
  <1> QED BY <1>2, <1>3, <1>4, <1>5 DEF Arrive

\* A refused request rolls back: rows stay, and its locks are released.
LEMMA RefuseKeeps ==
  ASSUME NothingIsNothing, IInv, NEW r \in Request, Refuse(r)
  PROVE  IInv'
  <1>1. UNCHANGED <<password, session, resetToken>> /\ Answer(r)
    BY DEF Refuse, rows
  <1>2. Open' = Open /\ Sent' = Sent /\ SessionsGoOn
    BY <1>1 DEF Open, Sent, SessionsGoOn
  <1>3. password' \in Nat /\ session' \in [Session -> SessionRow]
        /\ resetToken' \in [Token -> TokenRow]
    BY <1>1 DEF IInv, TypeOK
  <1> QED BY <1>1, <1>2, <1>3, AnswerKeeps

\* A login opens a session that was not there when any reset was submitted.
LEMMA LoginKeeps ==
  ASSUME NothingIsNothing, IInv, NEW r \in Request, LoginVerify(r) \/ LoginOpen(r)
  PROVE  IInv'
  <1>1. TypeOK /\ job[r] \in Job /\ Knows(r)
    BY DEF IInv, TypeOK
  <1>2. CASE LoginVerify(r)
    <2>1. CASE Refuse(r)
      BY <2>1, RefuseKeeps
    <2>2. CASE Goto(r, "open") /\ UNCHANGED <<rows, locks, job>>
      <3> DEFINE j == job[r]
                 mine == locks[r]
      <3>1. mine = {}
        BY <1>1, <1>2 DEF LoginVerify, At, Knows, LocksAreOpen, Completing
      <3>2. locks' = [locks EXCEPT ![r] = mine] /\ job' = [job EXCEPT ![r] = j]
        BY <1>1, <2>2, <3>1 DEF TypeOK
      <3>3. "open" \in Label \ (Completing \cup {"insert"}) /\ "open" # "commit"
        BY DEF Label, Completing
      <3>4. UNCHANGED rows /\ Goto(r, "open")
        BY <2>2
      <3>5. j \in Job /\ j = job[r]
        BY <1>1
      <3>6. mine \subseteq Open /\ \A q \in Request \ {r} : mine \cap locks[q] = {}
        BY <3>1
      <3> HIDE DEF j, mine
      <3> QED BY <3>1, <3>2, <3>3, <3>4, <3>5, <3>6, GoOnKeeps
    <2> QED BY <1>2, <2>1, <2>2 DEF LoginVerify
  <1>3. CASE LoginOpen(r)
    <2> DEFINE row == [status |-> "LIVE", knew |-> job[r].knows]
    <2>1. PICK s \in Session :
            session[s].status = "NONE" /\ session' = [session EXCEPT ![s] = row]
      BY <1>3 DEF LoginOpen
    <2>2. row \in SessionRow /\ row.status = "LIVE"
      BY <1>1 DEF SessionRow, Job
    <2>3. UNCHANGED <<password, resetToken>> /\ Answer(r)
      BY <1>3 DEF LoginOpen
    <2> HIDE DEF row
    <2>4. session' \in [Session -> SessionRow] /\ SessionsGoOn
      BY <1>1, <2>1, <2>2 DEF TypeOK, SessionsGoOn
    <2>5. Open' = Open /\ Sent' = Sent
      BY <2>3 DEF Open, Sent
    <2>6. password' \in Nat /\ resetToken' \in [Token -> TokenRow]
      BY <1>1, <2>3 DEF TypeOK
    <2> QED BY <2>3, <2>4, <2>5, <2>6, AnswerKeeps
  <1> QED BY <1>2, <1>3

\* A logout ends one session.
LEMMA LogoutKeeps ==
  ASSUME NothingIsNothing, IInv, NEW r \in Request, Logout(r)
  PROVE  IInv'
  <1>1. session' \in [Session -> SessionRow] /\ SessionsGoOn
    BY RevokedGoOn DEF Logout, IInv
  <1>2. Open' = Open /\ Sent' = Sent /\ Answer(r)
    BY DEF Logout, Open, Sent
  <1>3. password' \in Nat /\ resetToken' \in [Token -> TokenRow]
    BY DEF Logout, IInv, TypeOK
  <1> QED BY <1>1, <1>2, <1>3, AnswerKeeps

\* The UPDATE of the open tokens has waited for every completion.
LEMMA RevokeOpenKeeps ==
  ASSUME IInv, NEW r \in Request, RevokeOpen(r)
  PROVE  IInv'
  <1>1. TypeOK /\ job[r] \in Job
    BY DEF IInv, TypeOK
  <1>2. /\ UNCHANGED rows /\ Goto(r, "insert")
        /\ locks' = [locks EXCEPT ![r] = Open]
        /\ job' = [job EXCEPT ![r] = job[r]]
    BY <1>1 DEF RevokeOpen, TypeOK
  <1>3. \A q \in Request \ {r} : Open \cap locks[q] = {}
    BY DEF RevokeOpen, Free
  <1>4. "insert" \in Label \ Completing /\ "insert" # "commit"
    BY DEF Label, Completing
  <1> QED BY <1>1, <1>2, <1>3, <1>4, GoOnKeeps

\* The tokens it has locked are closed, its own is open.
LEMMA InsertedTokens ==
  ASSUME IInv, NEW r \in Request, InsertToken(r)
  PROVE  /\ resetToken' \in [Token -> TokenRow]
         /\ job[r].token \in Token \ Sent
         /\ Open' = (Open \ locks[r]) \cup {job[r].token}
         /\ Sent' = Sent \cup {job[r].token}
         /\ \A t \in Sent \ Open : resetToken'[t] = resetToken[t]
  <1>1. TypeOK /\ Knows(r) /\ job[r].op = "request" /\ pc[r] = "insert"
    BY DEF IInv, InsertToken, At
  <1>2. job[r].token \in Token \ Sent /\ locks[r] \subseteq Open
    BY <1>1 DEF Knows, TokenIsNew, LocksAreOpen
  <1>3. \A t \in Token : resetToken[t] \in TokenRow
    BY <1>1 DEF TypeOK
  <1>4. \A t \in Token :
          /\ [resetToken[t] EXCEPT !.status = "REVOKED"] \in TokenRow
          /\ [resetToken[t] EXCEPT !.status = "REVOKED"].status = "REVOKED"
    BY <1>3 DEF TokenRow
  <1> DEFINE new == [status |-> "PENDING", expired |-> FALSE]
             closed(t) == [resetToken[t] EXCEPT !.status = "REVOKED"]
  <1>5. new \in TokenRow /\ new.status = "PENDING"
    BY DEF TokenRow
  <1>6. resetToken' = [t \in Token |->
          IF t \in locks[r] THEN closed(t)
          ELSE IF t = job[r].token THEN new ELSE resetToken[t]]
    BY DEF InsertToken
  <1>7. \A t \in Token : closed(t) \in TokenRow /\ closed(t).status = "REVOKED"
    BY <1>4
  <1> HIDE DEF new, closed
  <1>8. resetToken' \in [Token -> TokenRow]
    BY <1>3, <1>5, <1>6, <1>7
  <1>9. \A t \in Token :
          resetToken'[t].status =
            IF t \in locks[r] THEN "REVOKED"
            ELSE IF t = job[r].token THEN "PENDING" ELSE resetToken[t].status
    BY <1>5, <1>6, <1>7
  <1>10. \A t \in Sent \ Open : resetToken'[t] = resetToken[t]
    BY <1>2, <1>6 DEF Sent
  <1>11. Open \subseteq Sent /\ locks[r] \subseteq Sent
    BY <1>2 DEF Open, Sent
  <1>12. Open' = (Open \ locks[r]) \cup {job[r].token}
    BY <1>2, <1>9, <1>11 DEF Open
  <1>13. Sent' = Sent \cup {job[r].token}
    BY <1>2, <1>9, <1>11 DEF Sent
  <1> QED BY <1>2, <1>8, <1>10, <1>12, <1>13

\* The token inserted is new, and the ones its request has locked are revoked.
LEMMA InsertTokenKeeps ==
  ASSUME NothingIsNothing, IInv, NEW r \in Request, InsertToken(r)
  PROVE  IInv'
  <1>1. UNCHANGED <<password, session>> /\ Answer(r) /\ job[r].op = "request"
    BY DEF InsertToken, At
  <1>2. password' \in Nat /\ session' \in [Session -> SessionRow] /\ SessionsGoOn
    BY <1>1 DEF IInv, TypeOK, SessionsGoOn
  <1>3. /\ resetToken' \in [Token -> TokenRow]
        /\ Open \subseteq Open' \cup locks[r]
        /\ \A t \in Sent' \ Sent : t = job[r].token
    BY InsertedTokens
  <1> QED BY <1>1, <1>2, <1>3, AnswerKeeps

\* A completion locks an open token that nobody else has locked.
LEMMA CompleteLockKeeps ==
  ASSUME NothingIsNothing, IInv, NEW r \in Request, CompleteLock(r)
  PROVE  IInv'
  <1>1. TypeOK /\ job[r] \in Job
    BY DEF IInv, TypeOK
  <1> DEFINE t == job[r].token
  <1>2. CASE Refuse(r)
    BY <1>2, RefuseKeeps
  <1>3. CASE /\ Usable(t) /\ Goto(r, "credential")
             /\ locks' = [locks EXCEPT ![r] = {t}] /\ UNCHANGED <<rows, job>>
    <2> DEFINE j == job[r]
               mine == {t}
    <2>1. /\ UNCHANGED rows /\ Goto(r, "credential") /\ Free(r, t)
          /\ locks' = [locks EXCEPT ![r] = mine]
          /\ job[r].op = "complete"
      BY <1>3 DEF CompleteLock, At
    <2>2. t \in Open
      BY <1>3, <2>1 DEF IInv, Knows, NamesToken, Usable, Open
    <2>3. "credential" \in Label \cap Completing /\ "credential" # "commit"
      BY DEF Label, Completing
    <2>4. j \in Job /\ j = job[r] /\ job' = [job EXCEPT ![r] = j]
      BY <1>1, <1>3 DEF TypeOK
    <2>5. /\ mine \subseteq Open /\ mine = {j.token}
          /\ \A q \in Request \ {r} : mine \cap locks[q] = {}
      BY <2>1, <2>2 DEF Free
    <2> HIDE DEF j, mine
    <2> QED BY <2>1, <2>3, <2>4, <2>5, GoOnKeeps
  <1> QED BY <1>2, <1>3 DEF CompleteLock

\* The statements of complete before its COMMIT note what they see.
LEMMA CompleteGoesOn ==
  ASSUME IInv, NEW r \in Request, CompleteCredential(r) \/ CompleteSessions(r)
  PROVE  IInv'
  <1>1. TypeOK /\ job[r] \in Job /\ Knows(r) /\ LocksExclusive
    BY DEF IInv, TypeOK
  <1> DEFINE mine == locks[r]
  <1>2. pc[r] \in Completing
    BY DEF CompleteCredential, CompleteSessions, At, Completing
  <1>3. mine = {job[r].token} /\ mine \subseteq Open
    BY <1>1, <1>2 DEF Knows, LocksAreOpen
  <1>4. \A q \in Request \ {r} : mine \cap locks[q] = {}
    BY <1>1 DEF LocksExclusive
  <1>5. UNCHANGED rows /\ locks' = [locks EXCEPT ![r] = mine]
    BY <1>1 DEF CompleteCredential, CompleteSessions, TypeOK
  <1>6. {"sessions", "commit"} \subseteq Label \cap Completing
    BY DEF Label, Completing
  <1>7. CASE CompleteCredential(r)
    <2> DEFINE j == job[r]
    <2>1. j \in Job /\ j = job[r] /\ job' = [job EXCEPT ![r] = j]
      BY <1>1, <1>7 DEF CompleteCredential, TypeOK
    <2>2. Goto(r, "sessions") /\ "sessions" # "commit" /\ mine = {j.token}
      BY <1>3, <1>7 DEF CompleteCredential
    <2> HIDE DEF j, mine
    <2> QED BY <1>3, <1>4, <1>5, <1>6, <2>1, <2>2, GoOnKeeps
  <1>8. CASE CompleteSessions(r)
    <2> DEFINE S == {s \in Session : session[s].status \in {"LIVE", "EXPIRED"}}
               j == [job[r] EXCEPT !.seen = S]
    <2>1. /\ j \in Job /\ j.op = job[r].op /\ j.token = job[r].token
          /\ j.before = job[r].before /\ j.seen = S
      BY <1>1 DEF Job
    <2>2. job' = [job EXCEPT ![r] = j] /\ Goto(r, "commit") /\ mine = {j.token}
      BY <1>3, <1>8, <2>1 DEF CompleteSessions
    <2>3. \A s \in Session :
            session[s].status \in {"LIVE", "EXPIRED"} => s \in j.seen
      BY <2>1
    <2> HIDE DEF j, mine
    <2> QED BY <1>3, <1>4, <1>5, <1>6, <2>1, <2>2, <2>3, GoOnKeeps
  <1> QED BY <1>7, <1>8

\* A completion commits: its token, open until then, is spent.
LEMMA SpentToken ==
  ASSUME IInv, NEW r \in Request, CompleteCommit(r)
  PROVE  /\ resetToken' \in [Token -> TokenRow]
         /\ locks[r] = {job[r].token} /\ job[r].token \in Open
         /\ resetToken'[job[r].token].status = "USED"
         /\ Open' = Open \ {job[r].token} /\ Sent' = Sent
         /\ \A t \in Token \ {job[r].token} : resetToken'[t] = resetToken[t]
  <1>1. TypeOK /\ Knows(r) /\ pc[r] \in Completing
    BY DEF IInv, CompleteCommit, At, Completing
  <1> DEFINE t == job[r].token
             new == [resetToken[t] EXCEPT !.status = "USED"]
  <1>2. locks[r] = {t} /\ t \in Open /\ t \in Token
    BY <1>1 DEF Knows, LocksAreOpen, Open
  <1>3. new \in TokenRow /\ new.status = "USED" /\ resetToken[t].status = "PENDING"
    BY <1>1, <1>2 DEF TypeOK, TokenRow, Open
  <1>4. resetToken' = [resetToken EXCEPT ![t] = new]
    BY DEF CompleteCommit
  <1> HIDE DEF t, new
  <1>5. /\ resetToken' \in [Token -> TokenRow] /\ resetToken'[t] = new
        /\ \A u \in Token \ {t} : resetToken'[u] = resetToken[u]
    BY <1>1, <1>2, <1>3, <1>4 DEF TypeOK
  <1>6. Open' = Open \ {t} /\ Sent' = Sent
    BY <1>2, <1>3, <1>5 DEF Open, Sent
  <1> QED BY <1>2, <1>3, <1>5, <1>6 DEF t

\* The COMMIT of complete spends the token it has held.
LEMMA CompleteCommitKeeps ==
  ASSUME NothingIsNothing, IInv, NEW r \in Request, CompleteCommit(r)
  PROVE  IInv'
  <1>1. session' \in [Session -> SessionRow] /\ SessionsGoOn
    BY RevokedGoOn DEF CompleteCommit, IInv
  <1>2. password' \in Nat /\ Answer(r)
    BY DEF CompleteCommit, IInv, TypeOK
  <1>3. /\ resetToken' \in [Token -> TokenRow]
        /\ Open \subseteq Open' \cup locks[r] /\ Sent' \subseteq Sent
    BY SpentToken
  <1> QED BY <1>1, <1>2, <1>3, AnswerKeeps

\* Sessions that are revoked or expire elsewhere leave open tokens alone, and a
\* token expires without being spent.
LEMMA MeanwhileKeeps ==
  ASSUME IInv,
         \/ RevokeAllForIdentity
         \/ \E s \in Session : ExpireSession(s)
         \/ \E t \in Token : ExpireToken(t)
  PROVE  IInv' /\ Open' = Open /\ Sent' = Sent
  <1>1. TypeOK
    BY DEF IInv
  <1>2. CASE RevokeAllForIdentity
    <2>1. session' \in [Session -> SessionRow] /\ SessionsGoOn
      BY <1>1, <1>2, RevokedGoOn DEF RevokeAllForIdentity
    <2>2. Open' = Open /\ Sent' = Sent /\ resetToken' \in [Token -> TokenRow]
      BY <1>1, <1>2 DEF RevokeAllForIdentity, Open, Sent, TypeOK
    <2>3. UNCHANGED <<password, locks, pc, job>>
      BY <1>2 DEF RevokeAllForIdentity
    <2> QED BY <2>1, <2>2, <2>3, RowsKeep
  <1>3. ASSUME NEW s \in Session, ExpireSession(s)
        PROVE  IInv' /\ Open' = Open /\ Sent' = Sent
    <2> DEFINE new == [session[s] EXCEPT !.status = "EXPIRED"]
    <2>1. /\ new \in SessionRow /\ new.status = "EXPIRED"
          /\ session[s].status = "LIVE" /\ session' = [session EXCEPT ![s] = new]
      BY <1>1, <1>3 DEF ExpireSession, Live, TypeOK, SessionRow
    <2> HIDE DEF new
    <2>2. session' \in [Session -> SessionRow] /\ SessionsGoOn
      BY <1>1, <2>1 DEF SessionsGoOn, TypeOK
    <2>3. Open' = Open /\ Sent' = Sent /\ resetToken' \in [Token -> TokenRow]
      BY <1>1, <1>3 DEF ExpireSession, Open, Sent, TypeOK
    <2>4. UNCHANGED <<password, locks, pc, job>>
      BY <1>3 DEF ExpireSession
    <2> QED BY <2>2, <2>3, <2>4, RowsKeep
  <1>4. ASSUME NEW t \in Token, ExpireToken(t)
        PROVE  IInv' /\ Open' = Open /\ Sent' = Sent
    <2> DEFINE new == [resetToken[t] EXCEPT !.expired = TRUE]
    <2>1. /\ new \in TokenRow /\ new.status = "PENDING"
          /\ resetToken[t].status = "PENDING"
          /\ resetToken' = [resetToken EXCEPT ![t] = new]
      <3>1. resetToken[t] \in TokenRow /\ resetToken[t].status = "PENDING"
        BY <1>1, <1>4 DEF ExpireToken, Open, TypeOK
      <3>2. new \in TokenRow /\ new.status = "PENDING"
        BY <3>1 DEF TokenRow
      <3> QED BY <1>4, <3>1, <3>2 DEF ExpireToken
    <2> HIDE DEF new
    <2>2. resetToken' \in [Token -> TokenRow]
          /\ \A u \in Token : resetToken'[u].status = resetToken[u].status
      BY <1>1, <2>1 DEF TypeOK
    <2>3. Open' = Open /\ Sent' = Sent
      BY <2>2 DEF Open, Sent
    <2>4. UNCHANGED <<password, session, locks, pc, job>>
      BY <1>4 DEF ExpireToken
    <2>5. session' \in [Session -> SessionRow] /\ SessionsGoOn
      BY <1>1, <2>4 DEF TypeOK, SessionsGoOn
    <2> QED BY <2>2, <2>3, <2>4, <2>5, RowsKeep
  <1> QED BY <1>2, <1>3, <1>4

\* Every step keeps IInv.
LEMMA NextIInv ==
  ASSUME NothingIsNothing, IInv, [Next]_vars
  PROVE  IInv'
  <1>1. CASE UNCHANGED vars
    BY <1>1 DEF IInv, TypeOK, LocksExclusive, Knows, LocksAreOpen, TokenIsNew,
       NamesToken, EarlierAreSeen, Open, Sent, vars
  <1>2. ASSUME NEW r \in Request, Arrive(r) \/ Lose(r)
        PROVE  IInv'
    BY <1>2, ArriveKeeps, RefuseKeeps DEF Lose
  <1>3. ASSUME NEW r \in Request, Serve(r)
        PROVE  IInv'
    BY <1>3, LoginKeeps, LogoutKeeps, RevokeOpenKeeps, InsertTokenKeeps,
       CompleteLockKeeps, CompleteGoesOn, CompleteCommitKeeps DEF Serve
  <1> QED BY <1>1, <1>2, <1>3, MeanwhileKeeps DEF Next

\* IInv is inductive.
THEOREM InductiveInvariant == ASSUME NothingIsNothing PROVE Spec => []IInv
  <1>1. IInv /\ [Next]_vars => IInv'
    BY NextIInv
  <1> QED BY InitIInv, <1>1, PTL DEF Spec

\* A completion's token stays open from its lock to its COMMIT, whoever else
\* asks for, revokes or uses tokens; and every variable keeps its type.
THEOREM TypeCorrect == ASSUME NothingIsNothing PROVE Spec => []TypeOK
  <1>1. IInv => TypeOK
    BY DEF IInv
  <1> QED BY InductiveInvariant, <1>1, PTL

---------------------------------------------------------------------------
(* What changes the password and the tokens *)

\* The steps that write no token, and those that write no password.
LEMMA TokensKept ==
  ASSUME IInv, [Next]_vars
  PROVE  \/ resetToken' = resetToken
         \/ \E r \in Request : InsertToken(r) \/ CompleteCommit(r)
         \/ \E t \in Token : ExpireToken(t)
  BY DEF Next, Arrive, Serve, Lose, Refuse, vars, rows, RequestLogin,
     RequestLogout, RequestReset, RequestComplete, Admit, LoginVerify, LoginOpen,
     Logout, RevokeOpen, CompleteLock, CompleteCredential, CompleteSessions,
     RevokeAllForIdentity, ExpireSession

\* The password changes with the COMMIT of a completion only.
LEMMA PasswordKept ==
  ASSUME IInv, [Next]_vars, password' # password
  PROVE  \E r \in Request : CompleteCommit(r)
  BY DEF Next, Arrive, Serve, Lose, Refuse, vars, rows, RequestLogin,
     RequestLogout, RequestReset, RequestComplete, Admit, LoginVerify, LoginOpen,
     Logout, RevokeOpen, InsertToken, CompleteLock, CompleteCredential,
     CompleteSessions, RevokeAllForIdentity, ExpireSession, ExpireToken

\* A reset token is good for one password change (password-reset.test.ts 66),
\* however many completions carry it at once: complete commits with the token
\* that its FOR UPDATE has kept open.
THEOREM TokenSpentOnce ==
  ASSUME NothingIsNothing PROVE Spec => PasswordChangeSpendsToken
  <1>1. ASSUME IInv, [Next]_vars PROVE PasswordChangeStep
    <2>1. ASSUME password' # password
          PROVE  \E t \in Open : resetToken'[t].status = "USED"
      BY <1>1, <2>1, PasswordKept, SpentToken
    <2>2. ASSUME NEW t \in Sent \ Open
          PROVE  resetToken'[t].status = resetToken[t].status
      <3>1. CASE resetToken' = resetToken
        BY <3>1
      <3>2. ASSUME NEW r \in Request, InsertToken(r) \/ CompleteCommit(r)
            PROVE  resetToken'[t].status = resetToken[t].status
        <4>1. t \in Token
          BY DEF Sent
        <4> QED BY <1>1, <3>2, <4>1, InsertedTokens, SpentToken
      <3>3. ASSUME NEW u \in Token, ExpireToken(u)
            PROVE  resetToken'[t].status = resetToken[t].status
        <4>1. u # t /\ t \in Token /\ resetToken \in [Token -> TokenRow]
          BY <1>1, <3>3 DEF ExpireToken, Sent, IInv, TypeOK
        <4> QED BY <3>3, <4>1 DEF ExpireToken
      <3> QED BY <1>1, <3>1, <3>2, <3>3, TokensKept
    <2> QED BY <2>1, <2>2 DEF PasswordChangeStep
  <1> QED BY InductiveInvariant, <1>1, PTL DEF Spec, PasswordChangeSpendsToken

\* When a new password takes effect, no session is live that was live when
\* the reset was submitted (SEC-15): whatever logs in, logs out and expires in
\* between, complete revokes what its UPDATE saw under the token's lock.
THEOREM ResetEndsSessions ==
  ASSUME NothingIsNothing PROVE Spec => ResetEndsEarlierSessions
  <1>1. ASSUME IInv, [Next]_vars, password' # password
        PROVE  \E r \in Request :
                 /\ At(r, "complete", "commit")
                 /\ \A s \in job[r].before : session'[s].status # "LIVE"
    <2>1. PICK r \in Request : CompleteCommit(r)
      BY <1>1, PasswordKept
    <2>2. TypeOK /\ EarlierAreSeen(r) /\ At(r, "complete", "commit")
      BY <1>1, <2>1 DEF IInv, Knows, CompleteCommit
    <2>3. /\ SessionsGoOn /\ session' \in [Session -> SessionRow]
          /\ \A s \in job[r].seen \cap Session : session'[s].status # "LIVE"
      BY <2>1, <2>2, RevokedGoOn DEF CompleteCommit
    <2>4. ASSUME NEW s \in job[r].before
          PROVE  session'[s].status # "LIVE"
      <3>1. s \in Session /\ session[s] \in SessionRow
        BY <2>2 DEF TypeOK, Job
      <3>2. CASE session[s].status \in {"LIVE", "EXPIRED"}
        BY <2>2, <2>3, <3>1, <3>2 DEF EarlierAreSeen, At
      <3>3. CASE session[s].status \notin {"LIVE", "EXPIRED"}
        <4>1. session[s].status = "REVOKED"
          BY <2>2, <3>1, <3>3 DEF EarlierAreSeen, SessionRow
        <4> QED BY <2>3, <3>1, <4>1 DEF SessionsGoOn
      <3> QED BY <3>2, <3>3
    <2> QED BY <2>2, <2>4
  <1>2. IInv /\ [Next]_vars => ResetStep
    BY <1>1 DEF ResetStep
  <1> QED BY InductiveInvariant, <1>2, PTL DEF Spec, ResetEndsEarlierSessions

---------------------------------------------------------------------------
(* How many tokens are open *)

\* Requests that found no open token, and are about to insert theirs.
Inserting == {r \in Request : pc[r] = "insert" /\ locks[r] = {}}

\* The inductive strengthening of OpenTokensBounded: whoever may still add a
\* token without closing another already counts.
RoomLeft ==
  /\ IsFiniteSet(Open)
  /\ Cardinality(Open) + Cardinality(Inserting) <= Cardinality(Request)

\* Finitely many requests are between their revocation and their INSERT.
LEMMA InsertingFinite ==
  ASSUME IsFiniteSet(Request)
  PROVE  /\ IsFiniteSet(Inserting)
         /\ Cardinality(Inserting) \in Nat
         /\ Cardinality(Inserting) <= Cardinality(Request)
         /\ Cardinality(Request) \in Nat
  <1>1. Inserting \subseteq Request
    BY DEF Inserting
  <1> QED BY <1>1, FS_Subset, FS_CardinalityType

\* Fewer open tokens leave no less room.
LEMMA FewerLeaveRoom ==
  ASSUME IsFiniteSet(Request), RoomLeft, Open' \subseteq Open,
         Inserting' \subseteq Inserting
  PROVE  RoomLeft'
  <1>1. IsFiniteSet(Inserting)
    BY InsertingFinite
  <1>2. IsFiniteSet(Open') /\ Cardinality(Open') <= Cardinality(Open)
    BY FS_Subset DEF RoomLeft
  <1>3. IsFiniteSet(Inserting') /\ Cardinality(Inserting') <= Cardinality(Inserting)
    BY <1>1, FS_Subset
  <1>4. /\ Cardinality(Open) \in Nat /\ Cardinality(Open') \in Nat
        /\ Cardinality(Inserting) \in Nat /\ Cardinality(Inserting') \in Nat
        /\ Cardinality(Request) \in Nat
    BY <1>1, <1>2, <1>3, FS_CardinalityType DEF RoomLeft
  <1>5. Cardinality(Open) + Cardinality(Inserting) <= Cardinality(Request)
    BY DEF RoomLeft
  <1>6. Cardinality(Open') + Cardinality(Inserting') <= Cardinality(Request)
    BY <1>2, <1>3, <1>4, <1>5
  <1> QED BY <1>2, <1>6 DEF RoomLeft

\* A request that is going to revoke every open token makes room for its own.
LEMMA RevokeLeavesRoom ==
  ASSUME IsFiniteSet(Request), IInv, RoomLeft, NEW r \in Request, RevokeOpen(r)
  PROVE  RoomLeft'
  <1>1. /\ Open' = Open /\ locks'[r] = Open /\ pc[r] # "insert"
        /\ \A q \in Request \ {r} : locks'[q] = locks[q] /\ pc'[q] = pc[q]
    BY DEF RevokeOpen, rows, Open, At, Goto, IInv, TypeOK
  <1>2. CASE Open = {}
    <2>1. Inserting' \subseteq Request
      BY DEF Inserting
    <2>2. Cardinality(Inserting') <= Cardinality(Request)
          /\ Cardinality(Inserting') \in Nat
      BY <2>1, FS_Subset, FS_CardinalityType
    <2>3. IsFiniteSet(Open') /\ Cardinality(Open') = 0
      BY <1>1, <1>2, FS_EmptySet
    <2> QED BY <2>2, <2>3 DEF RoomLeft
  <1>3. CASE Open # {}
    <2>1. Inserting' \subseteq Inserting
      BY <1>1, <1>3 DEF Inserting
    <2> QED BY <1>1, <2>1, FewerLeaveRoom
  <1> QED BY <1>2, <1>3

\* The token inserted takes the room of the request that inserts it.
LEMMA InsertLeavesRoom ==
  ASSUME IsFiniteSet(Request), IInv, RoomLeft, NEW r \in Request, InsertToken(r)
  PROVE  RoomLeft'
  <1> DEFINE t == job[r].token
  <1>1. t \notin Open /\ Open' = (Open \ locks[r]) \cup {t}
    BY InsertedTokens DEF Sent, Open
  <1>2. /\ pc[r] = "insert" /\ pc'[r] = "idle"
        /\ \A q \in Request \ {r} : locks'[q] = locks[q] /\ pc'[q] = pc[q]
    BY DEF InsertToken, At, Answer, IInv, TypeOK
  <1>3. Inserting' = Inserting \ {r}
    BY <1>2 DEF Inserting
  <1>4. IsFiniteSet(Inserting) /\ IsFiniteSet(Open)
        /\ Cardinality(Inserting) \in Nat /\ Cardinality(Open) \in Nat
        /\ Cardinality(Request) \in Nat
        /\ Cardinality(Open) + Cardinality(Inserting) <= Cardinality(Request)
    BY InsertingFinite, FS_CardinalityType DEF RoomLeft
  <1> HIDE DEF t
  <1>5. CASE locks[r] = {}
    <2>1. r \in Inserting
      BY <1>2, <1>5 DEF Inserting
    <2>2. Cardinality(Inserting') = Cardinality(Inserting) - 1
      BY <1>3, <1>4, <2>1, FS_RemoveElement
    <2>3. Open' = Open \cup {t}
      BY <1>1, <1>5
    <2>4. IsFiniteSet(Open') /\ Cardinality(Open') = Cardinality(Open) + 1
      <3>1. /\ IsFiniteSet(Open \cup {t})
            /\ Cardinality(Open \cup {t}) = Cardinality(Open) + 1
        BY <1>1, <1>4, FS_AddElement
      <3> QED BY <2>3, <3>1
    <2> QED BY <1>4, <2>2, <2>4 DEF RoomLeft
  <1>6. CASE locks[r] # {}
    <2>1. PICK x \in locks[r] : x \in Open
      BY <1>2, <1>6 DEF IInv, Knows, LocksAreOpen
    <2> DEFINE rest == Open \ {x}
    <2>2. IsFiniteSet(rest) /\ Cardinality(rest) = Cardinality(Open) - 1
      BY <1>4, <2>1, FS_RemoveElement
    <2>3. t \notin rest
      BY <1>1
    <2>4. /\ IsFiniteSet(rest \cup {t})
          /\ Cardinality(rest \cup {t}) = Cardinality(rest) + 1
      BY <2>2, <2>3, FS_AddElement
    <2>5. Open' \subseteq rest \cup {t}
      BY <1>1, <2>1
    <2>6. IsFiniteSet(Open') /\ Cardinality(Open') <= Cardinality(rest \cup {t})
      BY <2>4, <2>5, FS_Subset
    <2>7. Inserting' = Inserting
      BY <1>3, <1>6 DEF Inserting
    <2>8. Cardinality(Open') <= Cardinality(Open)
      BY <1>4, <2>2, <2>4, <2>6
    <2>9. Cardinality(Open') \in Nat
      BY <2>6, FS_CardinalityType
    <2> QED BY <1>4, <2>6, <2>7, <2>8, <2>9 DEF RoomLeft
  <1> QED BY <1>5, <1>6

\* No other step opens a token or comes to insert one.
LEMMA OthersTakeNoRoom ==
  ASSUME IInv, [Next]_vars,
         \A r \in Request : ~RevokeOpen(r) /\ ~InsertToken(r)
  PROVE  Open' \subseteq Open /\ Inserting' \subseteq Inserting
  <1>1. TypeOK
    BY DEF IInv
  <1>2. Open' \subseteq Open
    <2>1. CASE resetToken' = resetToken
      BY <2>1 DEF Open
    <2>2. CASE \E r \in Request : CompleteCommit(r)
      BY <2>2, SpentToken
    <2>3. CASE \E t \in Token : ExpireToken(t)
      BY <2>3, MeanwhileKeeps
    <2> QED BY <2>1, <2>2, <2>3, TokensKept
  <1>3. ASSUME NEW r \in Request, NEW label \in Label \ {"insert"},
               pc' = [pc EXCEPT ![r] = label],
               \A q \in Request \ {r} : locks'[q] = locks[q]
        PROVE  Inserting' \subseteq Inserting
    BY <1>1, <1>3 DEF TypeOK, Inserting
  <1>4. ASSUME NEW r \in Request, Answer(r)
        PROVE  Inserting' \subseteq Inserting
    <2>1. "idle" \in Label \ {"insert"}
      BY DEF Label
    <2>2. \A q \in Request \ {r} : locks'[q] = locks[q]
      BY <1>1, <1>4 DEF Answer, TypeOK
    <2> QED BY <1>3, <1>4, <2>1, <2>2 DEF Answer
  <1>5. ASSUME NEW r \in Request, Arrive(r)
        PROVE  Inserting' \subseteq Inserting
    <2>1. {"verify", "close", "revoke", "lock"} \subseteq Label \ {"insert"}
      BY DEF Label
    <2>2. PICK label \in {"verify", "close", "revoke", "lock"} :
            pc' = [pc EXCEPT ![r] = label]
      BY <1>5 DEF Arrive, RequestLogin, RequestLogout, RequestReset,
         RequestComplete, Admit
    <2>3. locks' = locks
      BY <1>5 DEF Arrive, RequestLogin, RequestLogout, RequestReset,
         RequestComplete, Admit
    <2> QED BY <1>3, <2>1, <2>2, <2>3
  <1>6. ASSUME NEW r \in Request, Serve(r)
        PROVE  Inserting' \subseteq Inserting
    <2>1. CASE Answer(r)
      BY <1>4, <2>1
    <2>2. ASSUME ~Answer(r)
          PROVE  /\ \E label \in {"open", "credential", "sessions", "commit"} :
                      pc' = [pc EXCEPT ![r] = label]
                 /\ \A q \in Request \ {r} : locks'[q] = locks[q]
      BY <1>1, <1>6, <2>2
      DEF Serve, LoginVerify, LoginOpen, Logout, CompleteLock, Refuse, Goto,
          CompleteCredential, CompleteSessions, CompleteCommit, TypeOK
    <2>3. {"open", "credential", "sessions", "commit"} \subseteq Label \ {"insert"}
      BY DEF Label
    <2> QED BY <1>3, <2>1, <2>2, <2>3
  <1>7. ASSUME UNCHANGED <<locks, pc>>
        PROVE  Inserting' \subseteq Inserting
    BY <1>7 DEF Inserting
  <1> QED BY <1>2, <1>4, <1>5, <1>6, <1>7
      DEF Next, Lose, Refuse, RevokeAllForIdentity, ExpireSession, ExpireToken, vars

\* Requests that overlap may each leave a token, for none sees the others'
\* before they commit; but however many are made, no more tokens are open than
\* requests run in parallel.
THEOREM TokensBounded ==
  ASSUME NothingIsNothing, IsFiniteSet(Request)
  PROVE  Spec => []OpenTokensBounded
  <1>1. Init => RoomLeft
    <2>1. ASSUME Init PROVE Open = {} /\ Inserting = {}
      BY <2>1 DEF Init, Open, Inserting
    <2>2. IsFiniteSet({}) /\ Cardinality({}) = 0
      BY FS_EmptySet
    <2>3. Cardinality(Request) \in Nat
      BY FS_CardinalityType
    <2>4. 0 + 0 <= Cardinality(Request)
      BY <2>3
    <2> QED BY <2>1, <2>2, <2>4 DEF RoomLeft
  <1>2. IInv /\ RoomLeft /\ [Next]_vars => RoomLeft'
    BY RevokeLeavesRoom, InsertLeavesRoom, OthersTakeNoRoom, FewerLeaveRoom
  <1>3. RoomLeft => OpenTokensBounded
    BY InsertingFinite, FS_CardinalityType DEF RoomLeft, OpenTokensBounded
  <1> QED BY InductiveInvariant, <1>1, <1>2, <1>3, PTL DEF Spec
====
