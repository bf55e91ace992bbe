---------------------------- MODULE PagesProofs ----------------------------
(***************************************************************************)
(* Theorems about the pages of Pages, for all values of the constants.     *)
(* Each of the four has an invariant of its own, kept by every step of it: *)
(* DirectoryInv, CompaniesInv, MembersInv and EntryInv.  The first three   *)
(* make requests alike, and share RequestsInv: what a page changed and     *)
(* does not show is on its way to be shown, unless excused.                *)
(***************************************************************************)
EXTENDS Pages, Integers, FiniteSets, TLAPS

---------------------------------------------------------------------------
(* Requests of a page                                                      *)

\* What the pages that list something have in common.
R == INSTANCE PageRequests WITH View <- {}

IsRow(row) ==
  /\ row \in [stage : {"none", "asked", "answered"}, call : {row.call},
              lists : {row.lists}, touches : {row.touches}, read : {row.read},
              old : {row.old}, ok : BOOLEAN, answer : {row.answer}]
  /\ row.stage = "none" => row = R!NoFlow
  /\ row.stage = "asked" => ~row.ok

IsFlow == flow = [f \in Flow |-> flow[f]] /\ \A f \in Flow : IsRow(flow[f])

\* A list that is to show the view, or a change of it whose answer is to come.
Carries(f, v) ==
  \/ v \in flow[f].lists /\ v \notin flow[f].old
  \/ flow[f].stage = "answered" /\ flow[f].ok /\ v \in flow[f].touches

\* What is not shown and not excused is on its way.
ShownOrPending == \A v \in unseen \ excused : \E f \in Flow : Carries(f, v)

RequestsInv == IsFlow /\ ShownOrPending

LEMMA PendingIsShown == RequestsInv => R!OwnWorkIsShown
  BY DEF RequestsInv, ShownOrPending, Carries, R!OwnWorkIsShown, R!NoFlows,
         R!NoFlow

\* The row of a call that is made.
LEMMA AskedIs ==
  ASSUME NEW call, NEW listed, NEW touched
  PROVE  LET row == R!Asked(call, listed, touched) IN
         /\ IsRow(row) /\ row.stage = "asked" /\ row.call = call
         /\ row.lists = listed /\ row.touches = touched
         /\ row.read = {} /\ row.old = {} /\ row.answer = Nothing
         /\ row # R!NoFlow
  <1> DEFINE row == R!Asked(call, listed, touched)
  <1>1. /\ row.stage = "asked" /\ row.call = call
        /\ row.lists = listed /\ row.touches = touched
        /\ row.read = {} /\ row.old = {} /\ row.answer = Nothing /\ ~row.ok
        /\ R!NoFlow.stage = "none"
    BY DEF R!Asked, R!NoFlow
  <1>2. IsRow(row)
    BY <1>1 DEF IsRow, R!Asked, R!NoFlow
  <1> QED BY <1>1, <1>2

LEMMA NoFlowIs ==
  /\ IsRow(R!NoFlow) /\ R!NoFlow.stage = "none" /\ R!NoFlow.lists = {}
  /\ R!NoFlow.touches = {} /\ R!NoFlow.call = Nothing
  /\ R!NoFlow.read = {} /\ R!NoFlow.old = {}
  BY DEF R!NoFlow, IsRow

\* One flow goes on, and what it was to show is shown, excused, or still to be.
LEMMA FlowStep ==
  ASSUME RequestsInv, NEW f \in Flow, NEW row, IsRow(row),
         flow' = [flow EXCEPT ![f] = row],
         unseen' = unseen, excused \subseteq excused',
         \A v : Carries(f, v) => Carries(f, v)' \/ v \in excused'
  PROVE  /\ RequestsInv' /\ flow'[f] = row
         /\ \A g \in Flow \ {f} : flow'[g] = flow[g]
  <1>1. flow'[f] = row /\ \A g \in Flow \ {f} : flow'[g] = flow[g]
    BY DEF RequestsInv, IsFlow
  <1>2. IsFlow'
    BY <1>1 DEF RequestsInv, IsFlow
  <1>3. ASSUME NEW v \in unseen' \ excused'
        PROVE  \E g \in Flow : Carries(g, v)'
    <2>1. PICK g \in Flow : Carries(g, v)
      BY <1>3 DEF RequestsInv, ShownOrPending
    <2>2. CASE g = f
      BY <2>1, <2>2, <1>3
    <2>3. CASE g # f
      BY <2>1, <2>3, <1>1 DEF Carries
    <2> QED BY <2>2, <2>3
  <1> QED BY <1>1, <1>2, <1>3 DEF RequestsInv, ShownOrPending

LEMMA AskStep ==
  ASSUME RequestsInv, NEW f \in Flow, NEW call, NEW listed, NEW touched,
         R!Ask(f, call, listed, touched)
  PROVE  /\ RequestsInv' /\ flow'[f] = R!Asked(call, listed, touched)
         /\ \A g \in Flow \ {f} : flow'[g] = flow[g]
  <1>1. \A v : ~Carries(f, v)
    BY NoFlowIs DEF Carries, R!Ask
  <1> QED BY <1>1, FlowStep, AskedIs DEF R!Ask

LEMMA TellStep ==
  ASSUME RequestsInv, NEW f \in Flow, NEW answer, flow[f].stage = "asked",
         R!Tell(f, answer)
  PROVE  /\ RequestsInv' /\ flow'[f].stage = "answered" /\ flow'[f].ok
         /\ flow'[f].answer = answer /\ flow'[f].call = flow[f].call
         /\ flow'[f].lists = flow[f].lists /\ flow'[f].touches = flow[f].touches
         /\ flow'[f] # R!NoFlow
         /\ \A g \in Flow \ {f} : flow'[g] = flow[g]
  <1> DEFINE row == [flow[f] EXCEPT !.stage = "answered", !.ok = TRUE,
                       !.answer = answer, !.read = flow[f].lists]
  <1>1. IsRow(flow[f])
    BY DEF RequestsInv, IsFlow
  <1>2. /\ IsRow(row) /\ row.stage = "answered" /\ row.ok
        /\ row.answer = answer /\ row.call = flow[f].call
        /\ row.lists = flow[f].lists /\ row.touches = flow[f].touches
        /\ row.old = flow[f].old /\ row # R!NoFlow
    BY <1>1, NoFlowIs DEF IsRow
  <1>3. flow' = [flow EXCEPT ![f] = row] /\ flow'[f] = row
    BY DEF row, R!Tell, RequestsInv, IsFlow
  <1>4. \A v : Carries(f, v) => Carries(f, v)'
    BY <1>2, <1>3 DEF Carries
  <1> QED BY <1>2, <1>3, <1>4, FlowStep DEF R!Tell

LEMMA RefuseStep ==
  ASSUME RequestsInv, NEW f \in Flow, flow[f].stage = "asked", R!Refuse(f)
  PROVE  /\ RequestsInv' /\ flow'[f].stage = "answered" /\ ~flow'[f].ok
         /\ flow'[f].read = {} /\ flow'[f].call = flow[f].call
         /\ flow'[f].lists = flow[f].lists /\ flow'[f].touches = flow[f].touches
         /\ flow'[f] # R!NoFlow
         /\ \A g \in Flow \ {f} : flow'[g] = flow[g]
  <1> DEFINE row == [flow[f] EXCEPT !.stage = "answered", !.answer = Nothing,
                       !.read = {}, !.old = {}]
  <1>1. IsRow(flow[f])
    BY DEF RequestsInv, IsFlow
  <1>2. /\ IsRow(row) /\ row.stage = "answered" /\ ~row.ok
        /\ row.read = {} /\ row.call = flow[f].call
        /\ row.lists = flow[f].lists /\ row.touches = flow[f].touches
        /\ row.old = {} /\ row # R!NoFlow
    BY <1>1, NoFlowIs DEF IsRow
  <1>3. flow' = [flow EXCEPT ![f] = row] /\ flow'[f] = row
    BY DEF row, R!Refuse, RequestsInv, IsFlow
  <1>4. \A v : Carries(f, v) => Carries(f, v)'
    BY <1>2, <1>3 DEF Carries
  <1> QED BY <1>2, <1>3, <1>4, FlowStep DEF R!Refuse

LEMMA DropStep ==
  ASSUME RequestsInv, NEW f \in Flow, R!Drop(f)
  PROVE  /\ RequestsInv' /\ flow'[f].stage = "answered" /\ ~flow'[f].ok
         /\ flow'[f].read = {} /\ flow'[f].call = flow[f].call
         /\ flow'[f].lists = flow[f].lists /\ flow'[f].touches = flow[f].touches
         /\ flow[f] # R!NoFlow /\ flow'[f] # R!NoFlow
         /\ \A g \in Flow \ {f} : flow'[g] = flow[g]
  <1> DEFINE row == [flow[f] EXCEPT !.ok = FALSE, !.answer = Nothing,
                       !.read = {}, !.old = {}]
  <1>1. IsRow(flow[f]) /\ flow[f].stage = "answered"
    BY DEF RequestsInv, IsFlow, R!Drop
  <1>2. /\ IsRow(row) /\ row.stage = "answered" /\ ~row.ok
        /\ row.read = {} /\ row.call = flow[f].call
        /\ row.lists = flow[f].lists /\ row.touches = flow[f].touches
        /\ row.old = {} /\ row # R!NoFlow /\ flow[f] # R!NoFlow
    BY <1>1, NoFlowIs DEF IsRow
  <1>3. flow' = [flow EXCEPT ![f] = row] /\ flow'[f] = row
    BY DEF row, R!Drop, RequestsInv, IsFlow
  <1>4. \A v : Carries(f, v) => Carries(f, v)' \/ v \in excused'
    BY <1>2, <1>3 DEF Carries, R!Drop
  <1> QED BY <1>2, <1>3, <1>4, FlowStep DEF R!Drop

\* The next call lists what the last one changed.
LEMMA ThenStep ==
  ASSUME RequestsInv, NEW f \in Flow, NEW call, NEW listed,
         R!Then(f, call, listed),
         flow[f].lists = {}, flow[f].touches \subseteq listed
  PROVE  /\ RequestsInv' /\ flow'[f] = R!Asked(call, listed, {})
         /\ \A g \in Flow \ {f} : flow'[g] = flow[g]
  <1>1. flow' = [flow EXCEPT ![f] = R!Asked(call, listed, {})]
        /\ UNCHANGED <<unseen, excused>>
    BY DEF R!Then
  <1>2. flow'[f] = R!Asked(call, listed, {})
    BY <1>1 DEF RequestsInv, IsFlow
  <1>3. \A v : Carries(f, v) => Carries(f, v)'
    BY <1>2, AskedIs DEF Carries
  <1> QED BY <1>1, <1>3, FlowStep, AskedIs

\* A call that failed, or that changes nothing, ends.
LEMMA EndStep ==
  ASSUME RequestsInv, NEW f \in Flow, R!End(f),
         flow[f].lists = {}, ~flow[f].ok \/ flow[f].touches = {}
  PROVE  /\ RequestsInv' /\ flow'[f] = R!NoFlow
         /\ \A g \in Flow \ {f} : flow'[g] = flow[g]
  <1>1. \A v : ~Carries(f, v)
    BY DEF Carries
  <1> QED BY <1>1, FlowStep, NoFlowIs DEF R!End

\* A change: the other flows keep all but what is out of date by now.
LEMMA ChangeStep ==
  ASSUME RequestsInv, NEW f \in Flow, NEW answer, flow[f].stage = "asked",
         R!Change(f, answer)
  PROVE  /\ RequestsInv' /\ flow'[f].stage = "answered" /\ flow'[f].ok
         /\ flow'[f].answer = answer
         /\ \A g \in Flow :
              /\ flow'[g].call = flow[g].call /\ flow'[g].lists = flow[g].lists
              /\ flow'[g].touches = flow[g].touches
              /\ flow'[g].read = flow[g].read
              /\ g # f => /\ flow'[g].stage = flow[g].stage
                          /\ flow'[g].ok = flow[g].ok
                          /\ flow'[g].answer = flow[g].answer
              /\ flow'[g] = R!NoFlow <=> flow[g] = R!NoFlow
  <1> DEFINE views == flow[f].touches
  <1>1. \A g \in Flow : IsRow(flow[g])
    BY DEF RequestsInv, IsFlow
  <1>2. /\ flow' = [g \in Flow |-> flow'[g]]
        /\ flow'[f] = [flow[f] EXCEPT !.stage = "answered", !.ok = TRUE,
                                      !.answer = answer]
        /\ \A g \in Flow \ {f} : flow'[g] =
             [flow[g] EXCEPT !.old = flow[g].old \cup (flow[g].read \cap views)]
        /\ unseen' = unseen \cup views /\ excused' = excused
    BY DEF R!Change
  <1> HIDE DEF views
  <1>3. /\ IsRow(flow'[f]) /\ flow'[f].stage = "answered" /\ flow'[f].ok
        /\ flow'[f].answer = answer /\ flow'[f].call = flow[f].call
        /\ flow'[f].lists = flow[f].lists /\ flow'[f].touches = views
        /\ flow'[f].read = flow[f].read /\ flow'[f].old = flow[f].old
        /\ flow'[f] # R!NoFlow /\ flow[f] # R!NoFlow
    BY <1>1, <1>2, NoFlowIs DEF IsRow, views
  <1>4. ASSUME NEW g \in Flow \ {f}
        PROVE  /\ IsRow(flow'[g]) /\ flow'[g].stage = flow[g].stage
               /\ flow'[g].call = flow[g].call /\ flow'[g].lists = flow[g].lists
               /\ flow'[g].touches = flow[g].touches
               /\ flow'[g].read = flow[g].read /\ flow'[g].ok = flow[g].ok
               /\ flow'[g].answer = flow[g].answer
               /\ flow'[g].old \subseteq flow[g].old \cup views
               /\ flow'[g] = R!NoFlow <=> flow[g] = R!NoFlow
    <2>1. IsRow(flow[g]) /\ flow'[g] =
            [flow[g] EXCEPT !.old = flow[g].old \cup (flow[g].read \cap views)]
      BY <1>1, <1>2
    <2>2. CASE flow[g] = R!NoFlow
      <3>1. flow'[g] = [R!NoFlow EXCEPT !.old = {}]
        BY <2>1, <2>2, NoFlowIs
      <3>2. [R!NoFlow EXCEPT !.old = {}] = R!NoFlow
        <4> DEFINE row == R!NoFlow
        <4>1. IsRow(row) /\ row.old = {}
          BY NoFlowIs
        <4> HIDE DEF row
        <4>2. [row EXCEPT !.old = {}] = row
          BY <4>1 DEF IsRow
        <4> QED BY <4>2 DEF row
      <3> QED BY <2>1, <2>2, <3>1, <3>2
    <2>3. CASE flow[g] # R!NoFlow
      <3>1. flow[g].stage # "none"
        BY <2>1, <2>3 DEF IsRow
      <3> QED BY <2>1, <2>3, <3>1 DEF IsRow, R!NoFlow
    <2> QED BY <2>2, <2>3
  <1>5. IsFlow'
    <2>1. \A g \in Flow : IsRow(flow'[g])
      BY <1>3, <1>4
    <2> QED BY <1>2, <2>1 DEF IsFlow
  <1>6. ASSUME NEW v \in unseen' \ excused'
        PROVE  \E g \in Flow : Carries(g, v)'
    <2>1. CASE v \in views
      BY <1>3, <2>1 DEF Carries
    <2>2. CASE v \notin views
      <3>1. PICK g \in Flow : Carries(g, v)
        BY <1>2, <1>6, <2>2 DEF RequestsInv, ShownOrPending
      <3>2. Carries(g, v)'
        BY <1>3, <1>4, <2>2, <3>1 DEF Carries
      <3> QED BY <3>2
    <2> QED BY <2>1, <2>2
  <1> QED BY <1>3, <1>4, <1>5, <1>6 DEF RequestsInv, ShownOrPending, views

\* A list is shown, and the flow goes on or ends.
LEMMA ShowStep ==
  ASSUME RequestsInv, NEW f \in Flow, NEW row, IsRow(row),
         flow' = [flow EXCEPT ![f] = row],
         R!Showing(f) \/ R!NotShowing(f), flow[f].touches = {}
  PROVE  /\ RequestsInv' /\ flow'[f] = row
         /\ \A g \in Flow \ {f} : flow'[g] = flow[g]
  <1>1. flow'[f] = row /\ \A g \in Flow \ {f} : flow'[g] = flow[g]
    BY DEF RequestsInv, IsFlow
  <1>2. IsFlow'
    BY <1>1 DEF RequestsInv, IsFlow
  <1>3. ASSUME NEW v \in unseen' \ excused'
        PROVE  \E g \in Flow : Carries(g, v)'
    <2>1. v \in unseen \ excused /\ ~Carries(f, v)
      BY <1>3 DEF R!Showing, R!NotShowing, Carries
    <2>2. PICK g \in Flow : Carries(g, v)
      BY <2>1 DEF RequestsInv, ShownOrPending
    <2> QED BY <1>1, <2>1, <2>2 DEF Carries
  <1> QED BY <1>1, <1>2, <1>3 DEF RequestsInv, ShownOrPending

LEMMA RequestsUnchanged ==
  RequestsInv /\ UNCHANGED <<flow, unseen, excused>> => RequestsInv'
  BY DEF RequestsInv, IsFlow, ShownOrPending, Carries

---------------------------------------------------------------------------
(* The directory                                                           *)

Directory == {"directory"}

\* A call of the page.
DirectoryCall(f) ==
  LET call == flow[f].call
      answer == flow[f].answer IN
  /\ call \in D!Call
  /\ call.op = "list" =>
       /\ flow[f].lists = Directory /\ flow[f].touches = {}
       /\ flow[f].ok =>
            /\ DOMAIN answer \subseteq Org
            /\ \A o \in DOMAIN answer : answer[o] \in D!Access
  /\ call.op # "list" => flow[f].lists = {} /\ flow[f].touches = Directory
  /\ call.op = "create" /\ flow[f].ok => answer \in Org
  /\ call.op = "transition" => call.org \in Org /\ call.action \in D!Action

DirectoryCalls == \A f \in Flow : flow[f] # R!NoFlow => DirectoryCall(f)

\* D!TypeOK without the calls.
DirectoryRows ==
  /\ org \in [Org -> D!Access]
  /\ changes \in 0..DirectoryChanges
  /\ DOMAIN items \subseteq Org
  /\ \A o \in DOMAIN items : items[o] \in D!Access
  /\ selected \in Org \cup {Nothing}
  /\ search \in Search
  /\ loading \in BOOLEAN
  /\ panel \in [action : D!Action \cup {"none"}, busy : Flow \cup {Nothing}]
  /\ D!Shown = Nothing => panel = D!NoPanel

DirectoryInv == DirectoryRows /\ RequestsInv /\ DirectoryCalls

\* The requests of the page are those of R.
LEMMA DirectoryRequests ==
  /\ D!NoFlow = R!NoFlow
  /\ \A f, op : D!Waits(f, op) <=> flow[f].stage = "asked" /\ flow[f].call.op = op
  /\ \A f, op : D!Comes(f, op) <=> flow[f].stage = "answered" /\ flow[f].call.op = op
  /\ \A f, op : D!Works(f, op) <=> flow[f].stage = "answered"
                                     /\ flow[f].call.op = op /\ flow[f].ok
  /\ \A f, op : D!Fails(f, op) <=> flow[f].stage = "answered"
                                     /\ flow[f].call.op = op /\ ~flow[f].ok
  /\ \A call, listed, touched :
       D!Asked(call, listed, touched) = R!Asked(call, listed, touched)
  /\ \A f, call, listed, touched :
       D!Ask(f, call, listed, touched) <=> R!Ask(f, call, listed, touched)
  /\ \A f, answer : D!Tell(f, answer) <=> R!Tell(f, answer)
  /\ \A f : D!Refuse(f) <=> R!Refuse(f)
  /\ \A f : D!Drop(f) <=> R!Drop(f)
  /\ \A f : D!End(f) <=> R!End(f)
  /\ \A f : D!Showing(f) <=> R!Showing(f)
  /\ \A f : D!NotShowing(f) <=> R!NotShowing(f)
  /\ \A f, answer : D!Change(f, answer) <=> R!Change(f, answer)
  /\ \A f, call, listed : D!Then(f, call, listed) <=> R!Then(f, call, listed)
  /\ D!OwnWorkIsShown <=> R!OwnWorkIsShown
  BY DEF D!NoFlow, R!NoFlow, D!Waits, D!Comes, D!Works, D!Fails, D!Asked, R!Asked,
         D!Ask, R!Ask, D!Tell, R!Tell, D!Refuse, R!Refuse, D!Drop, R!Drop, D!End,
         R!End, D!Showing, R!Showing, D!NotShowing, R!NotShowing, D!Change,
         R!Change, D!Then, R!Then, D!OwnWorkIsShown, R!OwnWorkIsShown, D!NoFlows,
         R!NoFlows

DirectoryConstants ==
  D!NothingIsNothing /\ D!OrgsAreOrdered /\ D!ChangesAreCounted

LEMMA DirectoryTypes == DirectoryInv => D!TypeOK
  BY DirectoryRequests
  DEF DirectoryInv, DirectoryRows, DirectoryCalls, DirectoryCall, D!TypeOK

\* One flow goes on.
LEMMA DirectoryFlow ==
  ASSUME DirectoryInv, NEW f \in Flow, RequestsInv', DirectoryRows',
         \A g \in Flow \ {f} : flow'[g] = flow[g],
         flow'[f] # R!NoFlow => DirectoryCall(f)'
  PROVE  DirectoryInv'
  <1>1. ASSUME NEW g \in Flow, flow'[g] # R!NoFlow
        PROVE  DirectoryCall(g)'
    <2>1. CASE g = f
      BY <1>1, <2>1
    <2>2. CASE g # f
      BY <1>1, <2>2 DEF DirectoryInv, DirectoryCalls, DirectoryCall
    <2> QED BY <2>1, <2>2
  <1> QED BY <1>1 DEF DirectoryInv, DirectoryCalls

LEMMA DirectoryRowsStay ==
  ASSUME DirectoryInv, UNCHANGED <<org, changes, D!page>>
  PROVE  DirectoryRows'
  BY DEF DirectoryInv, DirectoryRows, D!page, D!Shown

\* No flow goes on.
LEMMA DirectoryNoFlow ==
  ASSUME DirectoryInv, UNCHANGED D!requests, DirectoryRows'
  PROVE  DirectoryInv'
  <1>1. RequestsInv' /\ UNCHANGED flow
    BY RequestsUnchanged DEF DirectoryInv, D!requests
  <1> QED BY <1>1 DEF DirectoryInv, DirectoryCalls, DirectoryCall

\* A call that is under way.
LEMMA DirectoryUnderWay ==
  ASSUME DirectoryInv, NEW f \in Flow, flow[f].stage # "none"
  PROVE  DirectoryCall(f) /\ flow[f] # R!NoFlow /\ RequestsInv
  BY NoFlowIs DEF DirectoryInv, DirectoryCalls

\* The calls that are made.
DirectoryOps == {"list", "create", "transition", "commercial"}

LEMMA DirectoryNewCall ==
  ASSUME DirectoryInv, NEW op \in DirectoryOps
  PROVE  /\ D!NewCall(op) \in D!Call /\ D!NewCall(op).op = op
  BY DEF DirectoryInv, DirectoryRows, D!NewCall, D!Call, DirectoryOps

\* A flow begins.
LEMMA DirectoryAsks ==
  ASSUME DirectoryInv, NEW f \in Flow, NEW call \in D!Call, NEW listed,
         NEW touched, R!Ask(f, call, listed, touched), DirectoryRows',
         IF call.op = "list" THEN listed = Directory /\ touched = {}
         ELSE listed = {} /\ touched = Directory,
         call.op = "transition" => call.org \in Org /\ call.action \in D!Action
  PROVE  DirectoryInv'
  <1>1. /\ RequestsInv' /\ flow'[f] = R!Asked(call, listed, touched)
        /\ \A g \in Flow \ {f} : flow'[g] = flow[g]
    BY AskStep DEF DirectoryInv
  <1>2. DirectoryCall(f)'
    BY <1>1, AskedIs DEF DirectoryCall, IsRow
  <1> QED BY <1>1, <1>2, DirectoryFlow

LEMMA DirectoryListAsked ==
  ASSUME DirectoryInv, NEW f \in Flow, D!SearchNow(f) \/ D!OnCreate(f)
  PROVE  DirectoryInv'
  <1>1. CASE D!SearchNow(f)
    <2> DEFINE call == D!NewCall("list")
    <2>1. call \in D!Call /\ call.op = "list"
      BY DirectoryNewCall DEF DirectoryOps
    <2>2. R!Ask(f, call, Directory, {})
      BY <1>1, DirectoryRequests DEF D!SearchNow, D!Directory, Directory
    <2>3. DirectoryRows'
      BY <1>1 DEF D!SearchNow, DirectoryInv, DirectoryRows, D!Shown
    <2> HIDE DEF call
    <2> QED BY <2>1, <2>2, <2>3, DirectoryAsks
  <1>2. CASE D!OnCreate(f)
    <2> DEFINE call == D!NewCall("create")
    <2>1. call \in D!Call /\ call.op = "create"
      BY DirectoryNewCall DEF DirectoryOps
    <2>2. R!Ask(f, call, {}, Directory)
      BY <1>2, DirectoryRequests DEF D!OnCreate, D!Directory, Directory
    <2>3. DirectoryRows'
      BY <1>2, DirectoryRowsStay DEF D!OnCreate
    <2> HIDE DEF call
    <2> QED BY <2>1, <2>2, <2>3, DirectoryAsks
  <1> QED BY <1>1, <1>2

\* The panel gets busy with a call about the Organization it shows.
LEMMA DirectoryPanelAsked ==
  ASSUME DirectoryConstants, DirectoryInv, NEW f \in Flow,
         D!ConfirmAction(f) \/ D!OnCommercialChange(f)
  PROVE  DirectoryInv'
  <1>1. /\ D!Shown # Nothing /\ panel' = [panel EXCEPT !.busy = f]
        /\ UNCHANGED <<org, changes, items, selected, search, loading>>
    BY DEF D!ConfirmAction, D!OnCommercialChange
  <1>2. DirectoryRows'
    BY <1>1 DEF DirectoryInv, DirectoryRows, D!Shown
  <1>3. D!Shown \in Org /\ panel.action \in D!Action \cup {"none"}
    BY <1>1 DEF DirectoryInv, DirectoryRows, D!Shown
  <1>4. CASE D!ConfirmAction(f)
    <2> DEFINE new == D!NewCall("transition")
               call == [new EXCEPT !.org = D!Shown, !.action = panel.action]
    <2>1. new \in D!Call /\ new.op = "transition"
      BY DirectoryNewCall DEF DirectoryOps
    <2>2. R!Ask(f, call, {}, Directory) /\ panel.action # "none"
      BY <1>4, DirectoryRequests DEF D!ConfirmAction, D!Directory, Directory
    <2> HIDE DEF new
    <2>3. /\ call \in D!Call /\ call.op = "transition" /\ call.org \in Org
          /\ call.action \in D!Action
      BY <1>3, <2>1, <2>2 DEF D!Call
    <2> HIDE DEF call
    <2> QED BY <1>2, <2>2, <2>3, DirectoryAsks
  <1>5. CASE D!OnCommercialChange(f)
    <2> DEFINE new == D!NewCall("commercial")
               call == [new EXCEPT !.org = D!Shown]
    <2>1. new \in D!Call /\ new.op = "commercial"
      BY DirectoryNewCall DEF DirectoryOps
    <2>2. R!Ask(f, call, {}, Directory)
      BY <1>5, DirectoryRequests DEF D!OnCommercialChange, D!Directory, Directory
    <2> HIDE DEF new
    <2>3. call \in D!Call /\ call.op = "commercial"
      BY <1>3, <2>1 DEF D!Call
    <2> HIDE DEF call
    <2> QED BY <1>2, <2>2, <2>3, DirectoryAsks
  <1> QED BY <1>4, <1>5

\* After a change its flow lists the directory.
LEMMA DirectoryRefreshed ==
  ASSUME DirectoryInv, NEW f \in Flow, NEW created \in Org \cup {Nothing},
         flow[f].stage = "answered", flow[f].call.op # "list",
         D!Refresh(f, created), DirectoryRows'
  PROVE  DirectoryInv'
  <1> DEFINE call == [flow[f].call EXCEPT !.op = "list", !.created = created]
  <1>1. flow[f].call \in D!Call /\ flow[f].lists = {}
        /\ flow[f].touches = Directory /\ RequestsInv
    BY DirectoryUnderWay DEF DirectoryCall
  <1>2. call \in D!Call /\ call.op = "list"
    BY <1>1 DEF D!Call
  <1>3. R!Then(f, call, Directory)
    BY DirectoryRequests DEF D!Refresh, D!Directory, Directory
  <1> HIDE DEF call
  <1>4. /\ RequestsInv' /\ flow'[f] = R!Asked(call, Directory, {})
        /\ \A g \in Flow \ {f} : flow'[g] = flow[g]
    BY <1>1, <1>3, ThenStep
  <1>5. DirectoryCall(f)'
    BY <1>2, <1>4, AskedIs DEF DirectoryCall, IsRow
  <1> QED BY <1>4, <1>5, DirectoryFlow

\* A change that failed ends its flow.
LEMMA DirectoryEnded ==
  ASSUME DirectoryInv, NEW f \in Flow, flow[f].stage = "answered",
         flow[f].call.op # "list", ~flow[f].ok, D!End(f), DirectoryRows'
  PROVE  DirectoryInv'
  <1>1. flow[f].lists = {} /\ RequestsInv
    BY DirectoryUnderWay DEF DirectoryCall
  <1>2. /\ RequestsInv' /\ flow'[f] = R!NoFlow
        /\ \A g \in Flow \ {f} : flow'[g] = flow[g]
    BY <1>1, EndStep, DirectoryRequests
  <1> QED BY <1>2, DirectoryFlow

LEMMA DirectoryCreated ==
  ASSUME DirectoryInv, NEW f \in Flow, D!Created(f)
  PROVE  DirectoryInv'
  <1>1. flow[f].stage = "answered" /\ flow[f].call.op = "create"
    BY DirectoryRequests DEF D!Created
  <1>2. CASE /\ D!Works(f, "create") /\ D!Refresh(f, flow[f].answer)
             /\ UNCHANGED <<org, changes, items, selected, search, panel>>
    <2>1. flow[f].answer \in Org \cup {Nothing}
      BY <1>1, <1>2, DirectoryUnderWay, DirectoryRequests DEF DirectoryCall
    <2>2. DirectoryRows'
      BY <1>2 DEF D!Refresh, DirectoryInv, DirectoryRows, D!Shown
    <2> QED BY <1>1, <1>2, <2>1, <2>2, DirectoryRefreshed
  <1>3. CASE D!Fails(f, "create") /\ D!End(f) /\ UNCHANGED <<org, changes, D!page>>
    BY <1>1, <1>3, DirectoryRowsStay, DirectoryEnded, DirectoryRequests
  <1> QED BY <1>2, <1>3 DEF D!Created

LEMMA DirectoryDone ==
  ASSUME DirectoryConstants, DirectoryInv, NEW f \in Flow, D!Done(f)
  PROVE  DirectoryInv'
  <1>1. flow[f].stage = "answered"
        /\ flow[f].call.op \in {"transition", "commercial"}
    BY DirectoryRequests DEF D!Done
  <1>2. panel' \in {panel, D!NoPanel, [panel EXCEPT !.busy = Nothing]}
        /\ (panel = D!NoPanel => panel' = D!NoPanel)
        /\ UNCHANGED <<org, changes, items, selected, search>>
    BY DEF D!Done, D!Closed, D!Freed, D!NoPanel, DirectoryConstants,
           D!NothingIsNothing
  <1>3. loading' \in BOOLEAN => DirectoryRows'
    BY <1>2 DEF DirectoryInv, DirectoryRows, D!Shown, D!NoPanel
  <1>4. CASE D!Refresh(f, Nothing)
    BY <1>1, <1>3, <1>4, DirectoryRefreshed DEF D!Refresh
  <1>5. CASE ~flow[f].ok /\ D!End(f) /\ UNCHANGED loading
    BY <1>1, <1>3, <1>5, DirectoryEnded DEF DirectoryInv, DirectoryRows
  <1> QED BY <1>4, <1>5 DEF D!Done

\* The first of a list is one of it.
LEMMA FirstIsOne ==
  ASSUME DirectoryConstants, NEW rows \in SUBSET Org
  PROVE  D!First(rows) \in Org \cup {Nothing}
  <1>1. CASE rows = {}
    BY <1>1 DEF D!First
  <1>2. CASE rows # {}
    <2>1. \E o \in rows : \A p \in rows : p <= o
      BY <1>2 DEF DirectoryConstants, D!OrgsAreOrdered
    <2>2. D!Newest(rows) \in rows
      BY <2>1 DEF D!Newest
    <2> QED BY <1>2, <2>2 DEF D!First
  <1> QED BY <1>1, <1>2

LEMMA DirectoryListed ==
  ASSUME DirectoryConstants, DirectoryInv, NEW f \in Flow, D!Listed(f)
  PROVE  DirectoryInv'
  <1> DEFINE call == flow[f].call
             rows == IF flow[f].ok THEN flow[f].answer ELSE items
             chosen == IF ~flow[f].ok \/ call.kept \in DOMAIN rows THEN selected
                       ELSE D!First(DOMAIN rows)
             next == IF call.created # Nothing THEN call.created ELSE chosen
  <1>1. /\ flow[f].stage = "answered" /\ call.op = "list"
        /\ flow' = [flow EXCEPT ![f] = R!NoFlow]
        /\ R!Showing(f) \/ R!NotShowing(f)
        /\ items' = rows /\ selected' = next /\ loading' = FALSE
        /\ panel' = D!Remaining(IF next \in DOMAIN rows THEN next ELSE Nothing)
        /\ UNCHANGED <<org, changes, search>>
    BY DirectoryRequests DEF D!Listed
  <1>2. DirectoryCall(f) /\ RequestsInv
    BY <1>1, DirectoryUnderWay
  <1>3. /\ RequestsInv' /\ flow'[f] = R!NoFlow
        /\ \A g \in Flow \ {f} : flow'[g] = flow[g]
    BY <1>1, <1>2, ShowStep, NoFlowIs DEF DirectoryCall
  <1>4. DOMAIN rows \subseteq Org /\ \A o \in DOMAIN rows : rows[o] \in D!Access
    BY <1>1, <1>2 DEF DirectoryCall, DirectoryInv, DirectoryRows
  <1>5. call.created \in Org \cup {Nothing}
    BY <1>2 DEF DirectoryCall, D!Call
  <1>6. chosen \in Org \cup {Nothing}
    BY <1>4, FirstIsOne DEF DirectoryInv, DirectoryRows
  <1>7. next \in Org \cup {Nothing}
    BY <1>5, <1>6
  <1> HIDE DEF rows, chosen, next
  <1>8. /\ panel' \in {panel, D!NoPanel}
        /\ D!Shown' = Nothing => panel' = D!NoPanel
    BY <1>1 DEF D!Remaining, D!Shown
  <1>9. DirectoryRows'
    <2>1. panel' \in [action : D!Action \cup {"none"}, busy : Flow \cup {Nothing}]
      BY <1>8 DEF DirectoryInv, DirectoryRows, D!NoPanel
    <2>2. /\ DOMAIN items' \subseteq Org
          /\ \A o \in DOMAIN items' : items'[o] \in D!Access
          /\ selected' \in Org \cup {Nothing} /\ loading' \in BOOLEAN
          /\ UNCHANGED <<org, changes, search>>
      BY <1>1, <1>4, <1>7
    <2> QED BY <1>8, <2>1, <2>2 DEF DirectoryInv, DirectoryRows
  <1> QED BY <1>3, <1>9, DirectoryFlow

---------------------------------------------------------------------------
\* A call is refused, or its answer is lost.
LEMMA DirectoryFailed ==
  ASSUME DirectoryInv, NEW f \in Flow, DirectoryRows',
         (flow[f].stage = "asked" /\ R!Refuse(f)) \/ R!Drop(f)
  PROVE  DirectoryInv'
  <1>1. /\ RequestsInv' /\ ~flow'[f].ok /\ flow'[f].call = flow[f].call
        /\ flow'[f].lists = flow[f].lists /\ flow'[f].touches = flow[f].touches
        /\ \A g \in Flow \ {f} : flow'[g] = flow[g]
    BY RefuseStep, DropStep DEF DirectoryInv
  <1>2. flow[f].stage # "none"
    BY DEF R!Drop
  <1>3. DirectoryCall(f)'
    BY <1>1, <1>2, DirectoryUnderWay DEF DirectoryCall
  <1> QED BY <1>1, <1>3, DirectoryFlow

\* A change is made.
LEMMA DirectoryChanged ==
  ASSUME DirectoryInv, NEW f \in Flow, NEW answer, DirectoryRows',
         flow[f].stage = "asked", flow[f].call.op # "list", R!Change(f, answer),
         flow[f].call.op = "create" => answer \in Org
  PROVE  DirectoryInv'
  <1>1. /\ RequestsInv' /\ flow'[f].answer = answer
        /\ \A g \in Flow :
             /\ flow'[g].call = flow[g].call /\ flow'[g].lists = flow[g].lists
             /\ flow'[g].touches = flow[g].touches
             /\ g # f => flow'[g].ok = flow[g].ok /\ flow'[g].answer = flow[g].answer
             /\ flow'[g] = R!NoFlow <=> flow[g] = R!NoFlow
    BY ChangeStep DEF DirectoryInv
  <1>2. ASSUME NEW g \in Flow, flow'[g] # R!NoFlow
        PROVE  DirectoryCall(g)'
    <2>1. DirectoryCall(g)
      BY <1>1, <1>2 DEF DirectoryInv, DirectoryCalls
    <2>2. CASE g = f
      BY <1>1, <2>1, <2>2 DEF DirectoryCall
    <2>3. CASE g # f
      BY <1>1, <2>1, <2>3 DEF DirectoryCall
    <2> QED BY <2>2, <2>3
  <1> QED BY <1>1, <1>2 DEF DirectoryInv, DirectoryCalls

\* An Organization comes to a status.
LEMMA DirectoryCounted ==
  ASSUME DirectoryConstants, DirectoryInv, D!Counted, UNCHANGED D!page,
         \/ UNCHANGED org
         \/ \E o \in Org, access \in D!Access : org' = [org EXCEPT ![o] = access]
  PROVE  DirectoryRows'
  <1>1. changes' \in 0..DirectoryChanges
    BY DEF D!Counted, DirectoryInv, DirectoryRows, DirectoryConstants,
           D!ChangesAreCounted
  <1>2. org' \in [Org -> D!Access]
    BY DEF DirectoryInv, DirectoryRows
  <1> QED BY <1>1, <1>2 DEF DirectoryInv, DirectoryRows, D!page, D!Shown

LEMMA DirectoryListServed ==
  ASSUME DirectoryInv, NEW f \in Flow, D!ServeList(f)
  PROVE  DirectoryInv'
  <1>1. /\ flow[f].stage = "asked" /\ flow[f].call.op = "list"
        /\ DirectoryRows' /\ DirectoryCall(f) /\ RequestsInv
    BY DirectoryRequests, DirectoryRowsStay, DirectoryUnderWay DEF D!ServeList
  <1>2. CASE D!Refuse(f)
    BY <1>1, <1>2, DirectoryFailed, DirectoryRequests
  <1>3. CASE D!Tell(f, [o \in D!Existing \cap flow[f].call.search |-> org[o]])
    <2> DEFINE answer == [o \in D!Existing \cap flow[f].call.search |-> org[o]]
    <2>1. /\ DOMAIN answer \subseteq Org
          /\ \A o \in DOMAIN answer : answer[o] \in D!Access
      BY DEF D!Existing, DirectoryInv, DirectoryRows
    <2>2. R!Tell(f, answer)
      BY <1>3, DirectoryRequests
    <2> HIDE DEF answer
    <2>3. /\ RequestsInv' /\ flow'[f].call = flow[f].call
          /\ flow'[f].lists = flow[f].lists /\ flow'[f].touches = flow[f].touches
          /\ flow'[f].answer = answer
          /\ \A g \in Flow \ {f} : flow'[g] = flow[g]
      BY <1>1, <2>2, TellStep
    <2>4. DirectoryCall(f)'
      BY <1>1, <2>1, <2>3 DEF DirectoryCall
    <2> QED BY <1>1, <2>3, <2>4, DirectoryFlow
  <1> QED BY <1>2, <1>3 DEF D!ServeList

LEMMA DirectoryChangeServed ==
  ASSUME DirectoryConstants, DirectoryInv, NEW f \in Flow,
         D!ServeCreate(f) \/ D!ServeTransition(f) \/ D!ServeCommercial(f)
  PROVE  DirectoryInv'
  <1>1. /\ flow[f].stage = "asked" /\ DirectoryCall(f)
        /\ flow[f].call.op \in {"create", "transition", "commercial"}
        /\ UNCHANGED D!page
    BY DirectoryRequests, DirectoryUnderWay
    DEF D!ServeCreate, D!ServeTransition, D!ServeCommercial
  <1>2. CASE D!Refuse(f) /\ UNCHANGED <<org, changes>>
    BY <1>1, <1>2, DirectoryRowsStay, DirectoryFailed, DirectoryRequests
  <1>3. CASE /\ flow[f].call.op = "create"
             /\ \E o \in D!Fresh : /\ D!Counted /\ D!Change(f, o)
                                   /\ org' = [org EXCEPT ![o] = "PROVISIONING"]
    <2>1. PICK o \in Org : /\ D!Counted /\ R!Change(f, o)
                           /\ org' = [org EXCEPT ![o] = "PROVISIONING"]
      BY <1>3, DirectoryRequests DEF D!Fresh
    <2>2. DirectoryRows'
      BY <1>1, <2>1, DirectoryCounted DEF D!Access
    <2> QED BY <1>1, <2>1, <2>2, DirectoryChanged
  <1>4. CASE /\ flow[f].call.op = "transition" /\ D!Counted /\ D!Change(f, Nothing)
             /\ org' = [org EXCEPT ![flow[f].call.org] = D!To(flow[f].call.action)]
    <2>1. /\ flow[f].call.org \in Org
          /\ D!To(flow[f].call.action) \in D!Access
      BY <1>1, <1>4 DEF DirectoryCall, D!Action, D!To, D!Access
    <2>2. DirectoryRows'
      BY <1>1, <1>4, <2>1, DirectoryCounted
    <2> QED BY <1>1, <1>4, <2>2, DirectoryChanged, DirectoryRequests
  <1>5. CASE /\ flow[f].call.op = "commercial" /\ D!Counted /\ D!Change(f, Nothing)
             /\ UNCHANGED org
    BY <1>1, <1>5, DirectoryCounted, DirectoryChanged, DirectoryRequests
  <1> QED BY <1>2, <1>3, <1>4, <1>5, DirectoryRequests
        DEF D!ServeCreate, D!ServeTransition, D!ServeCommercial

\* A click that asks for nothing.
LEMMA DirectoryClicked ==
  ASSUME DirectoryConstants, DirectoryInv,
         D!Type \/ D!Select \/ D!Cancel \/ \E a \in D!Action : D!Choose(a)
  PROVE  DirectoryInv'
  <1>1. UNCHANGED D!requests /\ Nothing \notin Org /\ DirectoryRows
    BY DEF D!Type, D!Select, D!Cancel, D!Choose, DirectoryConstants,
           D!NothingIsNothing, DirectoryInv
  <1>2. CASE D!Type
    BY <1>1, <1>2, DirectoryNoFlow DEF D!Type, DirectoryRows, D!Shown
  <1>3. CASE D!Select
    <2>1. PICK o \in DOMAIN items : selected' = o
            /\ UNCHANGED <<org, changes, items, search, loading, panel>>
      BY <1>3 DEF D!Select
    <2>2. o \in Org /\ D!Shown' = o
      BY <1>1, <2>1 DEF DirectoryRows, D!Shown
    <2>3. DirectoryRows'
      BY <1>1, <2>1, <2>2 DEF DirectoryRows
    <2> QED BY <1>1, <2>3, DirectoryNoFlow
  <1>4. ASSUME NEW a \in D!Action \cup {"none"}, D!Shown # Nothing,
               panel' = [panel EXCEPT !.action = a],
               UNCHANGED <<org, changes, items, selected, search, loading>>
        PROVE  DirectoryInv'
    <2>1. DirectoryRows'
      BY <1>1, <1>4 DEF DirectoryRows, D!Shown
    <2> QED BY <1>1, <2>1, DirectoryNoFlow
  <1> QED BY <1>2, <1>3, <1>4 DEF D!Cancel, D!Choose

LEMMA DirectoryOthers ==
  ASSUME DirectoryConstants, DirectoryInv, D!Others
  PROVE  DirectoryInv'
  <1>1. \E o \in Org, access \in D!Access : org' = [org EXCEPT ![o] = access]
    <2>1. \A a \in D!Action : D!To(a) \in D!Access
      BY DEF D!Action, D!To, D!Access
    <2>2. "PROVISIONING" \in D!Access /\ "ACTIVE" \in D!Access
      BY DEF D!Access
    <2> QED BY <2>1, <2>2 DEF D!Others, D!Fresh, D!Existing
  <1>2. D!Counted /\ UNCHANGED <<D!requests, D!page>>
    BY DEF D!Others
  <1>3. DirectoryRows'
    BY <1>1, <1>2, DirectoryCounted
  <1> QED BY <1>2, <1>3, DirectoryNoFlow

---------------------------------------------------------------------------
LEMMA DirectoryStarts ==
  ASSUME DirectoryConstants, D!Init
  PROVE  DirectoryInv
  <1>1. /\ org \in [Org -> {"NONE", "PROVISIONING", "ACTIVE"}]
        /\ changes = 0 /\ items = <<>> /\ selected = Nothing /\ search = Org
        /\ loading = TRUE /\ panel = D!NoPanel /\ unseen = {}
    BY DEF D!Init
  <1>2. DirectoryRows
    <2>1. 0 \in 0..DirectoryChanges /\ Org \in Search
      BY DEF DirectoryConstants, D!ChangesAreCounted, D!OrgsAreOrdered
    <2>2. DOMAIN items = {}
      BY <1>1
    <2>3. org \in [Org -> D!Access]
      BY <1>1 DEF D!Access
    <2> QED BY <1>1, <2>1, <2>2, <2>3 DEF DirectoryRows, D!NoPanel
  <1> DEFINE call == D!NewCall("list")
  <1>3. call \in D!Call /\ call.op = "list"
    BY <1>2 DEF DirectoryRows, D!NewCall, D!Call
  <1>4. PICK f \in Flow :
          flow = [g \in Flow |-> IF g = f THEN R!Asked(call, Directory, {})
                                 ELSE R!NoFlow]
    BY DirectoryRequests DEF D!Init, D!Directory, Directory
  <1> HIDE DEF call
  <1>5. IsFlow
    BY <1>4, AskedIs, NoFlowIs DEF IsFlow
  <1>6. DirectoryCalls
    <2>1. flow[f] = R!Asked(call, Directory, {})
          /\ \A g \in Flow \ {f} : flow[g] = R!NoFlow
      BY <1>4
    <2>2. DirectoryCall(f)
      BY <1>3, <2>1, AskedIs DEF DirectoryCall, IsRow
    <2> QED BY <2>1, <2>2 DEF DirectoryCalls
  <1> QED BY <1>1, <1>2, <1>5, <1>6 DEF DirectoryInv, RequestsInv, ShownOrPending

LEMMA DirectoryStep ==
  ASSUME DirectoryConstants, DirectoryInv, D!Next
  PROVE  DirectoryInv'
  <1>1. ASSUME NEW f \in Flow,
               \/ D!SearchNow(f) \/ D!OnCreate(f) \/ D!Created(f) \/ D!Listed(f)
               \/ D!ConfirmAction(f) \/ D!OnCommercialChange(f) \/ D!Done(f)
        PROVE  DirectoryInv'
    BY <1>1, DirectoryListAsked, DirectoryCreated, DirectoryListed,
       DirectoryPanelAsked, DirectoryDone
  <1>2. ASSUME NEW f \in Flow,
               \/ D!ServeList(f) \/ D!ServeCreate(f) \/ D!ServeTransition(f)
               \/ D!ServeCommercial(f)
        PROVE  DirectoryInv'
    BY <1>2, DirectoryListServed, DirectoryChangeServed
  <1>3. ASSUME NEW f \in Flow, D!LoseAnswer(f)
        PROVE  DirectoryInv'
    BY <1>3, DirectoryRowsStay, DirectoryFailed, DirectoryRequests
    DEF D!LoseAnswer
  <1> QED BY <1>1, <1>2, <1>3, DirectoryClicked, DirectoryOthers DEF D!Next

LEMMA DirectoryUnchanged == DirectoryInv /\ UNCHANGED D!vars => DirectoryInv'
  <1> SUFFICES ASSUME DirectoryInv, UNCHANGED D!vars PROVE DirectoryInv'
    OBVIOUS
  <1>1. UNCHANGED D!requests /\ UNCHANGED <<org, changes, D!page>>
    BY DEF D!vars
  <1> QED BY <1>1, DirectoryRowsStay, DirectoryNoFlow

LEMMA DirectoryKept ==
  ASSUME DirectoryConstants
  PROVE  D!Init /\ [][D!Next]_D!vars => []DirectoryInv
  BY DirectoryStarts, DirectoryStep, DirectoryUnchanged, PTL

---------------------------------------------------------------------------
(* The Companies                                                           *)

\* A list of Business Scopes of a Company.
OfCompany(rows, c) ==
  DOMAIN rows \subseteq Scope /\ \A s \in DOMAIN rows : scope[s].company = c

\* What a call of each kind lists, touches and is answered.
CompaniesCall(f) ==
  LET call == flow[f].call
      listed == flow[f].lists
      touched == flow[f].touches IN
  /\ call \in C!Call
  /\ call.op = "companies" =>
       /\ listed = {"companies"} /\ touched = {}
       /\ flow[f].ok => DOMAIN flow[f].answer \subseteq Company
  /\ call.op = "scopes" =>
       /\ listed = {call.company} /\ touched = {}
       /\ flow[f].ok => OfCompany(flow[f].answer, call.company)
  /\ call.op = "check" =>
       /\ listed = {} /\ touched = {}
       /\ flow[f].ok => flow[f].answer \in BOOLEAN
  /\ call.op \in {"createCompany", "deactivateCompany"} =>
       listed = {} /\ touched = {"companies"}
  /\ call.op \in {"create", "deactivateScope"} =>
       listed = {} /\ touched = {call.company}
  /\ call.op \in {"scopes", "check", "deactivateCompany", "create",
                  "deactivateScope"} => call.company \in Company
  /\ call.op = "deactivateScope" => call.scope \in Scope

CompaniesCalls == \A f \in Flow : flow[f] # R!NoFlow => CompaniesCall(f)

\* The rows there are, and those shown; C!TypeOK without the calls.
CompaniesRows ==
  /\ company \in [Company -> C!Status]
  /\ scope \in [Scope -> [status : C!Status, company : Company \cup {Nothing},
                          key : Key \cup {Nothing}]]
  /\ changes \in 0..CompaniesChanges
  /\ DOMAIN companies \subseteq Company
  /\ scopesByCompany = [c \in Company |-> scopesByCompany[c]]
  /\ \A c \in Company :
       scopesByCompany[c] # Nothing => OfCompany(scopesByCompany[c], c)
  /\ expanded \in Company \cup {Nothing}
  /\ wizardCompany \in Company \cup {Nothing}
  /\ selectedScope \in Scope \cup {Nothing}
  /\ loading \in BOOLEAN
  /\ wizard \in [step : 0..3, key : Key \cup {Nothing}, duplicate : BOOLEAN,
                 checking : Flow \cup {Nothing}, submitting : Flow \cup {Nothing}]
  /\ C!WizardShown <=> wizard # C!NoWizard
  /\ wizard # C!NoWizard => wizard.step # 0

CompaniesInv == CompaniesRows /\ RequestsInv /\ CompaniesCalls

\* The requests of the page are those of R.
LEMMA CompaniesRequests ==
  /\ C!NoFlow = R!NoFlow
  /\ \A f, op : C!Waits(f, op) <=> flow[f].stage = "asked" /\ flow[f].call.op = op
  /\ \A f, op : C!Comes(f, op) <=> flow[f].stage = "answered" /\ flow[f].call.op = op
  /\ \A f, op : C!Works(f, op) <=> flow[f].stage = "answered"
                                     /\ flow[f].call.op = op /\ flow[f].ok
  /\ \A f, op : C!Fails(f, op) <=> flow[f].stage = "answered"
                                     /\ flow[f].call.op = op /\ ~flow[f].ok
  /\ \A call, listed, touched :
       C!Asked(call, listed, touched) = R!Asked(call, listed, touched)
  /\ \A f, call, listed, touched :
       C!Ask(f, call, listed, touched) <=> R!Ask(f, call, listed, touched)
  /\ \A f, answer : C!Tell(f, answer) <=> R!Tell(f, answer)
  /\ \A f : C!Refuse(f) <=> R!Refuse(f)
  /\ \A f : C!Drop(f) <=> R!Drop(f)
  /\ \A f : C!End(f) <=> R!End(f)
  /\ \A f : C!Showing(f) <=> R!Showing(f)
  /\ \A f : C!NotShowing(f) <=> R!NotShowing(f)
  /\ \A f, answer : C!Change(f, answer) <=> R!Change(f, answer)
  /\ \A f, call, listed : C!Then(f, call, listed) <=> R!Then(f, call, listed)
  /\ C!OwnWorkIsShown <=> R!OwnWorkIsShown
  BY DEF C!NoFlow, R!NoFlow, C!Waits, C!Comes, C!Works, C!Fails, C!Asked, R!Asked,
         C!Ask, R!Ask, C!Tell, R!Tell, C!Refuse, R!Refuse, C!Drop, R!Drop, C!End,
         R!End, C!Showing, R!Showing, C!NotShowing, R!NotShowing, C!Change,
         R!Change, C!Then, R!Then, C!OwnWorkIsShown, R!OwnWorkIsShown, C!NoFlows,
         R!NoFlows

CompaniesConstants ==
  C!NothingIsNothing /\ C!ViewsAreListed /\ C!ChangesAreCounted

LEMMA CompaniesTypes == CompaniesInv => C!TypeOK
  BY CompaniesRequests
  DEF CompaniesInv, CompaniesRows, CompaniesCalls, CompaniesCall, OfCompany,
      C!TypeOK

\* A Business Scope that is there stays with its Company.
ScopesKeepCompany ==
  \A s \in Scope :
    scope[s].company \in Company => scope'[s].company = scope[s].company

LEMMA OfCompanyStays ==
  ASSUME NEW c \in Company, NEW rows, OfCompany(rows, c), ScopesKeepCompany
  PROVE  OfCompany(rows, c)'
  BY DEF OfCompany, ScopesKeepCompany

LEMMA CompaniesCallStays ==
  ASSUME NEW f \in Flow, CompaniesCall(f), ScopesKeepCompany,
         flow'[f].call = flow[f].call, flow'[f].lists = flow[f].lists,
         flow'[f].touches = flow[f].touches, flow'[f].ok = flow[f].ok,
         flow'[f].answer = flow[f].answer
  PROVE  CompaniesCall(f)'
  <1> DEFINE rows == flow[f].answer
             c == flow[f].call.company
  <1>1. c \in Company /\ OfCompany(rows, c) =>
          DOMAIN rows \subseteq Scope /\ \A s \in DOMAIN rows : scope'[s].company = c
    BY DEF OfCompany, ScopesKeepCompany
  <1>2. flow[f].call.op = "scopes" /\ flow[f].ok =>
          OfCompany(flow[f].answer, flow[f].call.company)'
    BY <1>1 DEF CompaniesCall, OfCompany
  <1> QED BY <1>2 DEF CompaniesCall

\* One flow goes on.
LEMMA CompaniesFlow ==
  ASSUME CompaniesInv, NEW f \in Flow, RequestsInv', CompaniesRows',
         ScopesKeepCompany, \A g \in Flow \ {f} : flow'[g] = flow[g],
         flow'[f] # R!NoFlow => CompaniesCall(f)'
  PROVE  CompaniesInv'
  <1>1. ASSUME NEW g \in Flow, flow'[g] # R!NoFlow
        PROVE  CompaniesCall(g)'
    <2>1. CASE g = f
      BY <1>1, <2>1
    <2>2. CASE g # f
      BY <1>1, <2>2, CompaniesCallStays DEF CompaniesInv, CompaniesCalls
    <2> QED BY <2>1, <2>2
  <1> QED BY <1>1 DEF CompaniesInv, CompaniesCalls

\* No flow goes on.
LEMMA CompaniesNoFlow ==
  ASSUME CompaniesInv, UNCHANGED C!requests, CompaniesRows', ScopesKeepCompany
  PROVE  CompaniesInv'
  <1>1. RequestsInv' /\ UNCHANGED flow
    BY RequestsUnchanged DEF CompaniesInv, C!requests
  <1> QED BY <1>1, CompaniesCallStays DEF CompaniesInv, CompaniesCalls

\* The rows are left alone, or what is shown is.
LEMMA CompaniesRowsStay ==
  ASSUME CompaniesInv, UNCHANGED <<C!rows, C!lists, wizardCompany, wizard>>
  PROVE  CompaniesRows' /\ ScopesKeepCompany
  BY DEF CompaniesInv, CompaniesRows, C!rows, C!lists, C!WizardShown, OfCompany,
         ScopesKeepCompany

\* The part of CompaniesRows that is the page's own.
Wizard == [step : 0..3, key : Key \cup {Nothing}, duplicate : BOOLEAN,
           checking : Flow \cup {Nothing}, submitting : Flow \cup {Nothing}]
WizardIs ==
  /\ wizardCompany \in Company \cup {Nothing}
  /\ wizard \in Wizard
  /\ C!WizardShown <=> wizard # C!NoWizard
  /\ wizard # C!NoWizard => wizard.step # 0

LEMMA WizardRecords ==
  /\ C!NoWizard \in Wizard /\ C!NoWizard.step = 0
  /\ C!FirstStep \in Wizard /\ C!FirstStep.step = 1
  <1> DEFINE none == C!NoWizard
  <1>1. none \in Wizard /\ none.step = 0
    BY DEF C!NoWizard, Wizard
  <1>2. C!FirstStep = [none EXCEPT !.step = 1]
    BY DEF C!FirstStep
  <1> HIDE DEF none
  <1>3. [none EXCEPT !.step = 1] \in Wizard /\ [none EXCEPT !.step = 1].step = 1
    BY <1>1 DEF Wizard
  <1> QED BY <1>1, <1>2, <1>3 DEF none

\* A click leaves the rows alone, and what is shown but for these.
LEMMA CompaniesClick ==
  ASSUME CompaniesInv,
         UNCHANGED <<C!rows, companies, scopesByCompany, wizardCompany, wizard>>,
         expanded' \in Company \cup {Nothing},
         selectedScope' \in Scope \cup {Nothing}, loading' \in BOOLEAN
  PROVE  CompaniesRows' /\ ScopesKeepCompany
  BY DEF CompaniesInv, CompaniesRows, C!rows, C!WizardShown, OfCompany,
         ScopesKeepCompany

LEMMA CompaniesWizard ==
  ASSUME CompaniesInv, UNCHANGED <<C!rows, C!lists>>, WizardIs'
  PROVE  CompaniesRows' /\ ScopesKeepCompany
  BY DEF CompaniesInv, CompaniesRows, C!rows, C!lists, OfCompany,
         ScopesKeepCompany, WizardIs, Wizard

\* The wizard that is there goes on.
LEMMA WizardStays ==
  ASSUME CompaniesInv, C!WizardShown,
         wizard' \in Wizard, wizard'.step # 0, UNCHANGED <<companies, wizardCompany>>
  PROVE  WizardIs'
  BY DEF CompaniesInv, CompaniesRows, WizardIs, C!WizardShown, C!NoWizard

\* It is closed.
LEMMA WizardCloses ==
  ASSUME CompaniesConstants, CompaniesInv, wizardCompany' = Nothing,
         wizard' = C!NoWizard, UNCHANGED companies
  PROVE  WizardIs'
  BY DEF CompaniesInv, CompaniesRows, WizardIs, Wizard, C!WizardShown,
         C!NoWizard, CompaniesConstants, C!NothingIsNothing

---------------------------------------------------------------------------
\* A call that is under way.
LEMMA CompaniesUnderWay ==
  ASSUME CompaniesInv, NEW f \in Flow, flow[f].stage # "none"
  PROVE  CompaniesCall(f) /\ flow[f] # R!NoFlow /\ RequestsInv
  BY NoFlowIs DEF CompaniesInv, CompaniesCalls

\* What a call lists and touches, by its kind.
Fits(call, listed, touched) ==
  /\ call \in C!Call
  /\ CASE call.op = "companies" -> listed = {"companies"} /\ touched = {}
       [] call.op = "scopes" -> listed = {call.company} /\ touched = {}
       [] call.op = "check" -> listed = {} /\ touched = {}
       [] call.op \in {"createCompany", "deactivateCompany"} ->
            listed = {} /\ touched = {"companies"}
       [] OTHER -> listed = {} /\ touched = {call.company}
  /\ call.op \notin {"companies", "createCompany"} => call.company \in Company
  /\ call.op = "deactivateScope" => call.scope \in Scope

\* A flow whose next call is made.
LEMMA AskedFits ==
  ASSUME NEW f \in Flow, NEW call, NEW listed, NEW touched,
         Fits(call, listed, touched), flow'[f] = R!Asked(call, listed, touched)
  PROVE  CompaniesCall(f)'
  BY AskedIs DEF CompaniesCall, Fits, IsRow, C!Call

LEMMA CompaniesAsks ==
  ASSUME CompaniesInv, NEW f \in Flow, NEW call, NEW listed, NEW touched,
         Fits(call, listed, touched), C!Ask(f, call, listed, touched),
         CompaniesRows', ScopesKeepCompany
  PROVE  CompaniesInv'
  <1>1. /\ RequestsInv' /\ flow'[f] = R!Asked(call, listed, touched)
        /\ \A g \in Flow \ {f} : flow'[g] = flow[g]
    BY AskStep, CompaniesRequests DEF CompaniesInv
  <1> QED BY <1>1, AskedFits, CompaniesFlow

LEMMA CompaniesThen ==
  ASSUME CompaniesInv, NEW f \in Flow, NEW call, NEW listed,
         flow[f].lists = {}, flow[f].touches \subseteq listed,
         Fits(call, listed, {}), C!Then(f, call, listed),
         CompaniesRows', ScopesKeepCompany
  PROVE  CompaniesInv'
  <1>1. /\ RequestsInv' /\ flow'[f] = R!Asked(call, listed, {})
        /\ \A g \in Flow \ {f} : flow'[g] = flow[g]
    BY ThenStep, CompaniesRequests DEF CompaniesInv
  <1> QED BY <1>1, AskedFits, CompaniesFlow

LEMMA CompaniesEnd ==
  ASSUME CompaniesInv, NEW f \in Flow, flow[f].lists = {},
         ~flow[f].ok \/ flow[f].touches = {}, C!End(f),
         CompaniesRows', ScopesKeepCompany
  PROVE  CompaniesInv'
  <1>1. /\ RequestsInv' /\ flow'[f] = R!NoFlow
        /\ \A g \in Flow \ {f} : flow'[g] = flow[g]
    BY EndStep, CompaniesRequests DEF CompaniesInv
  <1> QED BY <1>1, CompaniesFlow

\* The calls of the page, about a Company, a Business Scope or a key.
LEMMA CallsFit ==
  /\ Fits(C!NoCall, {"companies"}, {})
  /\ Fits([C!NoCall EXCEPT !.op = "createCompany"], {}, {"companies"})
  /\ \A c \in Company :
       /\ Fits([C!NoCall EXCEPT !.op = "deactivateCompany", !.company = c],
               {}, {"companies"})
       /\ \A after \in {"none", "created", "deactivated"} :
            Fits(C!ScopesCall(c, after), {c}, {})
       /\ \A s \in Scope :
            Fits([C!NoCall EXCEPT !.op = "deactivateScope", !.company = c,
                                  !.scope = s], {}, {c})
       /\ \A k \in Key \cup {Nothing} :
            /\ Fits([C!NoCall EXCEPT !.op = "check", !.company = c, !.key = k],
                    {}, {})
            /\ Fits([C!NoCall EXCEPT !.op = "create", !.company = c, !.key = k],
                    {}, {c})
  <1> DEFINE call == C!NoCall
  <1>1. call \in C!Call /\ call.op = "companies"
    BY DEF C!NoCall, C!Call
  <1>2. Fits(call, {"companies"}, {})
    BY <1>1 DEF Fits
  <1>3. \A c, after : C!ScopesCall(c, after) =
          [call EXCEPT !.op = "scopes", !.company = c, !.after = after]
    BY DEF C!ScopesCall
  <1> HIDE DEF call
  <1>4. Fits([call EXCEPT !.op = "createCompany"], {}, {"companies"})
    BY <1>1 DEF Fits, C!Call
  <1>5. ASSUME NEW c \in Company
        PROVE  /\ Fits([call EXCEPT !.op = "deactivateCompany", !.company = c],
                       {}, {"companies"})
               /\ \A after \in {"none", "created", "deactivated"} :
                    Fits([call EXCEPT !.op = "scopes", !.company = c,
                                      !.after = after], {c}, {})
    BY <1>1 DEF Fits, C!Call
  <1>6. ASSUME NEW c \in Company, NEW s \in Scope
        PROVE  Fits([call EXCEPT !.op = "deactivateScope", !.company = c,
                                 !.scope = s], {}, {c})
    BY <1>1 DEF Fits, C!Call
  <1>7. ASSUME NEW c \in Company, NEW k \in Key \cup {Nothing}
        PROVE  /\ Fits([call EXCEPT !.op = "check", !.company = c, !.key = k],
                       {}, {})
               /\ Fits([call EXCEPT !.op = "create", !.company = c, !.key = k],
                       {}, {c})
    BY <1>1 DEF Fits, C!Call
  <1> QED BY <1>2, <1>3, <1>4, <1>5, <1>6, <1>7 DEF call

---------------------------------------------------------------------------
(* The list of Companies *)

\* A row that can be clicked is a Company's.
LEMMA ClickableIs ==
  ASSUME CompaniesInv, NEW c, C!Clickable(c)
  PROVE  c \in Company /\ ~C!WizardShown
  BY DEF CompaniesInv, CompaniesRows, C!Clickable

LEMMA CompaniesClicked ==
  ASSUME CompaniesInv, NEW c \in Company, C!Fold(c) \/ C!SelectScope(c)
  PROVE  CompaniesInv'
  <1>1. CompaniesRows' /\ ScopesKeepCompany
    BY CompaniesClick
    DEF C!Fold, C!SelectScope, CompaniesInv, CompaniesRows, OfCompany
  <1> QED BY <1>1, CompaniesNoFlow DEF C!Fold, C!SelectScope

LEMMA ExpandKeeps ==
  ASSUME CompaniesInv, NEW f \in Flow, NEW c \in Company, C!Expand(f, c)
  PROVE  CompaniesInv'
  <1>1. CompaniesRows' /\ ScopesKeepCompany
    BY CompaniesClick DEF C!Expand, CompaniesInv, CompaniesRows
  <1>2. CASE C!Ask(f, C!ScopesCall(c, "none"), {c}, {})
    BY <1>1, <1>2, CallsFit, CompaniesAsks
  <1>3. CASE UNCHANGED C!requests
    BY <1>1, <1>3, CompaniesNoFlow
  <1> QED BY <1>2, <1>3 DEF C!Expand

LEMMA CompanyAsked ==
  ASSUME CompaniesInv, NEW f \in Flow,
         \/ C!OnCreateCompany(f)
         \/ \E c \in Company : C!OnDeactivateCompany(f, c)
  PROVE  CompaniesInv'
  <1>1. CompaniesRows' /\ ScopesKeepCompany
    BY CompaniesRowsStay DEF C!OnCreateCompany, C!OnDeactivateCompany
  <1>2. CASE C!OnCreateCompany(f)
    BY <1>1, <1>2, CallsFit, CompaniesAsks DEF C!OnCreateCompany
  <1>3. ASSUME NEW c \in Company, C!OnDeactivateCompany(f, c)
        PROVE  CompaniesInv'
    BY <1>1, <1>3, CallsFit, CompaniesAsks DEF C!OnDeactivateCompany
  <1> QED BY <1>2, <1>3

LEMMA ScopeEndAsked ==
  ASSUME CompaniesInv, NEW f \in Flow, C!OnDeactivateScope(f)
  PROVE  CompaniesInv'
  <1>1. CompaniesRows' /\ ScopesKeepCompany
    BY CompaniesRowsStay DEF C!OnDeactivateScope
  <1>2. PICK c \in C!Holder :
          C!Ask(f, [C!NoCall EXCEPT !.op = "deactivateScope", !.company = c,
                                    !.scope = selectedScope], {}, {c})
    BY DEF C!OnDeactivateScope
  <1>3. c \in Company /\ selectedScope \in Scope
    BY DEF C!Holder, CompaniesInv, CompaniesRows, OfCompany
  <1> QED BY <1>1, <1>2, <1>3, CallsFit, CompaniesAsks

\* A change of a Company is done.
LEMMA CompanyDoneKeeps ==
  ASSUME CompaniesInv, NEW f \in Flow, C!CompanyDone(f)
  PROVE  CompaniesInv'
  <1>1. /\ CompaniesCall(f)
        /\ flow[f].call.op \in {"createCompany", "deactivateCompany"}
    BY CompaniesUnderWay, CompaniesRequests DEF C!CompanyDone
  <1>2. flow[f].lists = {} /\ flow[f].touches = {"companies"}
    BY <1>1 DEF CompaniesCall
  <1>3. loading' \in BOOLEAN => CompaniesRows' /\ ScopesKeepCompany
    BY CompaniesClick DEF C!CompanyDone, CompaniesInv, CompaniesRows
  <1>4. CASE C!Refresh(f)
    BY <1>2, <1>3, <1>4, CallsFit, CompaniesThen DEF C!Refresh
  <1>5. CASE ~flow[f].ok /\ C!End(f) /\ UNCHANGED loading
    BY <1>2, <1>3, <1>5, CompaniesEnd DEF CompaniesInv, CompaniesRows
  <1> QED BY <1>4, <1>5 DEF C!CompanyDone

LEMMA ScopeDeactivatedKeeps ==
  ASSUME CompaniesInv, NEW f \in Flow, C!ScopeDeactivated(f)
  PROVE  CompaniesInv'
  <1> DEFINE c == flow[f].call.company
  <1>1. CompaniesCall(f) /\ flow[f].call.op = "deactivateScope"
    BY CompaniesUnderWay, CompaniesRequests DEF C!ScopeDeactivated
  <1>2. flow[f].lists = {} /\ flow[f].touches = {c} /\ c \in Company
    BY <1>1 DEF CompaniesCall
  <1>3. CompaniesRows' /\ ScopesKeepCompany
    BY CompaniesRowsStay DEF C!ScopeDeactivated
  <1>4. CASE C!Then(f, C!ScopesCall(c, "deactivated"), {c})
    BY <1>2, <1>3, <1>4, CallsFit, CompaniesThen
  <1>5. CASE ~flow[f].ok /\ C!End(f)
    BY <1>2, <1>3, <1>5, CompaniesEnd
  <1> QED BY <1>4, <1>5 DEF C!ScopeDeactivated

\* The Companies are listed: the wizard is there with its Company's row.
LEMMA CompaniesComeKeeps ==
  ASSUME CompaniesInv, NEW f \in Flow, C!CompaniesCome(f)
  PROVE  CompaniesInv'
  <1>1. CompaniesCall(f) /\ flow[f].call.op = "companies" /\ RequestsInv
    BY CompaniesUnderWay, CompaniesRequests DEF C!CompaniesCome
  <1>2. /\ flow' = [flow EXCEPT ![f] = R!NoFlow]
        /\ R!Showing(f) \/ R!NotShowing(f)
    BY CompaniesRequests DEF C!CompaniesCome
  <1>3. /\ RequestsInv' /\ flow'[f] = R!NoFlow
        /\ \A g \in Flow \ {f} : flow'[g] = flow[g]
    BY <1>1, <1>2, ShowStep, NoFlowIs DEF CompaniesCall
  <1>4. DOMAIN companies' \subseteq Company
    BY <1>1 DEF C!CompaniesCome, CompaniesCall, CompaniesInv, CompaniesRows
  <1>5. WizardIs'
    <2>1. /\ wizard' = IF wizardCompany \notin DOMAIN companies' THEN C!NoWizard
                       ELSE IF C!WizardShown THEN wizard ELSE C!FirstStep
          /\ wizardCompany' = wizardCompany
      BY DEF C!CompaniesCome
    <2>2. /\ C!FirstStep \in Wizard /\ C!NoWizard \in Wizard
          /\ C!FirstStep.step = 1 /\ C!NoWizard.step = 0
      BY WizardRecords
    <2>3. /\ wizardCompany \in Company \cup {Nothing} /\ wizard \in Wizard
          /\ C!WizardShown => wizard.step # 0 /\ wizard # C!NoWizard
      BY DEF CompaniesInv, CompaniesRows, Wizard
    <2> QED BY <2>1, <2>2, <2>3 DEF WizardIs, C!WizardShown
  <1>6. CompaniesRows' /\ ScopesKeepCompany
    BY <1>4, <1>5
    DEF C!CompaniesCome, CompaniesInv, CompaniesRows, C!rows, OfCompany,
        ScopesKeepCompany, WizardIs, Wizard
  <1> QED BY <1>3, <1>6, CompaniesFlow

LEMMA ScopesComeKeeps ==
  ASSUME CompaniesInv, NEW f \in Flow, C!ScopesCome(f)
  PROVE  CompaniesInv'
  <1> DEFINE call == flow[f].call
             next == IF call.after = "none" THEN R!NoFlow
                     ELSE R!Asked(C!NoCall, {"companies"}, {})
             row == IF flow[f].ok THEN next ELSE R!NoFlow
  <1>1. CompaniesCall(f) /\ call.op = "scopes" /\ RequestsInv
    BY CompaniesUnderWay, CompaniesRequests DEF C!ScopesCome
  <1>2. flow' = [flow EXCEPT ![f] = row] /\ (R!Showing(f) \/ R!NotShowing(f))
    <2>1. flow[f].ok \in BOOLEAN
      BY <1>1 DEF RequestsInv, IsFlow, IsRow
    <2> QED BY <2>1, CompaniesRequests DEF C!ScopesCome
  <1>3. row \in {R!NoFlow, R!Asked(C!NoCall, {"companies"}, {})}
    OBVIOUS
  <1> HIDE DEF row, next
  <1>4. /\ RequestsInv' /\ flow'[f] = row
        /\ \A g \in Flow \ {f} : flow'[g] = flow[g]
    <2>1. IsRow(row)
      BY <1>3, NoFlowIs, AskedIs
    <2>2. flow[f].touches = {}
      BY <1>1 DEF CompaniesCall
    <2> QED BY <1>1, <1>2, <2>1, <2>2, ShowStep
  <1>5. flow'[f] # R!NoFlow => CompaniesCall(f)'
    BY <1>3, <1>4, CallsFit, AskedFits
  <1>6. /\ scopesByCompany' = [c \in Company |-> scopesByCompany'[c]]
        /\ \A c \in Company :
             scopesByCompany'[c] # Nothing => OfCompany(scopesByCompany'[c], c)
        /\ expanded' \in Company \cup {Nothing} /\ loading' \in BOOLEAN
    <2>1. CASE /\ flow[f].ok
               /\ scopesByCompany' =
                    [scopesByCompany EXCEPT ![call.company] = flow[f].answer]
               /\ expanded' = IF call.after = "created" THEN call.company
                              ELSE expanded
               /\ loading' = (loading \/ call.after # "none")
      <3>1. OfCompany(flow[f].answer, call.company) /\ call.company \in Company
        BY <1>1, <2>1 DEF CompaniesCall
      <3>2. /\ scopesByCompany = [c \in Company |-> scopesByCompany[c]]
            /\ \A c \in Company :
                 scopesByCompany[c] # Nothing => OfCompany(scopesByCompany[c], c)
            /\ expanded \in Company \cup {Nothing} /\ loading \in BOOLEAN
        BY DEF CompaniesInv, CompaniesRows
      <3>3. \A c \in Company : scopesByCompany'[c] =
              IF c = call.company THEN flow[f].answer ELSE scopesByCompany[c]
        BY <2>1, <3>1, <3>2
      <3>4. scopesByCompany' = [c \in Company |-> scopesByCompany'[c]]
        BY <2>1, <3>2
      <3> QED BY <2>1, <3>1, <3>2, <3>3, <3>4
    <2>2. CASE UNCHANGED <<scopesByCompany, expanded, loading>>
      BY <2>2 DEF CompaniesInv, CompaniesRows
    <2> QED BY <2>1, <2>2 DEF C!ScopesCome
  <1>7. CompaniesRows' /\ ScopesKeepCompany
    <2>1. UNCHANGED <<C!rows, companies, selectedScope, wizardCompany, wizard>>
      BY DEF C!ScopesCome
    <2> QED BY <1>6, <2>1
          DEF CompaniesInv, CompaniesRows, C!rows, C!WizardShown, OfCompany,
              ScopesKeepCompany
  <1> QED BY <1>4, <1>5, <1>7, CompaniesFlow

---------------------------------------------------------------------------
(* The wizard *)

LEMMA WizardOpened ==
  ASSUME CompaniesConstants, CompaniesInv,
         C!OnCancel \/ \E c \in Company : C!OpenWizard(c)
  PROVE  CompaniesInv'
  <1>1. WizardIs'
    <2>1. CASE C!OnCancel
      BY <2>1, WizardCloses DEF C!OnCancel, C!lists
    <2>2. ASSUME NEW c \in Company, C!OpenWizard(c)
          PROVE  WizardIs'
      <3>1. c \in DOMAIN companies
        BY <2>2 DEF C!OpenWizard, C!Open, C!Clickable
      <3> QED BY <2>2, <3>1, WizardRecords
            DEF C!OpenWizard, WizardIs, C!WizardShown, C!lists
    <2> QED BY <2>1, <2>2
  <1> QED BY <1>1, CompaniesWizard, CompaniesNoFlow DEF C!OnCancel, C!OpenWizard

\* What is entered.
LEMMA WizardEdited ==
  ASSUME CompaniesInv, C!Edit \/ C!Continue \/ C!Back
  PROVE  CompaniesInv'
  <1>1. wizard \in Wizard
    BY DEF CompaniesInv, CompaniesRows, Wizard
  <1>2. PICK next \in Wizard : next.step # 0 /\ C!InWizard(next)
    <2>1. CASE C!Edit
      <3>1. PICK k \in Key : wizard.step \in {1, 2}
                             /\ C!InWizard([wizard EXCEPT !.key = k])
        BY <2>1 DEF C!Edit
      <3> DEFINE new == [wizard EXCEPT !.key = k]
      <3>2. new \in Wizard /\ new.step # 0 /\ C!InWizard(new)
        BY <1>1, <3>1 DEF Wizard
      <3> HIDE DEF new
      <3> QED BY <3>2
    <2>2. CASE C!Continue
      <3> DEFINE new == [wizard EXCEPT !.step = 2]
      <3>1. new \in Wizard /\ new.step = 2
        BY <1>1 DEF Wizard
      <3>2. C!InWizard(new)
        BY <2>2 DEF C!Continue
      <3> HIDE DEF new
      <3> QED BY <3>1, <3>2
    <2>3. CASE C!Back
      <3> DEFINE n == wizard.step - 1
                 new == [wizard EXCEPT !.step = n]
      <3>1. wizard.step \in {2, 3} /\ C!InWizard(new)
        BY <2>3 DEF C!Back
      <3>2. n \in 0..3 /\ n # 0
        BY <3>1
      <3> HIDE DEF n
      <3>3. new \in Wizard /\ new.step # 0
        BY <1>1, <3>2 DEF Wizard
      <3> HIDE DEF new
      <3> QED BY <3>1, <3>3
    <2> QED BY <2>1, <2>2, <2>3
  <1>3. WizardIs'
    BY <1>2, WizardStays DEF C!InWizard, C!lists
  <1> QED BY <1>2, <1>3, CompaniesWizard, CompaniesNoFlow DEF C!InWizard

\* The wizard asks about what is entered.
LEMMA WizardAsked ==
  ASSUME CompaniesInv, NEW f \in Flow, C!GoToReview(f) \/ C!ConfirmCreate(f)
  PROVE  CompaniesInv'
  <1>1. /\ C!WizardShown /\ wizard \in Wizard /\ wizardCompany \in Company
        /\ wizard.key \in Key \cup {Nothing}
        /\ UNCHANGED <<C!rows, C!lists, wizardCompany>>
    BY DEF CompaniesInv, CompaniesRows, Wizard, C!GoToReview, C!ConfirmCreate,
           C!WizardShown
  <1>2. WizardIs'
    <2>1. wizard' \in Wizard /\ wizard'.step = wizard.step /\ wizard.step # 0
      BY <1>1 DEF C!GoToReview, C!ConfirmCreate, Wizard
    <2> QED BY <1>1, <2>1, WizardStays DEF C!lists
  <1>3. CompaniesRows' /\ ScopesKeepCompany
    BY <1>1, <1>2, CompaniesWizard
  <1> DEFINE k == wizard.key
             checked == [C!NoCall EXCEPT !.op = "check", !.company = wizardCompany,
                                         !.key = k]
             created == [C!NoCall EXCEPT !.op = "create", !.company = wizardCompany,
                                         !.key = k]
  <1>4. k \in Key \cup {Nothing}
    BY <1>1
  <1> HIDE DEF k
  <1>5. Fits(checked, {}, {}) /\ Fits(created, {}, {wizardCompany})
    BY <1>1, <1>4, CallsFit
  <1>6. CASE C!GoToReview(f)
    <2>1. C!Ask(f, checked, {}, {})
      BY <1>6 DEF C!GoToReview, k
    <2> HIDE DEF checked
    <2> QED BY <1>3, <1>5, <2>1, CompaniesAsks
  <1>7. CASE C!ConfirmCreate(f)
    <2>1. C!Ask(f, created, {}, {wizardCompany})
      BY <1>7 DEF C!ConfirmCreate, k
    <2> HIDE DEF created
    <2> QED BY <1>3, <1>5, <2>1, CompaniesAsks
  <1> QED BY <1>6, <1>7

\* A wizard that waits is there.
LEMMA WaitingWizard ==
  ASSUME CompaniesConstants, CompaniesInv, NEW f \in Flow,
         wizard.checking = f \/ wizard.submitting = f
  PROVE  C!WizardShown /\ wizard.step # 0
  BY DEF CompaniesInv, CompaniesRows, C!NoWizard, CompaniesConstants,
         C!NothingIsNothing

LEMMA CheckComes ==
  ASSUME CompaniesConstants, CompaniesInv, NEW f \in Flow, C!Checked(f)
  PROVE  CompaniesInv'
  <1>1. CompaniesCall(f) /\ flow[f].call.op = "check" /\ C!End(f)
    BY CompaniesUnderWay, CompaniesRequests DEF C!Checked
  <1>2. /\ flow[f].lists = {} /\ flow[f].touches = {}
        /\ flow[f].ok => flow[f].answer \in BOOLEAN
    BY <1>1 DEF CompaniesCall
  <1>3. CompaniesRows' /\ ScopesKeepCompany
    <2>1. UNCHANGED <<C!rows, C!lists, wizardCompany>> /\ wizard \in Wizard
      BY DEF C!Checked, CompaniesInv, CompaniesRows, Wizard
    <2>2. CASE wizard.checking # f
      BY <2>1, <2>2, CompaniesRowsStay DEF C!Checked
    <2>3. CASE wizard.checking = f
      <3>1. C!WizardShown /\ wizard.step # 0
        BY <2>3, WaitingWizard
      <3>2. wizard' \in Wizard /\ wizard'.step # 0
        <4>1. CASE ~flow[f].ok
          <5>1. wizard' = [wizard EXCEPT !.checking = Nothing]
            BY <2>3, <4>1 DEF C!Checked
          <5> QED BY <2>1, <3>1, <5>1 DEF Wizard
        <4>2. CASE flow[f].ok
          <5> DEFINE d == flow[f].answer
          <5>1. d \in BOOLEAN
            BY <1>2, <4>2
          <5>2. wizard' = [wizard EXCEPT !.checking = Nothing, !.step = 3,
                                         !.duplicate = d]
            BY <2>3, <4>2 DEF C!Checked
          <5> HIDE DEF d
          <5> DEFINE w1 == [wizard EXCEPT !.checking = Nothing]
                     w2 == [w1 EXCEPT !.step = 3]
                     w3 == [w2 EXCEPT !.duplicate = d]
          <5>3. wizard' = w3
            BY <5>2
          <5>4. w1 \in Wizard
            BY <2>1 DEF Wizard
          <5> HIDE DEF w1
          <5>5. w2 \in Wizard /\ w2.step = 3
            BY <5>4 DEF Wizard
          <5> HIDE DEF w2
          <5>6. w3 \in Wizard /\ w3.step = w2.step
            BY <5>1, <5>5 DEF Wizard
          <5> QED BY <5>3, <5>5, <5>6
        <4> QED BY <4>1, <4>2
      <3>3. WizardIs'
        BY <2>1, <3>1, <3>2, WizardStays DEF C!lists
      <3> QED BY <2>1, <3>3, CompaniesWizard
    <2> QED BY <2>2, <2>3
  <1> QED BY <1>1, <1>2, <1>3, CompaniesEnd

LEMMA CreationComes ==
  ASSUME CompaniesConstants, CompaniesInv, NEW f \in Flow, C!Created(f)
  PROVE  CompaniesInv'
  <1> DEFINE c == flow[f].call.company
  <1>1. CompaniesCall(f) /\ flow[f].call.op = "create"
        /\ UNCHANGED <<C!rows, C!lists>>
    BY CompaniesUnderWay, CompaniesRequests DEF C!Created
  <1>2. flow[f].lists = {} /\ flow[f].touches = {c} /\ c \in Company
    BY <1>1 DEF CompaniesCall
  <1>3. CASE /\ C!Then(f, C!ScopesCall(c, "created"), {c})
             /\ wizardCompany' = Nothing /\ wizard' = C!NoWizard
    <2>1. CompaniesRows' /\ ScopesKeepCompany
      BY <1>1, <1>3, WizardCloses, CompaniesWizard DEF C!lists
    <2> QED BY <1>2, <1>3, <2>1, CallsFit, CompaniesThen
  <1>4. CASE /\ ~flow[f].ok /\ C!End(f) /\ UNCHANGED wizardCompany
             /\ wizard' = IF wizard.submitting # f THEN wizard
                          ELSE [wizard EXCEPT !.submitting = Nothing]
    <2>1. CASE wizard.submitting # f
      BY <1>1, <1>2, <1>4, <2>1, CompaniesRowsStay, CompaniesEnd
    <2>2. CASE wizard.submitting = f
      <3>1. C!WizardShown /\ wizard.step # 0
        BY <2>2, WaitingWizard
      <3>2. wizard' \in Wizard /\ wizard'.step # 0
        BY <1>4, <2>2, <3>1 DEF CompaniesInv, CompaniesRows, Wizard
      <3>3. WizardIs'
        BY <1>1, <1>4, <3>1, <3>2, WizardStays DEF C!lists
      <3> QED BY <1>1, <1>2, <1>4, <3>3, CompaniesWizard, CompaniesEnd
    <2> QED BY <2>1, <2>2
  <1> QED BY <1>3, <1>4 DEF C!Created

---------------------------------------------------------------------------
(* The API, and other administrators *)

\* A call is refused, or its answer is lost.
LEMMA CompaniesFailed ==
  ASSUME CompaniesInv, NEW f \in Flow, CompaniesRows', ScopesKeepCompany,
         (flow[f].stage = "asked" /\ R!Refuse(f)) \/ R!Drop(f)
  PROVE  CompaniesInv'
  <1>1. /\ RequestsInv' /\ ~flow'[f].ok /\ flow'[f].call = flow[f].call
        /\ flow'[f].lists = flow[f].lists /\ flow'[f].touches = flow[f].touches
        /\ \A g \in Flow \ {f} : flow'[g] = flow[g]
    BY RefuseStep, DropStep DEF CompaniesInv
  <1>2. flow[f].stage # "none"
    BY DEF R!Drop
  <1>3. CompaniesCall(f)'
    BY <1>1, <1>2, CompaniesUnderWay DEF CompaniesCall
  <1> QED BY <1>1, <1>3, CompaniesFlow

\* A call is answered with what it lists.
LEMMA CompaniesTold ==
  ASSUME CompaniesInv, NEW f \in Flow, NEW answer, flow[f].stage = "asked",
         R!Tell(f, answer), CompaniesRows', ScopesKeepCompany,
         flow[f].call.op = "companies" => DOMAIN answer \subseteq Company,
         flow[f].call.op = "scopes" =>
           DOMAIN answer \subseteq Scope
             /\ \A s \in DOMAIN answer : scope'[s].company = flow[f].call.company,
         flow[f].call.op = "check" => answer \in BOOLEAN
  PROVE  CompaniesInv'
  <1>1. /\ RequestsInv' /\ flow'[f].answer = answer /\ flow'[f].ok
        /\ flow'[f].call = flow[f].call /\ flow'[f].lists = flow[f].lists
        /\ flow'[f].touches = flow[f].touches
        /\ \A g \in Flow \ {f} : flow'[g] = flow[g]
    BY TellStep DEF CompaniesInv
  <1>2. CompaniesCall(f)
    BY CompaniesUnderWay
  <1>3. CompaniesCall(f)'
    BY <1>1, <1>2 DEF CompaniesCall, OfCompany
  <1> QED BY <1>1, <1>3, CompaniesFlow

\* A change is made.
LEMMA CompaniesChanged ==
  ASSUME CompaniesInv, NEW f \in Flow, flow[f].stage = "asked",
         flow[f].call.op \notin {"companies", "scopes", "check"},
         R!Change(f, Nothing), CompaniesRows', ScopesKeepCompany
  PROVE  CompaniesInv'
  <1>1. /\ RequestsInv'
        /\ \A g \in Flow :
             /\ flow'[g].call = flow[g].call /\ flow'[g].lists = flow[g].lists
             /\ flow'[g].touches = flow[g].touches
             /\ g # f => flow'[g].ok = flow[g].ok /\ flow'[g].answer = flow[g].answer
             /\ flow'[g] = R!NoFlow <=> flow[g] = R!NoFlow
    BY ChangeStep DEF CompaniesInv
  <1>2. ASSUME NEW g \in Flow, flow'[g] # R!NoFlow
        PROVE  CompaniesCall(g)'
    <2>1. CompaniesCall(g)
      BY <1>1, <1>2 DEF CompaniesInv, CompaniesCalls
    <2>2. CASE g = f
      BY <1>1, <2>1, <2>2 DEF CompaniesCall
    <2>3. CASE g # f
      BY <1>1, <2>1, <2>3, CompaniesCallStays
    <2> QED BY <2>2, <2>3
  <1> QED BY <1>1, <1>2 DEF CompaniesInv, CompaniesCalls

\* What an effect does to the rows: a Company or a Business Scope has another
\* status, or is new.
RowsChange ==
  \/ UNCHANGED scope /\ company' \in [Company -> C!Status]
  \/ /\ UNCHANGED company
     /\ scope' \in [Scope -> [status : C!Status, company : Company \cup {Nothing},
                              key : Key \cup {Nothing}]]
     /\ ScopesKeepCompany

LEMMA CompaniesChange ==
  ASSUME CompaniesInv, C!NewCompany \/ \E c \in Company : C!EndCompany(c)
  PROVE  RowsChange
  <1>1. company \in [Company -> C!Status]
        /\ "ACTIVE" \in C!Status /\ "INACTIVE" \in C!Status
    BY DEF CompaniesInv, CompaniesRows, C!Status
  <1> QED BY <1>1 DEF C!NewCompany, C!EndCompany, RowsChange

LEMMA ScopesChange ==
  ASSUME CompaniesConstants, CompaniesInv,
         \/ \E c \in Company, k \in Key \cup {Nothing} : C!NewScope(c, k)
         \/ \E s \in Scope : C!EndScope(s)
  PROVE  RowsChange
  <1> DEFINE Row == [status : C!Status, company : Company \cup {Nothing},
                     key : Key \cup {Nothing}]
  <1>1. /\ scope \in [Scope -> Row]
        /\ "ACTIVE" \in C!Status /\ "INACTIVE" \in C!Status
    BY DEF CompaniesInv, CompaniesRows, C!Status
  <1>2. ASSUME NEW c \in Company, NEW k \in Key \cup {Nothing}, C!NewScope(c, k)
        PROVE  RowsChange
    <2>1. PICK s \in Scope :
            /\ scope[s] = C!NoScope
            /\ scope' = [scope EXCEPT ![s] =
                 [status |-> "ACTIVE", company |-> c, key |-> k]]
      BY <1>2 DEF C!NewScope
    <2> DEFINE row == [status |-> "ACTIVE", company |-> c, key |-> k]
    <2>2. row \in Row
      BY <1>1
    <2>3. scope[s].company \notin Company
      BY <2>1 DEF C!NoScope, CompaniesConstants, C!NothingIsNothing
    <2>4. scope' = [scope EXCEPT ![s] = row]
      BY <2>1
    <2> HIDE DEF row, Row
    <2>5. scope' \in [Scope -> Row]
      BY <1>1, <2>2, <2>4
    <2>6. ScopesKeepCompany
      BY <1>1, <2>3, <2>4 DEF ScopesKeepCompany
    <2> QED BY <1>2, <2>5, <2>6 DEF C!NewScope, RowsChange, Row
  <1>3. ASSUME NEW s \in Scope, C!EndScope(s)
        PROVE  RowsChange
    <2> DEFINE row == [scope[s] EXCEPT !.status = "INACTIVE"]
    <2>1. scope' = [scope EXCEPT ![s] = row] /\ UNCHANGED company
      BY <1>3 DEF C!EndScope
    <2>2. row \in Row /\ row.company = scope[s].company
      BY <1>1
    <2> HIDE DEF row, Row
    <2>3. scope' \in [Scope -> Row]
      BY <1>1, <2>1, <2>2
    <2>4. ScopesKeepCompany
      BY <1>1, <2>1, <2>2 DEF ScopesKeepCompany
    <2> QED BY <2>1, <2>3, <2>4 DEF RowsChange, Row
  <1> QED BY <1>2, <1>3

\* A change is counted.
LEMMA CompaniesCounted ==
  ASSUME CompaniesConstants, CompaniesInv, C!Counted, RowsChange,
         UNCHANGED <<C!lists, wizardCompany, wizard>>
  PROVE  CompaniesRows' /\ ScopesKeepCompany
  <1>1. changes' \in 0..CompaniesChanges
    BY DEF C!Counted, CompaniesInv, CompaniesRows, CompaniesConstants,
           C!ChangesAreCounted
  <1>2. ScopesKeepCompany
    BY DEF RowsChange, ScopesKeepCompany
  <1>3. /\ company' \in [Company -> C!Status]
        /\ scope' \in [Scope -> [status : C!Status,
                                 company : Company \cup {Nothing},
                                 key : Key \cup {Nothing}]]
    BY DEF RowsChange, CompaniesInv, CompaniesRows
  <1>4. \A c \in Company :
          scopesByCompany'[c] # Nothing => OfCompany(scopesByCompany[c], c)'
    BY <1>2, OfCompanyStays DEF CompaniesInv, CompaniesRows, C!lists
  <1>5. UNCHANGED <<companies, scopesByCompany, expanded, selectedScope, loading,
                    wizardCompany, wizard>>
    BY DEF C!lists
  <1>6. C!WizardShown' <=> C!WizardShown
    BY <1>5 DEF C!WizardShown
  <1> QED BY <1>1, <1>2, <1>3, <1>4, <1>5, <1>6 DEF CompaniesInv, CompaniesRows

LEMMA CompaniesServed ==
  ASSUME CompaniesConstants, CompaniesInv, NEW f \in Flow, C!Serve(f)
  PROVE  CompaniesInv'
  <1> DEFINE call == flow[f].call
  <1>1. /\ flow[f].stage = "asked" /\ CompaniesCall(f)
        /\ UNCHANGED <<C!lists, wizardCompany, wizard>>
    BY CompaniesUnderWay DEF C!Serve
  <1>2. UNCHANGED C!rows => CompaniesRows' /\ ScopesKeepCompany
    BY <1>1, CompaniesRowsStay
  <1>3. CASE UNCHANGED C!rows /\ C!Refuse(f)
    BY <1>1, <1>2, <1>3, CompaniesFailed, CompaniesRequests
  <1>4. CASE /\ UNCHANGED C!rows /\ call.op = "companies"
             /\ C!Tell(f, [c \in C!Companies |-> company[c]])
    <2> DEFINE answer == [c \in C!Companies |-> company[c]]
    <2>1. DOMAIN answer \subseteq Company
      BY DEF C!Companies
    <2>2. R!Tell(f, answer)
      BY <1>4, CompaniesRequests
    <2> HIDE DEF answer
    <2> QED BY <1>1, <1>2, <1>4, <2>1, <2>2, CompaniesTold
  <1>5. CASE /\ UNCHANGED C!rows /\ call.op = "scopes"
             /\ C!Tell(f, [s \in C!ScopesOf(call.company) |-> scope[s].status])
    <2> DEFINE answer == [s \in C!ScopesOf(call.company) |-> scope[s].status]
    <2>1. DOMAIN answer \subseteq Scope
            /\ \A s \in DOMAIN answer : scope[s].company = call.company
      BY DEF C!ScopesOf
    <2>2. R!Tell(f, answer) /\ scope' = scope
      BY <1>5, CompaniesRequests DEF C!rows
    <2> HIDE DEF answer
    <2> QED BY <1>1, <1>2, <1>5, <2>1, <2>2, CompaniesTold
  <1>6. CASE /\ UNCHANGED C!rows /\ call.op = "check"
             /\ C!Tell(f, C!KeyTaken(call.company, call.key))
    <2> DEFINE answer == C!KeyTaken(call.company, call.key)
    <2>1. answer \in BOOLEAN
      BY DEF C!KeyTaken
    <2>2. R!Tell(f, answer)
      BY <1>6, CompaniesRequests
    <2> HIDE DEF answer
    <2> QED BY <1>1, <1>2, <1>6, <2>1, <2>2, CompaniesTold
  <1>7. CASE C!Counted /\ C!Effect(call) /\ C!Change(f, Nothing)
    <2>1. /\ call.op \in {"createCompany", "deactivateCompany", "create",
                          "deactivateScope"}
          /\ call.op \in {"deactivateCompany", "create"} => call.company \in Company
          /\ call.op = "deactivateScope" => call.scope \in Scope
          /\ call.key \in Key \cup {Nothing}
      BY <1>1, <1>7 DEF C!Effect, CompaniesCall, C!Call
    <2>2. RowsChange
      <3>1. CASE C!NewCompany \/ \E c \in Company : C!EndCompany(c)
        BY <3>1, CompaniesChange
      <3>2. CASE \/ \E c \in Company, k \in Key \cup {Nothing} : C!NewScope(c, k)
                 \/ \E s \in Scope : C!EndScope(s)
        BY <3>2, ScopesChange
      <3> HIDE DEF call
      <3> QED BY <1>7, <2>1, <3>1, <3>2 DEF C!Effect
    <2>3. CompaniesRows' /\ ScopesKeepCompany
      BY <1>1, <1>7, <2>2, CompaniesCounted
    <2> QED BY <1>1, <1>7, <2>1, <2>3, CompaniesChanged, CompaniesRequests
  <1> QED BY <1>3, <1>4, <1>5, <1>6, <1>7 DEF C!Serve

LEMMA CompaniesOthers ==
  ASSUME CompaniesConstants, CompaniesInv, C!Others
  PROVE  CompaniesInv'
  <1>1. C!Counted /\ UNCHANGED <<C!requests, C!lists, wizardCompany, wizard>>
    BY DEF C!Others
  <1>2. RowsChange
    BY CompaniesChange, ScopesChange DEF C!Others
  <1>3. CompaniesRows' /\ ScopesKeepCompany
    BY <1>1, <1>2, CompaniesCounted
  <1> QED BY <1>1, <1>3, CompaniesNoFlow

---------------------------------------------------------------------------
LEMMA CompaniesStarts ==
  ASSUME CompaniesConstants, C!Init
  PROVE  CompaniesInv
  <1>1. /\ company \in [Company -> {"NONE", "ACTIVE"}]
        /\ scope = [s \in Scope |-> C!NoScope] /\ changes = 0
        /\ companies = <<>> /\ scopesByCompany = [c \in Company |-> Nothing]
        /\ expanded = Nothing /\ selectedScope = Nothing /\ loading = TRUE
        /\ wizardCompany = Nothing /\ wizard = C!NoWizard /\ unseen = {}
    BY DEF C!Init
  <1>2. CompaniesRows
    <2>1. 0 \in 0..CompaniesChanges
      BY DEF CompaniesConstants, C!ChangesAreCounted
    <2>2. DOMAIN companies = {}
      BY <1>1
    <2>3. company \in [Company -> C!Status]
      BY <1>1 DEF C!Status
    <2>4. C!NoScope \in [status : C!Status, company : Company \cup {Nothing},
                         key : Key \cup {Nothing}]
      BY DEF C!NoScope, C!Status
    <2>5. wizard \in Wizard
      BY <1>1, WizardRecords
    <2> QED BY <1>1, <2>1, <2>2, <2>3, <2>4, <2>5
          DEF CompaniesRows, Wizard, C!WizardShown
  <1> DEFINE call == C!NoCall
  <1>3. Fits(call, {"companies"}, {})
    BY CallsFit
  <1>4. PICK f \in Flow :
          flow = [g \in Flow |-> IF g = f THEN R!Asked(call, {"companies"}, {})
                                 ELSE R!NoFlow]
    BY CompaniesRequests DEF C!Init
  <1> HIDE DEF call
  <1>5. IsFlow
    BY <1>4, AskedIs, NoFlowIs DEF IsFlow
  <1>6. CompaniesCalls
    <2>1. flow[f] = R!Asked(call, {"companies"}, {})
          /\ \A g \in Flow \ {f} : flow[g] = R!NoFlow
      BY <1>4
    <2>2. CompaniesCall(f)
      BY <1>3, <2>1, AskedIs DEF CompaniesCall, Fits, IsRow, C!Call
    <2> QED BY <2>1, <2>2 DEF CompaniesCalls
  <1> QED BY <1>1, <1>2, <1>5, <1>6 DEF CompaniesInv, RequestsInv, ShownOrPending

LEMMA CompaniesStep ==
  ASSUME CompaniesConstants, CompaniesInv, C!Next
  PROVE  CompaniesInv'
  <1>1. ASSUME NEW f \in Flow,
               \/ C!OnCreateCompany(f) \/ C!OnDeactivateScope(f)
               \/ C!CompanyDone(f) \/ C!ScopeDeactivated(f)
               \/ C!CompaniesCome(f) \/ C!ScopesCome(f)
               \/ \E c \in Company : C!Expand(f, c) \/ C!OnDeactivateCompany(f, c)
        PROVE  CompaniesInv'
    BY <1>1, CompanyAsked, ScopeEndAsked, CompanyDoneKeeps,
       ScopeDeactivatedKeeps, CompaniesComeKeeps, ScopesComeKeeps, ExpandKeeps
  <1>2. ASSUME NEW f \in Flow,
               \/ C!GoToReview(f) \/ C!ConfirmCreate(f) \/ C!Checked(f)
               \/ C!Created(f)
        PROVE  CompaniesInv'
    BY <1>2, WizardAsked, CheckComes, CreationComes
  <1>3. ASSUME NEW f \in Flow, C!LoseAnswer(f)
        PROVE  CompaniesInv'
    BY <1>3, CompaniesRowsStay, CompaniesFailed, CompaniesRequests
    DEF C!LoseAnswer
  <1>4. ASSUME NEW c \in Company, C!Fold(c) \/ C!SelectScope(c) \/ C!OpenWizard(c)
        PROVE  CompaniesInv'
    BY <1>4, CompaniesClicked, WizardOpened
  <1> QED BY <1>1, <1>2, <1>3, <1>4, CompaniesServed, WizardOpened, WizardEdited,
        CompaniesOthers
     DEF C!Next

LEMMA CompaniesUnchanged == CompaniesInv /\ UNCHANGED C!vars => CompaniesInv'
  <1> SUFFICES ASSUME CompaniesInv, UNCHANGED C!vars PROVE CompaniesInv'
    OBVIOUS
  <1>1. UNCHANGED C!requests /\ UNCHANGED <<C!rows, C!lists, wizardCompany, wizard>>
    BY DEF C!vars
  <1> QED BY <1>1, CompaniesRowsStay, CompaniesNoFlow

LEMMA CompaniesKept ==
  ASSUME CompaniesConstants
  PROVE  C!Init /\ [][C!Next]_C!vars => []CompaniesInv
  BY CompaniesStarts, CompaniesStep, CompaniesUnchanged, PTL

---------------------------------------------------------------------------
(* The members                                                             *)

MemberViews == {"members", "invitations", "transfer"}

\* A list of members, with rights that were once chosen for them.
IsList(rows) ==
  /\ DOMAIN rows \subseteq Member
  /\ \A m \in DOMAIN rows :
       /\ rows[m] \in [row : M!MemberRow, isOwner : BOOLEAN]
       /\ rows[m].row.rights \subseteq given[m]

\* What is read of the lists, each as it is shown.
ReadIs(f) ==
  LET answer == flow[f].answer IN
  /\ "members" \in flow[f].read => IsList(answer["members"])
  /\ "invitations" \in flow[f].read =>
       answer["invitations"] \in [Invitation -> M!InvitationStatus]
  /\ "transfer" \in flow[f].read =>
       answer["transfer"] \in M!Proposal \cup {Nothing}

\* A call of the page.
MembersCall(f) ==
  LET call == flow[f].call IN
  /\ call \in M!Call
  /\ call.op = "list" => /\ flow[f].lists = MemberViews /\ flow[f].touches = {}
                         /\ flow[f].ok => flow[f].read = MemberViews
                         /\ ReadIs(f)
  /\ call.op # "list" => flow[f].lists = {} /\ flow[f].touches \subseteq MemberViews
  /\ call.op \in {"save", "propose"} => call.member \in Member
  /\ call.op = "save" => call.rights \subseteq given[call.member]

MembersCalls == \A f \in Flow : flow[f] # R!NoFlow => MembersCall(f)

MembersInv ==
  /\ M!TypeOK
  /\ \A m \in Member : member[m].rights \subseteq given[m]
  /\ IsList(members)
  /\ edit.member # Nothing => edit.rights \subseteq given[edit.member]
  /\ RequestsInv
  /\ MembersCalls

\* The requests of the page are those of R.
LEMMA MembersRequests ==
  /\ M!NoFlow = R!NoFlow
  /\ \A f, op : M!Waits(f, op) <=> flow[f].stage = "asked" /\ flow[f].call.op = op
  /\ \A f, op : M!Comes(f, op) <=> flow[f].stage = "answered" /\ flow[f].call.op = op
  /\ \A call, listed, touched :
       M!Asked(call, listed, touched) = R!Asked(call, listed, touched)
  /\ \A f, call, listed, touched :
       M!Ask(f, call, listed, touched) <=> R!Ask(f, call, listed, touched)
  /\ \A f : M!Refuse(f) <=> R!Refuse(f)
  /\ \A f : M!Drop(f) <=> R!Drop(f)
  /\ \A f : M!End(f) <=> R!End(f)
  /\ \A f : M!Showing(f) <=> R!Showing(f)
  /\ \A f : M!NotShowing(f) <=> R!NotShowing(f)
  /\ \A f, answer : M!Change(f, answer) <=> R!Change(f, answer)
  /\ \A f, call, listed : M!Then(f, call, listed) <=> R!Then(f, call, listed)
  /\ M!OwnWorkIsShown <=> R!OwnWorkIsShown
  BY DEF M!NoFlow, R!NoFlow, M!Waits, M!Comes, M!Asked, R!Asked, M!Ask, R!Ask,
         M!Refuse, R!Refuse, M!Drop, R!Drop, M!End, R!End, M!Showing, R!Showing,
         M!NotShowing, R!NotShowing, M!Change, R!Change, M!Then, R!Then,
         M!OwnWorkIsShown, R!OwnWorkIsShown, M!NoFlows, R!NoFlows

MembersConstants ==
  /\ M!NothingIsNothing /\ M!ViewsAreListed /\ M!ChangesAreCounted
  /\ M!MeIsAMember /\ M!OpeningsAreOwned

\* The rows that are there and those shown, without the calls.
MembersRows ==
  /\ member \in [Member -> M!MemberRow]
  /\ owner \in Member
  /\ invited \in [Invitation -> M!InvitationStatus]
  /\ transfer \in M!Proposal \cup {Nothing}
  /\ pendingTransfer \in M!Proposal \cup {Nothing}
  /\ changes \in 0..MembersChanges
  /\ isOwner \in BOOLEAN
  /\ invitations \in [Invitation -> M!InvitationStatus]
  /\ transferSuccessor \in Member \cup {Nothing}
  /\ edit \in [member : Member \cup {Nothing}, rights : SUBSET Right]
  /\ given \in [Member -> SUBSET Right]
  /\ \A m \in Member : member[m].rights \subseteq given[m]
  /\ IsList(members)
  /\ edit.member # Nothing => edit.rights \subseteq given[edit.member]

LEMMA MembersParts ==
  MembersInv <=> MembersRows /\ RequestsInv /\ MembersCalls
  BY MembersRequests
  DEF MembersInv, MembersCalls, MembersRows, M!TypeOK, MembersCall, IsList

LEMMA MembersPartsNext ==
  MembersInv' <=> MembersRows' /\ RequestsInv' /\ MembersCalls'
  BY MembersParts, PTL

\* Of the rows, what a call speaks of only grows.
GivenGrows == \A m \in Member : given[m] \subseteq given'[m]

LEMMA ListStays ==
  ASSUME NEW rows, IsList(rows), GivenGrows
  PROVE  IsList(rows)'
  BY DEF IsList, GivenGrows

\* Nothing of a call but "old" is changed.
SameCall(f) ==
  /\ flow'[f].call = flow[f].call /\ flow'[f].lists = flow[f].lists
  /\ flow'[f].touches = flow[f].touches /\ flow'[f].read = flow[f].read
  /\ flow'[f].ok = flow[f].ok /\ flow'[f].answer = flow[f].answer

LEMMA CallStays ==
  ASSUME NEW f \in Flow, MembersCall(f), GivenGrows, SameCall(f)
  PROVE  MembersCall(f)'
  <1>1. ReadIs(f) => ReadIs(f)'
    BY ListStays DEF ReadIs, SameCall
  <1> QED BY <1>1 DEF MembersCall, SameCall, GivenGrows

\* One flow goes on.
LEMMA OneFlow ==
  ASSUME MembersInv, NEW f \in Flow, RequestsInv', MembersRows', GivenGrows,
         \A g \in Flow \ {f} : flow'[g] = flow[g],
         flow'[f] # R!NoFlow => MembersCall(f)'
  PROVE  MembersInv'
  <1>1. ASSUME NEW g \in Flow, flow'[g] # R!NoFlow
        PROVE  MembersCall(g)'
    <2>1. CASE g = f
      BY <1>1, <2>1
    <2>2. CASE g # f
      BY <1>1, <2>2, MembersParts, CallStays DEF SameCall, MembersCalls
    <2> QED BY <2>1, <2>2
  <1> QED BY <1>1, MembersPartsNext DEF MembersCalls

\* The rows are left alone.
LEMMA RowsStay ==
  ASSUME MembersInv,
         UNCHANGED <<M!rows, isOwner, M!lists, transferSuccessor, edit, given>>
  PROVE  MembersRows' /\ GivenGrows
  BY MembersParts DEF MembersRows, GivenGrows, M!rows, M!lists, IsList

LEMMA StillStays ==
  ASSUME MembersInv, M!Still
  PROVE  MembersRows' /\ GivenGrows
  BY RowsStay DEF M!Still, M!Keep

---------------------------------------------------------------------------
Ops == {"list", "suspend", "reactivate", "remove", "promote", "save",
        "invite", "resend", "revoke", "propose", "cancel", "accept"}

LEMMA NewCallIs ==
  ASSUME MembersConstants, NEW op \in Ops
  PROVE  /\ M!NewCall(op) \in M!Call /\ M!NewCall(op).op = op
         /\ \A m \in Member : /\ M!OnMember(op, m) \in M!Call
                              /\ M!OnMember(op, m).op = op
                              /\ M!OnMember(op, m).member = m
  <1> DEFINE call == M!NewCall(op)
  <1>1. 0 \in 0..MembersChanges
    BY DEF MembersConstants, M!ChangesAreCounted
  <1>2. call \in M!Call /\ call.op = op
    BY <1>1 DEF M!NewCall, M!Call, Ops
  <1>3. \A m : M!OnMember(op, m) = [call EXCEPT !.member = m]
    BY DEF M!OnMember
  <1> HIDE DEF call
  <1>4. ASSUME NEW m \in Member
        PROVE  LET c == [call EXCEPT !.member = m] IN
               c \in M!Call /\ c.op = op /\ c.member = m
    BY <1>2 DEF M!Call
  <1> QED BY <1>2, <1>3, <1>4 DEF call

\* An action of the page begins.
LEMMA ActKeeps ==
  ASSUME MembersInv, NEW f \in Flow, NEW call \in M!Call,
         NEW touched \in SUBSET MemberViews, M!Act(f, call, touched),
         call.op # "list",
         call.op \in {"save", "propose"} => call.member \in Member,
         call.op = "save" => call.rights \subseteq given[call.member]
  PROVE  MembersInv'
  <1>1. MembersRows' /\ GivenGrows /\ R!Ask(f, call, {}, touched)
    BY StillStays, MembersRequests DEF M!Act
  <1>2. /\ RequestsInv' /\ flow'[f] = R!Asked(call, {}, touched)
        /\ \A g \in Flow \ {f} : flow'[g] = flow[g]
    BY <1>1, AskStep DEF MembersInv
  <1>3. /\ flow'[f].call = call /\ flow'[f].lists = {}
        /\ flow'[f].touches = touched
    BY <1>2, AskedIs
  <1>4. call.op = "save" => call.rights \subseteq given'[call.member]
    BY <1>1 DEF GivenGrows
  <1>5. MembersCall(f)'
    BY <1>3, <1>4 DEF MembersCall
  <1> QED BY <1>1, <1>2, <1>5, OneFlow

LEMMA SaveKeeps ==
  ASSUME MembersConstants, MembersInv, NEW f \in Flow, M!Save(f)
  PROVE  MembersInv'
  <1> DEFINE call == [M!OnMember("save", edit.member) EXCEPT !.rights = edit.rights]
  <1>1. /\ edit.member \in Member /\ edit.rights \subseteq given[edit.member]
        /\ edit.rights \in SUBSET Right
    BY MembersParts
    DEF M!Save, M!EditorShown, MembersRows, IsList, MembersConstants,
        M!NothingIsNothing
  <1>2. /\ call \in M!Call /\ call.op = "save" /\ call.member = edit.member
        /\ call.rights = edit.rights
    BY <1>1, NewCallIs DEF Ops, M!Call
  <1>3. M!Act(f, call, {"members"})
    BY DEF M!Save
  <1> HIDE DEF call
  <1> QED BY <1>1, <1>2, <1>3, ActKeeps DEF MemberViews

LEMMA MemberActionKeeps ==
  ASSUME MembersConstants, MembersInv, NEW f \in Flow, M!MemberAction(f)
  PROVE  MembersInv'
  <1>1. PICK m \in DOMAIN members,
             op \in {"promote", "suspend", "reactivate", "remove"} :
          M!Act(f, M!OnMember(op, m), {"members"})
    BY DEF M!MemberAction
  <1>2. m \in Member
    BY DEF MembersInv, IsList
  <1> DEFINE call == M!OnMember(op, m)
  <1>3. call \in M!Call /\ call.op = op
    BY <1>2, NewCallIs DEF Ops
  <1> HIDE DEF call
  <1>4. M!Act(f, call, {"members"})
    BY <1>1 DEF call
  <1> QED BY <1>3, <1>4, ActKeeps DEF MemberViews

LEMMA InviteKeeps ==
  ASSUME MembersConstants, MembersInv, NEW f \in Flow,
         M!Invite(f) \/ M!InvitationAction(f)
  PROVE  MembersInv'
  <1>1. PICK call \in M!Call : /\ M!Act(f, call, {"invitations"})
                               /\ call.op \in {"invite", "resend", "revoke"}
    <2>1. CASE M!Invite(f)
      BY <2>1, NewCallIs DEF M!Invite, Ops
    <2>2. CASE M!InvitationAction(f)
      <3>1. PICK i \in Invitation, op \in {"resend", "revoke"} :
              M!Act(f, [M!NewCall(op) EXCEPT !.invitation = i], {"invitations"})
        BY <2>2 DEF M!InvitationAction
      <3> DEFINE call == [M!NewCall(op) EXCEPT !.invitation = i]
      <3>2. M!NewCall(op) \in M!Call /\ M!NewCall(op).op = op
        BY NewCallIs DEF Ops
      <3>3. call \in M!Call /\ call.op = op
        BY <3>2 DEF M!Call
      <3> HIDE DEF call
      <3>4. M!Act(f, call, {"invitations"})
        BY <3>1 DEF call
      <3> QED BY <3>3, <3>4
    <2> QED BY <2>1, <2>2
  <1> QED BY <1>1, ActKeeps DEF MemberViews

LEMMA TransferActionKeeps ==
  ASSUME MembersConstants, MembersInv, NEW f \in Flow, M!TransferAction(f)
  PROVE  MembersInv'
  <1>1. CASE /\ transferSuccessor # Nothing
             /\ M!Act(f, M!OnMember("propose", transferSuccessor), {"transfer"})
    <2> DEFINE call == M!OnMember("propose", transferSuccessor)
    <2>1. transferSuccessor \in Member
      BY <1>1, MembersParts DEF MembersRows
    <2>2. call \in M!Call /\ call.op = "propose" /\ call.member \in Member
      BY <2>1, NewCallIs DEF Ops
    <2>3. M!Act(f, call, {"transfer"})
      BY <1>1
    <2> HIDE DEF call
    <2> QED BY <2>2, <2>3, ActKeeps DEF MemberViews
  <1>2. ASSUME NEW op \in {"cancel", "accept"},
               NEW touched \in SUBSET MemberViews, pendingTransfer # Nothing,
               M!Act(f, [M!NewCall(op) EXCEPT !.number = pendingTransfer.number],
                     touched)
        PROVE  MembersInv'
    <2> DEFINE call == [M!NewCall(op) EXCEPT !.number = pendingTransfer.number]
    <2>1. pendingTransfer.number \in 0..MembersChanges
      BY <1>2, MembersParts DEF MembersRows, M!Proposal
    <2>2. M!NewCall(op) \in M!Call /\ M!NewCall(op).op = op
      BY NewCallIs DEF Ops
    <2>3. call \in M!Call /\ call.op = op
      BY <2>1, <2>2 DEF M!Call
    <2>4. M!Act(f, call, touched)
      BY <1>2
    <2> HIDE DEF call
    <2> QED BY <2>3, <2>4, ActKeeps
  <1> QED BY <1>1, <1>2 DEF M!TransferAction, MemberViews

\* A call that is under way.
LEMMA CallUnderWay ==
  ASSUME MembersInv, NEW f \in Flow, flow[f].stage # "none"
  PROVE  /\ MembersCall(f) /\ flow[f].call \in M!Call /\ IsRow(flow[f])
         /\ flow[f] # R!NoFlow
  BY NoFlowIs DEF MembersInv, MembersCalls, MembersCall, RequestsInv, IsFlow

LEMMA ActedKeeps ==
  ASSUME MembersConstants, MembersInv, NEW f \in Flow, M!Acted(f)
  PROVE  MembersInv'
  <1>1. /\ MembersCall(f) /\ flow[f].call.op # "list"
        /\ MembersRows' /\ GivenGrows /\ RequestsInv
    BY CallUnderWay, StillStays DEF M!Acted, MembersInv
  <1>2. CASE M!Then(f, M!NewCall("list"), MemberViews)
    <2> DEFINE call == M!NewCall("list")
    <2>1. call \in M!Call /\ call.op = "list"
      BY NewCallIs DEF Ops
    <2>2. R!Then(f, call, MemberViews)
      BY <1>2, MembersRequests
    <2> HIDE DEF call
    <2>3. /\ RequestsInv' /\ flow'[f] = R!Asked(call, MemberViews, {})
          /\ \A g \in Flow \ {f} : flow'[g] = flow[g]
      BY <1>1, <2>2, ThenStep DEF MembersCall
    <2>4. MembersCall(f)'
      BY <2>1, <2>3, AskedIs DEF MembersCall, ReadIs, IsRow
    <2> QED BY <1>1, <2>3, <2>4, OneFlow
  <1>3. CASE ~flow[f].ok /\ M!End(f)
    <2>1. /\ RequestsInv' /\ flow'[f] = R!NoFlow
          /\ \A g \in Flow \ {f} : flow'[g] = flow[g]
      BY <1>1, <1>3, EndStep, MembersRequests DEF MembersCall
    <2> QED BY <1>1, <2>1, OneFlow
  <1> QED BY <1>2, <1>3 DEF M!Acted, MemberViews

LEMMA MembersListed ==
  ASSUME MembersConstants, MembersInv, NEW f \in Flow, M!Listed(f)
  PROVE  MembersInv'
  <1>1. /\ MembersCall(f) /\ flow[f].call.op = "list" /\ RequestsInv
    BY CallUnderWay, MembersRequests DEF M!Listed, MembersInv
  <1>2. flow[f].touches = {} /\ (flow[f].ok => flow[f].read = MemberViews)
        /\ ReadIs(f)
    BY <1>1 DEF MembersCall
  <1>3. flow' = [flow EXCEPT ![f] = R!NoFlow]
    BY MembersRequests DEF M!Listed
  <1>4. R!Showing(f) \/ R!NotShowing(f)
    BY MembersRequests DEF M!Listed
  <1>5. /\ RequestsInv' /\ flow'[f] = R!NoFlow
        /\ \A g \in Flow \ {f} : flow'[g] = flow[g]
    BY <1>1, <1>2, <1>3, <1>4, ShowStep, NoFlowIs
  <1>6. MembersRows' /\ GivenGrows
    <2>1. UNCHANGED <<M!rows, isOwner, transferSuccessor, edit, given>>
      BY DEF M!Listed
    <2>2. CASE UNCHANGED M!lists
      BY <2>1, <2>2, RowsStay
    <2>3. CASE /\ flow[f].ok
               /\ members' = flow[f].answer.members
               /\ invitations' = flow[f].answer.invitations
               /\ pendingTransfer' = flow[f].answer.transfer
      <3>1. /\ IsList(members') /\ pendingTransfer' \in M!Proposal \cup {Nothing}
            /\ invitations' \in [Invitation -> M!InvitationStatus]
        BY <1>2, <2>3 DEF ReadIs, MemberViews
      <3>2. GivenGrows
        BY <2>1 DEF GivenGrows
      <3>3. IsList(members)'
        BY <2>1, <3>1 DEF IsList
      <3> QED BY <2>1, <3>1, <3>2, <3>3, MembersParts DEF MembersRows, M!rows
    <2> QED BY <2>2, <2>3 DEF M!Listed
  <1> QED BY <1>5, <1>6, OneFlow

LEMMA MembersAnswerLost ==
  ASSUME MembersInv, NEW f \in Flow, M!LoseAnswer(f)
  PROVE  MembersInv'
  <1>1. R!Drop(f) /\ MembersRows' /\ GivenGrows /\ RequestsInv
    BY StillStays, MembersRequests DEF M!LoseAnswer, MembersInv
  <1>2. /\ RequestsInv' /\ ~flow'[f].ok
        /\ flow'[f].read = {} /\ flow'[f].call = flow[f].call
        /\ flow'[f].lists = flow[f].lists /\ flow'[f].touches = flow[f].touches
        /\ flow[f] # R!NoFlow
        /\ \A g \in Flow \ {f} : flow'[g] = flow[g]
    BY <1>1, DropStep
  <1>3. MembersCall(f)
    BY <1>2 DEF MembersInv, MembersCalls
  <1>4. MembersCall(f)'
    BY <1>1, <1>2, <1>3 DEF MembersCall, ReadIs, GivenGrows
  <1> QED BY <1>1, <1>2, <1>4, OneFlow

\* A call is refused.
LEMMA MembersRefused ==
  ASSUME MembersInv, NEW f \in Flow, flow[f].stage = "asked", R!Refuse(f),
         MembersRows', GivenGrows
  PROVE  MembersInv'
  <1>1. /\ RequestsInv' /\ ~flow'[f].ok
        /\ flow'[f].read = {} /\ flow'[f].call = flow[f].call
        /\ flow'[f].lists = flow[f].lists /\ flow'[f].touches = flow[f].touches
        /\ \A g \in Flow \ {f} : flow'[g] = flow[g]
    BY RefuseStep DEF MembersInv
  <1>2. MembersCall(f)
    BY CallUnderWay
  <1>3. MembersCall(f)'
    BY <1>1, <1>2 DEF MembersCall, ReadIs, GivenGrows
  <1> QED BY <1>1, <1>3, OneFlow

---------------------------------------------------------------------------
(* The API *)

\* Of memberships, invitations and the proposal, what a change makes of them.
DataIs ==
  /\ member' \in [Member -> M!MemberRow]
  /\ \A m \in Member : member'[m].rights \subseteq given'[m]
  /\ owner' \in Member
  /\ invited' \in [Invitation -> M!InvitationStatus]
  /\ transfer' \in M!Proposal \cup {Nothing}

LEMMA BecomesIs ==
  ASSUME MembersInv, GivenGrows, NEW m \in Member, NEW row \in M!MemberRow,
         M!Becomes(m, row), row.rights \subseteq given'[m]
  PROVE  DataIs
  <1>1. /\ member \in [Member -> M!MemberRow] /\ owner \in Member
        /\ invited \in [Invitation -> M!InvitationStatus]
        /\ transfer \in M!Proposal \cup {Nothing}
        /\ \A n \in Member : member[n].rights \subseteq given'[n]
    BY MembersParts DEF MembersRows, GivenGrows
  <1> QED BY <1>1 DEF DataIs, M!Becomes

LEMMA SetMemberIs ==
  ASSUME MembersInv, GivenGrows, NEW m \in Member, NEW rights \in SUBSET Right,
         NEW op, M!SetMember(op, m, rights),
         op = "save" => rights \subseteq given'[m]
  PROVE  DataIs
  <1> DEFINE row == member[m]
  <1>1. row \in M!MemberRow /\ row.rights \subseteq given'[m]
    BY MembersParts DEF MembersRows, GivenGrows
  <1> HIDE DEF row
  <1>2. PICK new \in M!MemberRow : /\ M!Becomes(m, new)
                                   /\ new.rights \subseteq given'[m]
    <2>1. ASSUME NEW state \in M!State,
                 M!Becomes(m, [row EXCEPT !.state = state])
          PROVE  \E new \in M!MemberRow : /\ M!Becomes(m, new)
                                          /\ new.rights \subseteq given'[m]
      <3> DEFINE new == [row EXCEPT !.state = state]
      <3>1. new \in M!MemberRow /\ new.rights = row.rights
        BY <1>1 DEF M!MemberRow
      <3> HIDE DEF new
      <3>2. M!Becomes(m, new)
        BY <2>1 DEF new
      <3> QED BY <1>1, <3>1, <3>2
    <2>2. CASE M!Becomes(m, [row EXCEPT !.profile = "ADMINISTRATOR"])
      <3> DEFINE new == [row EXCEPT !.profile = "ADMINISTRATOR"]
      <3>1. new \in M!MemberRow /\ new.rights = row.rights
        BY <1>1 DEF M!MemberRow
      <3> HIDE DEF new
      <3>2. M!Becomes(m, new)
        BY <2>2 DEF new
      <3> QED BY <1>1, <3>1, <3>2
    <2>3. CASE op = "save" /\ M!Becomes(m, [row EXCEPT !.rights = rights])
      <3> DEFINE new == [row EXCEPT !.rights = rights]
      <3>1. new \in M!MemberRow /\ new.rights = rights
        BY <1>1 DEF M!MemberRow
      <3> HIDE DEF new
      <3>2. M!Becomes(m, new)
        BY <2>3 DEF new
      <3> QED BY <2>3, <3>1, <3>2
    <2> QED BY <2>1, <2>2, <2>3 DEF M!SetMember, M!State, row
  <1> QED BY <1>2, BecomesIs

LEMMA SetInvitationIs ==
  ASSUME MembersInv, GivenGrows, NEW i \in Invitation, NEW op,
         M!SetInvitation(op, i)
  PROVE  DataIs
  <1>1. /\ member \in [Member -> M!MemberRow] /\ owner \in Member
        /\ invited \in [Invitation -> M!InvitationStatus]
        /\ transfer \in M!Proposal \cup {Nothing}
        /\ \A n \in Member : member[n].rights \subseteq given'[n]
    BY MembersParts DEF MembersRows, GivenGrows
  <1>2. invited' \in [Invitation -> M!InvitationStatus]
    BY <1>1 DEF M!SetInvitation, M!InvitationStatus
  <1> QED BY <1>1, <1>2 DEF DataIs, M!SetInvitation

\* A proposal is made with the number of the change.
LEMMA ProposalIs ==
  ASSUME NEW m \in Member, changes' \in 0..MembersChanges
  PROVE  [number |-> changes', to |-> m] \in M!Proposal
  BY DEF M!Proposal

LEMMA SetTransferIs ==
  ASSUME MembersConstants, MembersInv, GivenGrows, NEW m, NEW op, NEW number,
         M!SetTransfer(op, m, number), changes' \in 0..MembersChanges,
         op = "propose" => m \in Member
  PROVE  DataIs
  <1>1. /\ member \in [Member -> M!MemberRow] /\ owner \in Member
        /\ invited \in [Invitation -> M!InvitationStatus]
        /\ \A n \in Member : member[n].rights \subseteq given'[n]
        /\ Me \in Member
    BY MembersParts
    DEF MembersRows, GivenGrows, MembersConstants, M!MeIsAMember
  <1>2. CASE /\ op = "propose"
             /\ transfer' = [number |-> changes', to |-> m]
             /\ UNCHANGED <<member, owner, invited>>
    BY <1>1, <1>2, ProposalIs DEF DataIs
  <1>3. CASE transfer' = Nothing /\ UNCHANGED <<member, owner, invited>>
    BY <1>1, <1>3 DEF DataIs
  <1>4. CASE transfer' = Nothing /\ owner' = Me /\ UNCHANGED <<member, invited>>
    BY <1>1, <1>4 DEF DataIs
  <1> QED BY <1>2, <1>3, <1>4 DEF M!SetTransfer

\* A change is counted.
LEMMA CountIs ==
  ASSUME MembersConstants, MembersInv, M!Counted
  PROVE  changes' \in 0..MembersChanges
  BY MembersParts
  DEF M!Counted, MembersRows, MembersConstants, M!ChangesAreCounted

\* It leaves what is shown alone.
LEMMA CountedRows ==
  ASSUME MembersConstants, MembersInv, M!Counted, DataIs, GivenGrows,
         UNCHANGED <<isOwner, M!lists, transferSuccessor, edit>>,
         given' \in [Member -> SUBSET Right]
  PROVE  MembersRows'
  <1>1. changes' \in 0..MembersChanges
    BY CountIs
  <1>2. IsList(members)'
    BY ListStays, MembersParts DEF MembersRows, M!lists, IsList, GivenGrows
  <1>3. edit.member # Nothing => edit.rights \subseteq given'[edit.member]
    BY MembersParts DEF MembersRows, GivenGrows
  <1> QED BY <1>1, <1>2, <1>3, MembersParts DEF MembersRows, DataIs, M!lists

LEMMA ServeActionKeeps ==
  ASSUME MembersConstants, MembersInv, NEW f \in Flow, M!ServeAction(f)
  PROVE  MembersInv'
  <1> DEFINE call == flow[f].call
  <1>1. /\ flow[f].stage = "asked" /\ call.op # "list"
        /\ UNCHANGED <<isOwner, M!lists, transferSuccessor, edit, given>>
        /\ MembersCall(f) /\ call \in M!Call /\ RequestsInv /\ GivenGrows
    BY CallUnderWay DEF M!ServeAction, MembersInv, GivenGrows
  <1>2. CASE M!Refuse(f) /\ UNCHANGED M!rows
    <2>1. MembersRows' /\ R!Refuse(f)
      BY <1>1, <1>2, RowsStay, MembersRequests
    <2> QED BY <1>1, <2>1, MembersRefused
  <1>3. CASE /\ M!Counted
             /\ \/ /\ call.member # Nothing
                   /\ M!SetMember(call.op, call.member, call.rights)
                \/ \E i \in Invitation : M!SetInvitation("invite", i)
                \/ call.invitation # Nothing
                   /\ M!SetInvitation(call.op, call.invitation)
                \/ M!SetTransfer(call.op, call.member, call.number)
             /\ M!Change(f, Nothing)
    <2>1. /\ call.member \in Member \cup {Nothing} /\ call.rights \in SUBSET Right
          /\ call.invitation \in Invitation \cup {Nothing}
          /\ call.op = "save" => call.rights \subseteq given'[call.member]
          /\ call.op = "propose" => call.member \in Member
      BY <1>1 DEF M!Call, MembersCall
    <2>2. DataIs
      BY <1>1, <1>3, <2>1, CountIs, SetMemberIs, SetInvitationIs, SetTransferIs
    <2>3. MembersRows'
      BY <1>1, <1>3, <2>2, CountedRows, MembersParts DEF MembersRows
    <2>4. R!Change(f, Nothing)
      BY <1>3, MembersRequests
    <2>5. /\ RequestsInv'
          /\ \A g \in Flow :
               /\ flow'[g].call = flow[g].call /\ flow'[g].lists = flow[g].lists
               /\ flow'[g].touches = flow[g].touches
               /\ flow'[g].read = flow[g].read
               /\ g # f => /\ flow'[g].ok = flow[g].ok
                           /\ flow'[g].answer = flow[g].answer
               /\ flow'[g] = R!NoFlow <=> flow[g] = R!NoFlow
      BY <1>1, <2>4, ChangeStep
    <2>6. ASSUME NEW g \in Flow, flow'[g] # R!NoFlow
          PROVE  MembersCall(g)'
      <3>1. MembersCall(g)
        BY <2>5, <2>6 DEF MembersInv, MembersCalls
      <3>2. CASE g # f
        BY <1>1, <2>5, <3>1, <3>2, CallStays DEF SameCall
      <3>3. CASE g = f
        BY <1>1, <2>5, <3>1, <3>3 DEF MembersCall
      <3> QED BY <3>2, <3>3
    <2> QED BY <2>3, <2>5, <2>6, MembersPartsNext DEF MembersCalls
  <1> QED BY <1>2, <1>3 DEF M!ServeAction

\* One of the lists is read.
LEMMA ServeListKeeps ==
  ASSUME MembersConstants, MembersInv, NEW f \in Flow, M!ServeList(f)
  PROVE  MembersInv'
  <1>1. /\ flow[f].stage = "asked" /\ flow[f].call.op = "list"
        /\ MembersRows' /\ GivenGrows /\ UNCHANGED given
        /\ MembersCall(f) /\ IsRow(flow[f]) /\ RequestsInv
    BY CallUnderWay, StillStays, MembersRequests
    DEF M!ServeList, MembersInv, M!Still
  <1>2. CASE M!Refuse(f)
    BY <1>1, <1>2, MembersRefused, MembersRequests
  <1>3. ASSUME NEW v \in MemberViews \ flow[f].read,
               LET got == flow[f].answer
                   read == flow[f].read \cup {v} IN
               /\ flow' = [flow EXCEPT
                    ![f].answer =
                      [w \in read |-> IF w = v THEN M!Snapshot[v] ELSE got[w]],
                    ![f].read = read,
                    ![f].ok = (read = MemberViews),
                    ![f].stage = IF read = MemberViews THEN "answered"
                                 ELSE "asked"]
               /\ UNCHANGED <<unseen, excused>>
        PROVE  MembersInv'
    <2> DEFINE read == flow[f].read \cup {v}
               got == flow[f].answer
               answer == [w \in read |-> IF w = v THEN M!Snapshot[v] ELSE got[w]]
               all == read = MemberViews
               stage == IF all THEN "answered" ELSE "asked"
               row == [flow[f] EXCEPT !.answer = answer, !.read = read,
                                      !.ok = all, !.stage = stage]
    <2>1. flow' = [flow EXCEPT ![f] = row] /\ UNCHANGED <<unseen, excused>>
      BY <1>3 DEF RequestsInv, IsFlow
    <2>2. /\ all \in BOOLEAN /\ stage \in {"asked", "answered"}
          /\ stage = "asked" => ~all
      OBVIOUS
    <2>3. all <=> read = MemberViews
      OBVIOUS
    <2>4. \A w \in read : answer[w] = IF w = v THEN M!Snapshot[v] ELSE got[w]
      OBVIOUS
    <2>5. v \in read /\ flow[f].read = read \ {v}
      BY <1>3
    <2> HIDE DEF all, stage, answer, read
    <2>6. /\ IsRow(row) /\ row.ok = all /\ row.read = read /\ row.answer = answer
          /\ row.call = flow[f].call /\ row.lists = flow[f].lists
          /\ row.touches = flow[f].touches /\ row.old = flow[f].old
      BY <1>1, <2>2, NoFlowIs DEF IsRow
    <2> HIDE DEF row
    <2>7. flow'[f] = row
      BY <2>1, <1>1 DEF RequestsInv, IsFlow
    <2>8. \A w : Carries(f, w) => Carries(f, w)'
      BY <1>1, <2>6, <2>7 DEF Carries
    <2>9. RequestsInv' /\ \A g \in Flow \ {f} : flow'[g] = flow[g]
      BY <1>1, <2>1, <2>6, <2>8, FlowStep
    <2>10. ReadIs(f)'
      <3>1. ReadIs(f) /\ IsList(M!Snapshot["members"])
            /\ M!Snapshot["invitations"] \in [Invitation -> M!InvitationStatus]
            /\ M!Snapshot["transfer"] \in M!Proposal \cup {Nothing}
        <4>1. /\ M!Snapshot["members"] =
                   [m \in M!Existing |-> [row |-> member[m], isOwner |-> owner = m]]
              /\ M!Snapshot["invitations"] = invited
              /\ M!Snapshot["transfer"] = transfer
          BY DEF M!Snapshot
        <4>2. IsList(M!Snapshot["members"])
          BY <4>1, MembersParts DEF MembersRows, IsList, M!Existing
        <4> QED BY <1>1, <4>1, <4>2, MembersParts DEF MembersCall, MembersRows
      <3>2. /\ "members" \in read => IsList(answer["members"])
            /\ "invitations" \in read =>
                 answer["invitations"] \in [Invitation -> M!InvitationStatus]
            /\ "transfer" \in read =>
                 answer["transfer"] \in M!Proposal \cup {Nothing}
        BY <2>4, <2>5, <3>1 DEF ReadIs, got
      <3>3. flow'[f].answer = answer /\ flow'[f].read = read
        BY <2>6, <2>7
      <3> DEFINE rows == flow'[f].answer["members"]
      <3>4. "members" \in read => IsList(rows)
        BY <3>2, <3>3
      <3>5. "members" \in read =>
              /\ DOMAIN rows \subseteq Member
              /\ \A m \in DOMAIN rows :
                   /\ rows[m] \in [row : M!MemberRow, isOwner : BOOLEAN]
                   /\ rows[m].row.rights \subseteq given'[m]
        BY <1>1, <3>4 DEF IsList
      <3> QED BY <3>2, <3>3, <3>5 DEF ReadIs, IsList
    <2>11. MembersCall(f)'
      BY <1>1, <2>3, <2>6, <2>7, <2>10 DEF MembersCall
    <2> QED BY <1>1, <2>9, <2>11, OneFlow
  <1> QED BY <1>2, <1>3 DEF M!ServeList, MemberViews

---------------------------------------------------------------------------
(* Steps of no flow *)

\* What is shown, or there, changes, and no flow goes on.
LEMMA NoFlowStep ==
  ASSUME MembersInv, UNCHANGED M!requests, MembersRows', GivenGrows
  PROVE  MembersInv'
  <1>1. RequestsInv' /\ UNCHANGED flow
    BY RequestsUnchanged DEF MembersInv, M!requests
  <1>2. MembersCalls'
    BY <1>1, CallStays DEF MembersInv, MembersCalls, SameCall
  <1> QED BY <1>1, <1>2, MembersPartsNext

LEMMA EditorKeeps ==
  ASSUME MembersConstants, MembersInv,
         M!Click \/ M!Toggle \/ M!Cancel \/ M!ChooseSuccessor
  PROVE  MembersInv'
  <1>1. /\ MembersRows /\ DOMAIN members \subseteq Member /\ Nothing \notin Member
    BY MembersParts DEF MembersRows, IsList, MembersConstants, M!NothingIsNothing
  <1>2. CASE M!Click
    <2>1. /\ edit' \in [member : Member \cup {Nothing}, rights : SUBSET Right]
          /\ edit'.member # Nothing => edit'.rights \subseteq given[edit'.member]
      <3>1. PICK m \in DOMAIN members :
              edit' = IF edit.member = m THEN M!NoEdit
                      ELSE [member |-> m, rights |-> members[m].row.rights]
        BY <1>2 DEF M!Click
      <3>2. /\ m \in Member /\ members[m].row.rights \in SUBSET Right
            /\ members[m].row.rights \subseteq given[m]
        BY <1>1 DEF MembersRows, IsList, M!MemberRow
      <3> QED BY <3>1, <3>2 DEF M!NoEdit
    <2>2. MembersRows' /\ GivenGrows
      BY <1>1, <1>2, <2>1
      DEF M!Click, M!Keep, MembersRows, GivenGrows, IsList, M!rows, M!lists
    <2> QED BY <1>2, <2>2, NoFlowStep DEF M!Click
  <1>3. CASE M!Toggle
    <2>1. PICK r \in Right :
            /\ edit.member \in DOMAIN members
            /\ edit' = [edit EXCEPT !.rights = IF r \in edit.rights
                          THEN edit.rights \ {r} ELSE edit.rights \cup {r}]
            /\ given' = [given EXCEPT ![edit.member] = given[edit.member] \cup {r}]
      BY <1>3 DEF M!Toggle, M!EditorShown
    <2>2. edit.member \in Member /\ edit.rights \in SUBSET Right
          /\ edit.rights \subseteq given[edit.member]
      BY <1>1, <2>1 DEF MembersRows
    <2>3. GivenGrows /\ given' \in [Member -> SUBSET Right]
          /\ r \in given'[edit.member]
      BY <1>1, <2>1, <2>2 DEF MembersRows, GivenGrows
    <2>4. /\ edit' \in [member : Member \cup {Nothing}, rights : SUBSET Right]
          /\ edit'.member = edit.member
          /\ edit'.rights \subseteq edit.rights \cup {r}
      BY <1>1, <2>1, <2>2 DEF MembersRows
    <2>5. edit'.rights \subseteq given'[edit'.member]
      BY <2>2, <2>3, <2>4 DEF GivenGrows
    <2>6. IsList(members)'
      BY <1>1, <1>3, <2>3
      DEF M!Toggle, M!Keep, M!lists, MembersRows, IsList, GivenGrows
    <2>7. MembersRows'
      BY <1>1, <1>3, <2>3, <2>4, <2>5, <2>6
      DEF M!Toggle, M!Keep, M!rows, M!lists, MembersRows, GivenGrows
    <2> QED BY <1>3, <2>3, <2>7, NoFlowStep DEF M!Toggle
  <1>4. CASE M!Cancel
    <2>1. MembersRows' /\ GivenGrows
      BY <1>1, <1>4
      DEF M!Cancel, M!Keep, M!NoEdit, MembersRows, GivenGrows, IsList, M!rows,
          M!lists
    <2> QED BY <1>4, <2>1, NoFlowStep DEF M!Cancel
  <1>5. CASE M!ChooseSuccessor
    <2>1. MembersRows' /\ GivenGrows
      BY <1>1, <1>5
      DEF M!ChooseSuccessor, MembersRows, GivenGrows, IsList, M!rows, M!lists
    <2> QED BY <1>5, <2>1, NoFlowStep DEF M!ChooseSuccessor
  <1> QED BY <1>2, <1>3, <1>4, <1>5

\* Others change members, invitations or the proposal.
LEMMA MembersOthersKeep ==
  ASSUME MembersConstants, MembersInv, M!Others
  PROVE  MembersInv'
  <1>1. /\ MembersRows /\ M!Counted /\ UNCHANGED M!requests
        /\ UNCHANGED <<isOwner, M!lists, transferSuccessor, edit>>
        /\ changes' \in 0..MembersChanges
    BY MembersParts, CountIs DEF M!Others
  <1>2. /\ GivenGrows /\ DataIs /\ given' \in [Member -> SUBSET Right]
    <2>1. CASE M!OnMembers
      <3>1. PICK m \in Member :
              \/ /\ \E op \in {"suspend", "reactivate", "remove", "promote"} :
                      M!SetMember(op, m, {})
                 /\ UNCHANGED given
              \/ \E rights \in SUBSET Right :
                   /\ M!SetMember("save", m, rights)
                   /\ given' = [given EXCEPT ![m] = given[m] \cup rights]
        BY <2>1 DEF M!OnMembers, M!Existing
      <3>2. CASE /\ \E op \in {"suspend", "reactivate", "remove", "promote"} :
                      M!SetMember(op, m, {})
                 /\ UNCHANGED given
        BY <1>1, <3>2, SetMemberIs DEF GivenGrows, MembersRows
      <3>3. CASE \E rights \in SUBSET Right :
                   /\ M!SetMember("save", m, rights)
                   /\ given' = [given EXCEPT ![m] = given[m] \cup rights]
        <4>1. PICK rights \in SUBSET Right :
                /\ M!SetMember("save", m, rights)
                /\ given' = [given EXCEPT ![m] = given[m] \cup rights]
          BY <3>3
        <4>2. /\ given' \in [Member -> SUBSET Right] /\ GivenGrows
              /\ rights \subseteq given'[m]
          BY <1>1, <4>1 DEF MembersRows, GivenGrows
        <4> QED BY <4>1, <4>2, SetMemberIs
      <3> QED BY <3>1, <3>2, <3>3
    <2>2. CASE M!OnInvitations /\ UNCHANGED given
      <3>1. GivenGrows /\ given' \in [Member -> SUBSET Right]
        BY <1>1, <2>2 DEF GivenGrows, MembersRows
      <3>2. PICK i \in Invitation :
              \/ \E op \in {"invite", "resend", "revoke"} : M!SetInvitation(op, i)
              \/ \E m \in Member :
                   /\ invited' = [invited EXCEPT ![i] = "ACCEPTED"]
                   /\ member' = [member EXCEPT ![m].state = "ACTIVE"]
                   /\ UNCHANGED <<owner, transfer>>
        BY <2>2 DEF M!OnInvitations
      <3>3. CASE \E m \in Member :
                   /\ invited' = [invited EXCEPT ![i] = "ACCEPTED"]
                   /\ member' = [member EXCEPT ![m].state = "ACTIVE"]
                   /\ UNCHANGED <<owner, transfer>>
        <4>1. /\ member' \in [Member -> M!MemberRow]
              /\ \A m \in Member : member'[m].rights = member[m].rights
          BY <1>1, <3>3 DEF MembersRows, M!MemberRow, M!State
        <4>2. invited' \in [Invitation -> M!InvitationStatus]
          BY <1>1, <3>3 DEF MembersRows, M!InvitationStatus
        <4> QED BY <1>1, <2>2, <3>1, <3>3, <4>1, <4>2 DEF DataIs, MembersRows
      <3> QED BY <3>1, <3>2, <3>3, SetInvitationIs
    <2>3. CASE M!OnTransfer /\ UNCHANGED given
      <3>1. GivenGrows /\ given' \in [Member -> SUBSET Right]
        BY <1>1, <2>3 DEF GivenGrows, MembersRows
      <3>2. Me \in Member
        BY DEF MembersConstants, M!MeIsAMember
      <3>3. /\ transfer' \in M!Proposal \cup {Nothing} /\ owner' \in Member
            /\ UNCHANGED <<member, invited>>
        <4>1. CASE /\ transfer # Nothing /\ transfer' = Nothing
                   /\ owner' = transfer.to \/ UNCHANGED owner
                   /\ UNCHANGED <<member, invited>>
          BY <1>1, <4>1 DEF MembersRows, M!Proposal
        <4>2. CASE /\ transfer' = [number |-> changes', to |-> Me]
                   /\ UNCHANGED <<member, owner, invited>>
          BY <1>1, <3>2, <4>2, ProposalIs DEF MembersRows
        <4> QED BY <2>3, <4>1, <4>2 DEF M!OnTransfer
      <3> QED BY <1>1, <2>3, <3>1, <3>3 DEF DataIs, MembersRows
    <2> QED BY <2>1, <2>2, <2>3 DEF M!Others
  <1>3. MembersRows'
    BY <1>1, <1>2, CountedRows
  <1> QED BY <1>1, <1>2, <1>3, NoFlowStep

---------------------------------------------------------------------------
LEMMA MembersStarts ==
  ASSUME MembersConstants, M!Init
  PROVE  MembersInv
  <1>1. PICK opening \in Opening :
          /\ member = [m \in Member |-> M!Row(opening.standing[m])]
          /\ owner \in {m \in Member : opening.standing[m] = "owner"}
          /\ transfer \in {Nothing} \cup
               {[number |-> 0, to |-> m] :
                  m \in {n \in Member : opening.standing[n] = "administrator"}}
          /\ invited = [i \in Invitation |->
               IF i \in opening.invited THEN "PENDING" ELSE "NONE"]
    BY DEF M!Init
  <1>2. PICK f \in Flow :
          flow = [g \in Flow |->
            IF g = f THEN R!Asked(M!NewCall("list"), MemberViews, {})
            ELSE R!NoFlow]
    BY MembersRequests DEF M!Init, MemberViews
  <1>3. 0 \in 0..MembersChanges /\ MembersChanges \in Nat
    BY DEF MembersConstants, M!ChangesAreCounted
  <1>4. MembersRows
    <2>1. member \in [Member -> M!MemberRow]
          /\ \A m \in Member : member[m].rights = {}
      BY <1>1 DEF M!Row, M!MemberRow, M!State
    <2>2. transfer \in M!Proposal \cup {Nothing}
      BY <1>1, <1>3 DEF M!Proposal
    <2>3. /\ changes = 0 /\ isOwner \in BOOLEAN
          /\ members = <<>> /\ invitations = [i \in Invitation |-> "NONE"]
          /\ pendingTransfer = Nothing /\ transferSuccessor = Nothing
          /\ edit = M!NoEdit /\ given = [m \in Member |-> {}]
      BY DEF M!Init
    <2>4. IsList(members)
      BY <2>3 DEF IsList
    <2>5. invited \in [Invitation -> M!InvitationStatus]
      BY <1>1 DEF M!InvitationStatus
    <2>6. edit.member = Nothing
          /\ edit \in [member : Member \cup {Nothing}, rights : SUBSET Right]
      BY <2>3 DEF M!NoEdit
    <2> QED BY <1>1, <1>3, <2>1, <2>2, <2>3, <2>4, <2>5, <2>6
          DEF MembersRows, M!InvitationStatus
  <1>5. unseen = {} /\ IsFlow
    BY <1>2, AskedIs, NoFlowIs DEF IsFlow, M!Init
  <1>6. MembersCalls
    <2> DEFINE call == M!NewCall("list")
    <2>1. call \in M!Call /\ call.op = "list"
      BY NewCallIs DEF Ops
    <2>2. flow[f] = R!Asked(call, MemberViews, {})
          /\ \A g \in Flow \ {f} : flow[g] = R!NoFlow
      BY <1>2
    <2> HIDE DEF call
    <2>3. MembersCall(f)
      BY <2>1, <2>2, AskedIs DEF MembersCall, ReadIs, IsRow
    <2> QED BY <2>2, <2>3 DEF MembersCalls
  <1> QED BY <1>4, <1>5, <1>6, MembersParts DEF RequestsInv, ShownOrPending

LEMMA MembersStep ==
  ASSUME MembersConstants, MembersInv, M!Next
  PROVE  MembersInv'
  <1>1. ASSUME NEW f \in Flow,
               \/ M!Save(f) \/ M!MemberAction(f) \/ M!Invite(f)
               \/ M!InvitationAction(f) \/ M!TransferAction(f)
        PROVE  MembersInv'
    BY <1>1, SaveKeeps, MemberActionKeeps, InviteKeeps, TransferActionKeeps
  <1>2. ASSUME NEW f \in Flow,
               \/ M!Acted(f) \/ M!Listed(f) \/ M!ServeAction(f)
               \/ M!ServeList(f) \/ M!LoseAnswer(f)
        PROVE  MembersInv'
    BY <1>2, ActedKeeps, MembersListed, ServeActionKeeps, ServeListKeeps,
       MembersAnswerLost
  <1> QED BY <1>1, <1>2, EditorKeeps, MembersOthersKeep DEF M!Next

LEMMA MembersUnchanged == MembersInv /\ UNCHANGED M!vars => MembersInv'
  <1> SUFFICES ASSUME MembersInv, UNCHANGED M!vars PROVE MembersInv'
    OBVIOUS
  <1>1. /\ UNCHANGED M!requests
        /\ UNCHANGED <<M!rows, isOwner, M!lists, transferSuccessor, edit, given>>
    BY DEF M!vars
  <1> QED BY <1>1, RowsStay, NoFlowStep

LEMMA MembersKept ==
  ASSUME MembersConstants
  PROVE  M!Init /\ [][M!Next]_M!vars => []MembersInv
  BY MembersStarts, MembersStep, MembersUnchanged, PTL

---------------------------------------------------------------------------
(* The pages through which a person comes in                               *)

\* A call is one of its page's, and about a person where it is about one.
CallFits(t) ==
  /\ tab[t].op \in {"login", "register", "completeReset"} => tab[t].who \in Person
  /\ tab[t].op = "accept" => tab[t].page # "login"

\* Home is reached by the invitation on the way to "me" only.
ThroughIsHome(t) ==
  tab[t].through =>
    tab[t].page = "home" /\ tab[t].op = "me" /\ tab[t].stage # "idle"

Answered(t) == tab[t].stage = "answered"

\* The invitation is settled, or the person cannot accept it.
Settled == invitation # "PENDING" \/ belongs[Invited] = "other"

\* An acceptance that worked leaves no open invitation.
AcceptanceSettles(t) ==
  Answered(t) /\ tab[t].op \in {"accept", "acceptExisting"}
    /\ tab[t].answer = "ok" => invitation # "PENDING"

\* A login is answered with the session of the one who logs in, with which the
\* invitation is accepted next.
LoginGetsItsSession(t) ==
  /\ Answered(t) /\ tab[t].op = "login" /\ tab[t].answer = "ok" =>
       tab[t].got = tab[t].who
  /\ tab[t].page = "login" /\ tab[t].op = "acceptExisting"
       /\ tab[t].who = Invited =>
       IF Answered(t) THEN Settled ELSE tab[t].sent = Invited

EntryInv ==
  /\ E!TypeOK
  /\ \A p \in Person : belongs[p] = "inviting" => p = Invited
  /\ \A t \in Tab : CallFits(t) /\ ThroughIsHome(t) /\ AcceptanceSettles(t)
  /\ \A t \in Tab \ missed :
       LoginGetsItsSession(t) /\ (tab[t].through => Settled)

---------------------------------------------------------------------------
Session == Person \cup {Nothing}
TabRow ==
  [page : E!Page, link : BOOLEAN, through : BOOLEAN, op : E!Op,
   stage : {"idle", "asked", "answered"}, answer : E!Answer,
   who : Session, sent : Session, got : Session]

\* What a step does, apart from the tabs.
ServerStep ==
  /\ account' \subseteq Person
  /\ belongs' \in [Person -> {"none", "inviting", "other"}]
  /\ \A p \in Person : belongs'[p] = "inviting" => p = Invited
  /\ invitation' \in {"PENDING", "ACCEPTED", "ENDED"}
  /\ invitation # "PENDING" => invitation' # "PENDING"
  /\ Settled => Settled'
  /\ entryCookie' \in Session
  /\ missed' \subseteq Tab

\* EntryInv for one tab.
TabKept(t) ==
  /\ CallFits(t) /\ ThroughIsHome(t) /\ AcceptanceSettles(t)
  /\ t \notin missed =>
       LoginGetsItsSession(t) /\ (tab[t].through => Settled)

\* A page that is shown.
LEMMA ShowsType ==
  ASSUME NEW page \in E!Page, NEW link \in BOOLEAN, NEW through \in BOOLEAN,
         NEW session \in Session
  PROVE  E!Shows(page, link, through, session) \in TabRow
  BY DEF E!Shows, E!Mounted, E!Page, E!Op, E!Answer, TabRow, Session

\* A step of the server and of one tab.
LEMMA TabStep ==
  ASSUME EntryInv, NEW t \in Tab, NEW row \in TabRow,
         tab' = [tab EXCEPT ![t] = row], ServerStep,
         missed \subseteq missed' \cup {t}, TabKept(t)'
  PROVE  EntryInv'
  <1>1. E!TypeOK'
    BY DEF EntryInv, E!TypeOK, ServerStep, TabRow, Session
  <1>2. ASSUME NEW u \in Tab, u # t PROVE TabKept(u)'
    <2>1. tab'[u] = tab[u]
      BY <1>2 DEF EntryInv, E!TypeOK
    <2> QED BY <2>1 DEF EntryInv, TabKept, CallFits, ThroughIsHome,
              AcceptanceSettles, Answered, LoginGetsItsSession, ServerStep
  <1>3. \A u \in Tab : TabKept(u)'
    BY <1>2
  <1> QED BY <1>1, <1>3 DEF EntryInv, TabKept, ServerStep

\* A page is shown in a tab.
LEMMA GoesKeeps ==
  ASSUME EntryInv, NEW t \in Tab, NEW page \in E!Page, NEW link \in BOOLEAN,
         NEW through \in BOOLEAN, ServerStep, missed \subseteq missed' \cup {t},
         tab' = [tab EXCEPT ![t] = E!Shows(page, link, through, entryCookie')],
         through => page = "home" /\ (t \notin missed' => Settled')
  PROVE  EntryInv'
  <1> DEFINE row == E!Shows(page, link, through, entryCookie')
  <1>1. row \in TabRow
    BY ShowsType DEF ServerStep
  <1>2. tab'[t] = row
    BY DEF EntryInv, E!TypeOK
  <1>3. /\ row.page = page /\ row.through = through
        /\ row.op = E!Mounted(page)
        /\ row.stage = IF E!Mounted(page) = "none" THEN "idle" ELSE "asked"
    BY DEF E!Shows
  <1>4. /\ E!Mounted(page) \in {"none", "me", "organization"}
        /\ page = "home" => E!Mounted(page) = "me"
    BY DEF E!Mounted, E!Page
  <1> HIDE DEF row
  <1>5. TabKept(t)'
    BY <1>2, <1>3, <1>4
    DEF TabKept, CallFits, ThroughIsHome, AcceptanceSettles, Answered,
        LoginGetsItsSession
  <1> QED BY <1>1, <1>5, TabStep DEF row

\* The server is left alone.
LEMMA SameServer ==
  ASSUME EntryInv, UNCHANGED E!server, entryCookie' \in Session,
         missed' \subseteq Tab
  PROVE  ServerStep
  BY DEF EntryInv, E!TypeOK, ServerStep, E!server, Settled

---------------------------------------------------------------------------
LEMMA VisitKeeps ==
  ASSUME EntryInv, NEW t \in Tab, E!Visit(t) \/ E!SignInToAccept(t)
  PROVE  EntryInv'
  <1>1. ServerStep /\ missed \subseteq missed' \cup {t}
    BY SameServer DEF E!Visit, E!SignInToAccept, EntryInv, E!TypeOK, Session
  <1>2. PICK page \in E!Page, link \in BOOLEAN :
          tab' = [tab EXCEPT ![t] = E!Shows(page, link, FALSE, entryCookie')]
    BY DEF E!Visit, E!SignInToAccept, E!Goes, E!Page
  <1> QED BY <1>1, <1>2, GoesKeeps

LEMMA SubmitKeeps ==
  ASSUME EntryInv, NEW t \in Tab, E!Submit(t)
  PROVE  EntryInv'
  <1>1. ServerStep /\ missed \subseteq missed' \cup {t}
    BY SameServer DEF E!Submit, EntryInv, E!TypeOK, Session
  <1>2. PICK op \in E!OpsOf(tab[t].page), p \in Session :
          /\ tab[t].stage = "idle" /\ E!Asks(t, op, p)
          /\ op \in {"login", "register", "completeReset"} => p \in Person
    BY DEF E!Submit, Session
  <1> DEFINE row == [tab[t] EXCEPT !.op = op, !.stage = "asked", !.who = p,
                                   !.sent = entryCookie, !.answer = "none"]
  <1>3. tab[t] \in TabRow
    BY DEF EntryInv, E!TypeOK, TabRow, Session
  <1>4. op \in E!Op \ {"acceptExisting"}
    BY DEF E!OpsOf, E!Op
  <1>5. row \in TabRow
    BY <1>3, <1>4 DEF TabRow, E!Answer, EntryInv, E!TypeOK, Session
  <1>6. tab' = [tab EXCEPT ![t] = row] /\ tab'[t] = row
    BY <1>2 DEF E!Asks, EntryInv, E!TypeOK
  <1>7. /\ row.op = op /\ row.stage = "asked" /\ row.who = p
        /\ row.through = tab[t].through /\ row.page = tab[t].page
        /\ op = "accept" => tab[t].page # "login"
    BY <1>3 DEF TabRow, E!OpsOf
  <1>8. ~tab[t].through
    BY <1>2, <1>3 DEF EntryInv, ThroughIsHome, TabRow
  <1> HIDE DEF row
  <1>9. TabKept(t)'
    BY <1>2, <1>4, <1>6, <1>7, <1>8
    DEF TabKept, CallFits, ThroughIsHome, AcceptanceSettles, Answered,
        LoginGetsItsSession
  <1> QED BY <1>1, <1>5, <1>6, <1>9, TabStep

\* A call is answered.
LEMMA RepliesKeeps ==
  ASSUME EntryInv, NEW t \in Tab, NEW answer \in E!Answer, NEW got \in Session,
         tab[t].stage \in {"asked", "answered"},
         E!Replies(t, answer, got), ServerStep, missed \subseteq missed' \cup {t},
         answer = "ok" /\ tab[t].op \in {"accept", "acceptExisting"}
           => invitation' # "PENDING",
         answer = "ok" /\ tab[t].op = "login" => got = tab[t].who,
         t \notin missed' /\ tab[t].op = "acceptExisting"
           /\ tab[t].sent = Invited => Settled',
         t \notin missed' => t \notin missed /\ tab[t].stage = "asked"
  PROVE  EntryInv'
  <1> DEFINE row == [tab[t] EXCEPT !.stage = "answered", !.answer = answer,
                                   !.got = got]
  <1>1. tab[t] \in TabRow
    BY DEF EntryInv, E!TypeOK, TabRow, Session
  <1>2. row \in TabRow
    BY <1>1 DEF TabRow
  <1>3. tab' = [tab EXCEPT ![t] = row] /\ tab'[t] = row
    BY DEF E!Replies, EntryInv, E!TypeOK
  <1>4. /\ row.op = tab[t].op /\ row.stage = "answered" /\ row.who = tab[t].who
        /\ row.through = tab[t].through /\ row.page = tab[t].page
        /\ row.answer = answer /\ row.got = got
    BY <1>1 DEF TabRow
  <1> HIDE DEF row
  <1>5. /\ CallFits(t) /\ ThroughIsHome(t)
        /\ t \notin missed =>
             LoginGetsItsSession(t) /\ (tab[t].through => Settled)
    BY DEF EntryInv
  <1>6. CallFits(t)' /\ ThroughIsHome(t)' /\ AcceptanceSettles(t)'
    BY <1>3, <1>4, <1>5
    DEF CallFits, ThroughIsHome, AcceptanceSettles, Answered
  <1>7. ASSUME t \notin missed'
        PROVE  LoginGetsItsSession(t)' /\ (tab'[t].through => Settled')
    BY <1>3, <1>4, <1>5, <1>7
    DEF LoginGetsItsSession, Answered, ServerStep
  <1> QED BY <1>2, <1>3, <1>6, <1>7, TabStep DEF TabKept

LEMMA ReadKeeps ==
  ASSUME EntryInv, NEW t \in Tab, E!Read(t)
  PROVE  EntryInv'
  <1>1. ServerStep /\ UNCHANGED missed
    BY SameServer DEF E!Read, EntryInv, E!TypeOK, Session
  <1>2. tab[t].stage = "asked" /\ tab[t].op \in
          {"me", "organization", "accept", "requestReset"}
    BY DEF E!Read
  <1>3. PICK answer \in E!Answer : /\ E!Replies(t, answer, Nothing)
                                   /\ tab[t].op = "accept" => answer # "ok"
    BY DEF E!Read, E!Answer
  <1> QED BY <1>1, <1>2, <1>3, RepliesKeeps DEF Session

LEMMA RefuseKeeps ==
  ASSUME EntryInv, NEW t \in Tab, E!Refuse(t)
  PROVE  EntryInv'
  <1>1. ServerStep /\ UNCHANGED <<missed, E!server>>
    BY SameServer DEF E!Refuse, EntryInv, E!TypeOK, Session
  <1>2. tab[t].stage = "asked" /\ E!Replies(t, "failed", Nothing) /\ E!Refused(t)
    BY DEF E!Refuse
  <1>3. ASSUME tab[t].op = "acceptExisting", tab[t].sent = Invited
        PROVE  Settled'
    BY <1>1, <1>2, <1>3 DEF E!Refused, Settled, E!In, E!server
  <1> QED BY <1>1, <1>2, <1>3, RepliesKeeps DEF Session, E!Answer

LEMMA FailKeeps ==
  ASSUME EntryInv, NEW t \in Tab, E!Fail(t)
  PROVE  EntryInv'
  <1>1. ServerStep /\ missed' = missed \cup {t}
    BY SameServer DEF E!Fail, EntryInv, E!TypeOK, Session
  <1> QED BY <1>1, RepliesKeeps DEF E!Fail, Session, E!Answer

\* An account is made, or somebody becomes a member.
LEMMA JoinStep ==
  ASSUME EntryInv, NEW p \in Person, UNCHANGED <<entryCookie, missed>>,
         account' \in {account, account \cup {p}},
         \/ E!Belong(p, "other") /\ UNCHANGED invitation
         \/ E!Belong(p, "inviting") /\ invitation' = "ACCEPTED" /\ p = Invited
  PROVE  ServerStep
  <1>1. /\ belongs \in [Person -> {"none", "inviting", "other"}]
        /\ \A q \in Person : belongs[q] = "inviting" => q = Invited
        /\ account \subseteq Person /\ entryCookie \in Session
        /\ missed \subseteq Tab /\ invitation \in {"PENDING", "ACCEPTED", "ENDED"}
    BY DEF EntryInv, E!TypeOK, Session
  <1>2. CASE E!Belong(p, "other") /\ UNCHANGED invitation
    BY <1>1, <1>2 DEF ServerStep, E!Belong, Settled
  <1>3. CASE /\ E!Belong(p, "inviting") /\ invitation' = "ACCEPTED"
             /\ p = Invited
    BY <1>1, <1>3 DEF ServerStep, E!Belong, Settled
  <1> QED BY <1>2, <1>3

\* Sessions of a person end while a tab is answered.
LEMMA EndingKeeps ==
  ASSUME EntryInv, NEW t \in Tab, NEW p \in Session, E!RepliesEnding(t, p),
         UNCHANGED E!server, tab[t].stage = "asked",
         tab[t].op \in {"completeReset", "logout"}
  PROVE  EntryInv'
  <1> DEFINE Now(session) == IF session = p THEN Nothing ELSE session
  <1>1. ServerStep /\ missed' = missed \cup (Tab \ {t})
    BY SameServer DEF E!RepliesEnding, EntryInv, E!TypeOK, Session
  <1>2. /\ tab'[t] = [tab[t] EXCEPT !.stage = "answered", !.answer = "ok"]
        /\ \A u \in Tab \ {t} : tab'[u] =
             [tab[u] EXCEPT !.sent = Now(tab[u].sent), !.got = Now(tab[u].got)]
        /\ tab' = [u \in Tab |-> tab'[u]]
    BY DEF E!RepliesEnding
  <1>3. \A u \in Tab : tab[u] \in TabRow
    BY DEF EntryInv, E!TypeOK, TabRow, Session
  <1>4. ASSUME NEW u \in Tab PROVE tab'[u] \in TabRow
    <2>1. CASE u = t
      BY <1>2, <1>3, <2>1 DEF TabRow, E!Answer
    <2>2. CASE u # t
      <3>1. PICK sent \in Session, got \in Session :
              tab'[u] = [tab[u] EXCEPT !.sent = sent, !.got = got]
        <4>1. tab[u].sent \in Session /\ tab[u].got \in Session
          BY <1>3 DEF TabRow
        <4>2. Now(tab[u].sent) \in Session /\ Now(tab[u].got) \in Session
          BY <4>1 DEF Session
        <4> HIDE DEF Now
        <4> QED BY <1>2, <2>2, <4>2
      <3> QED BY <1>3, <3>1 DEF TabRow
    <2> QED BY <2>1, <2>2
  <1>5. E!TypeOK'
    BY <1>1, <1>2, <1>4 DEF E!TypeOK, TabRow, ServerStep, Session
  <1>6. \A u \in Tab : CallFits(u) /\ ThroughIsHome(u) /\ AcceptanceSettles(u)
    BY DEF EntryInv
  <1>7. ASSUME NEW u \in Tab
        PROVE  TabKept(u)'
    <2>1. CASE u = t
      <3>1. /\ tab'[t].op = tab[t].op /\ tab'[t].who = tab[t].who
            /\ tab'[t].through = tab[t].through /\ tab'[t].page = tab[t].page
        BY <1>2, <1>3 DEF TabRow
      <3> QED BY <2>1, <3>1, <1>6
            DEF TabKept, CallFits, ThroughIsHome, AcceptanceSettles,
                LoginGetsItsSession
    <2>2. CASE u # t
      <3>1. /\ tab'[u].op = tab[u].op /\ tab'[u].who = tab[u].who
            /\ tab'[u].through = tab[u].through /\ tab'[u].page = tab[u].page
            /\ tab'[u].stage = tab[u].stage /\ tab'[u].answer = tab[u].answer
        <4> DEFINE sent == Now(tab[u].sent)
                   got == Now(tab[u].got)
        <4>1. tab'[u] = [tab[u] EXCEPT !.sent = sent, !.got = got]
          BY <1>2, <2>2
        <4> HIDE DEF sent, got
        <4> QED BY <1>3, <4>1 DEF TabRow
      <3> QED BY <1>1, <1>6, <2>2, <3>1
            DEF TabKept, CallFits, ThroughIsHome, AcceptanceSettles, Answered,
                ServerStep
    <2> QED BY <2>1, <2>2
  <1> QED BY <1>1, <1>5, <1>7 DEF EntryInv, TabKept, ServerStep

LEMMA WriteKeeps ==
  ASSUME E!PersonsAreKnown, EntryInv, NEW t \in Tab, E!Write(t)
  PROVE  EntryInv'
  <1> DEFINE call == tab[t]
  <1>1. /\ call.stage = "asked" /\ CallFits(t) /\ call.sent \in Session
        /\ call.who \in Session /\ account \subseteq Person
        /\ Invited \in Person
    BY DEF E!Write, EntryInv, E!TypeOK, Session, E!PersonsAreKnown
  <1>2. CASE /\ call.op = "login" /\ call.who \in account
             /\ E!Replies(t, "ok", call.who)
             /\ UNCHANGED <<E!server, entryCookie, missed>>
    <2>1. ServerStep
      BY <1>2, SameServer DEF EntryInv, E!TypeOK, Session
    <2> QED BY <1>1, <1>2, <2>1, RepliesKeeps DEF E!Answer
  <1>3. CASE /\ call.op = "register" /\ call.who \notin account
             /\ account' = account \cup {call.who} /\ E!Belong(call.who, "other")
             /\ E!Replies(t, "ok", call.who)
             /\ UNCHANGED <<invitation, entryCookie, missed>>
    <2>1. ServerStep
      BY <1>1, <1>3, JoinStep DEF CallFits
    <2> QED BY <1>1, <1>3, <2>1, RepliesKeeps DEF E!Answer
  <1>4. CASE /\ call.op = "accept" /\ E!AcceptAsNew
             /\ E!Replies(t, "ok", Invited) /\ UNCHANGED <<entryCookie, missed>>
    <2>1. ServerStep /\ invitation' # "PENDING"
      BY <1>1, <1>4, JoinStep DEF E!AcceptAsNew
    <2> QED BY <1>1, <1>4, <2>1, RepliesKeeps DEF E!Answer, Session
  <1>5. CASE /\ call.op = "acceptExisting" /\ E!AcceptAs(call.sent)
             /\ E!Replies(t, "ok", Nothing) /\ UNCHANGED <<entryCookie, missed>>
    <2>1. ServerStep /\ invitation' # "PENDING"
      BY <1>1, <1>5, JoinStep DEF E!AcceptAs
    <2>2. Settled'
      BY <2>1 DEF Settled
    <2> QED BY <1>1, <1>5, <2>1, <2>2, RepliesKeeps DEF E!Answer, Session
  <1>6. CASE /\ call.op = "completeReset"
             /\ E!RepliesEnding(t, call.who) /\ UNCHANGED E!server
    BY <1>1, <1>6, EndingKeeps
  <1>7. CASE /\ call.op = "logout"
             /\ E!RepliesEnding(t, call.sent) /\ UNCHANGED E!server
    BY <1>1, <1>7, EndingKeeps
  <1> QED BY <1>2, <1>3, <1>4, <1>5, <1>6, <1>7 DEF E!Write

\* A session ends, an invitation ends, or a member is removed.
LEMMA OthersEntryKeeps ==
  ASSUME EntryInv, E!Others
  PROVE  EntryInv'
  <1>1. CASE /\ entryCookie' = Nothing /\ missed' = missed \cup Tab
             /\ tab' = [t \in Tab |->
                  [tab[t] EXCEPT !.sent = Nothing, !.got = Nothing]]
             /\ UNCHANGED E!server
    <2>1. ServerStep
      BY <1>1, SameServer DEF EntryInv, E!TypeOK, Session
    <2>2. \A t \in Tab : tab[t] \in TabRow
      BY DEF EntryInv, E!TypeOK, TabRow, Session
    <2>3. \A t \in Tab :
            /\ tab'[t] \in TabRow /\ tab'[t].op = tab[t].op
            /\ tab'[t].who = tab[t].who
            /\ tab'[t].through = tab[t].through /\ tab'[t].page = tab[t].page
            /\ tab'[t].stage = tab[t].stage /\ tab'[t].answer = tab[t].answer
      BY <1>1, <2>2 DEF TabRow, Session
    <2>4. E!TypeOK'
      BY <1>1, <2>1, <2>3 DEF E!TypeOK, TabRow, ServerStep, Session
    <2>5. \A t \in Tab : CallFits(t) /\ ThroughIsHome(t)
                         /\ AcceptanceSettles(t)
      BY DEF EntryInv
    <2>6. \A t \in Tab : CallFits(t)' /\ ThroughIsHome(t)'
                         /\ AcceptanceSettles(t)'
      BY <2>1, <2>3, <2>5 DEF ServerStep, CallFits, ThroughIsHome,
                              AcceptanceSettles, Answered
    <2> QED BY <1>1, <2>1, <2>4, <2>6 DEF EntryInv, ServerStep
  <1>2. CASE /\ invitation = "PENDING" /\ invitation' = "ENDED"
             /\ UNCHANGED <<account, belongs, entryCookie, tab, missed>>
    BY <1>2 DEF EntryInv, E!TypeOK, CallFits, ThroughIsHome,
                AcceptanceSettles, Answered, LoginGetsItsSession, Settled
  <1>3. CASE /\ \E p \in Person : belongs[p] = "inviting" /\ E!Belong(p, "none")
             /\ UNCHANGED <<account, invitation, entryCookie, tab, missed>>
    <2>1. PICK p \in Person : belongs[p] = "inviting"
                              /\ belongs' = [belongs EXCEPT ![p] = "none"]
      BY <1>3 DEF E!Belong
    <2>2. /\ belongs' \in [Person -> {"none", "inviting", "other"}]
          /\ \A q \in Person : belongs'[q] = "inviting" => q = Invited
          /\ belongs[Invited] = "other" => belongs'[Invited] = "other"
      BY <2>1 DEF EntryInv, E!TypeOK
    <2> QED BY <1>3, <2>2
          DEF EntryInv, E!TypeOK, CallFits, ThroughIsHome,
              AcceptanceSettles, Answered, LoginGetsItsSession, Settled
  <1> QED BY <1>1, <1>2, <1>3 DEF E!Others

---------------------------------------------------------------------------
\* The page goes on, and home is reached by the invitation.
LEMMA AgainKeeps ==
  ASSUME EntryInv, NEW t \in Tab, NEW page \in E!Page, E!Again(t, page),
         UNCHANGED <<E!server, entryCookie, missed>>
  PROVE  EntryInv'
  <1>1. ServerStep
    BY SameServer DEF EntryInv, E!TypeOK, Session
  <1>2. tab[t].link \in BOOLEAN
    BY DEF EntryInv, E!TypeOK
  <1>3. tab' = [tab EXCEPT ![t] =
          E!Shows(page, tab[t].link, FALSE, entryCookie')]
    BY DEF E!Again
  <1> QED BY <1>1, <1>2, <1>3, GoesKeeps

\* The session of an answer becomes the browser's.
LEMMA TakesStep ==
  ASSUME EntryInv, NEW t \in Tab, NEW session \in Session, E!Takes(t, session),
         UNCHANGED E!server
  PROVE  ServerStep /\ missed \subseteq missed' \cup {t}
  <1>1. missed' \subseteq Tab /\ missed \subseteq missed' /\ entryCookie' = session
    BY DEF E!Takes, EntryInv, E!TypeOK
  <1> QED BY <1>1, SameServer

\* The invitation is accepted for the session there is.
LEMMA AsksExistingKeeps ==
  ASSUME EntryInv, NEW t \in Tab, NEW sent \in Session, NEW got \in Session,
         ServerStep, missed \subseteq missed' \cup {t},
         tab[t].stage = "answered", tab[t].op \in {"login", "accept"},
         tab' = [tab EXCEPT ![t].op = "acceptExisting", ![t].stage = "asked",
                            ![t].answer = "none", ![t].sent = sent,
                            ![t].got = got],
         t \notin missed' /\ tab[t].page = "login" => sent = tab[t].who
  PROVE  EntryInv'
  <1> DEFINE row == [tab[t] EXCEPT !.op = "acceptExisting", !.stage = "asked",
                                   !.answer = "none", !.sent = sent, !.got = got]
  <1>1. tab[t] \in TabRow
    BY DEF EntryInv, E!TypeOK, TabRow, Session
  <1>2. row \in TabRow
    BY <1>1 DEF TabRow, E!Op, E!Answer
  <1>3. tab' = [tab EXCEPT ![t] = row] /\ tab'[t] = row
    BY DEF EntryInv, E!TypeOK
  <1>4. /\ row.op = "acceptExisting" /\ row.stage = "asked"
        /\ row.who = tab[t].who /\ row.through = tab[t].through
        /\ row.page = tab[t].page /\ row.sent = sent
    BY <1>1 DEF TabRow
  <1>5. ~tab[t].through
    BY <1>1 DEF EntryInv, ThroughIsHome, TabRow
  <1> HIDE DEF row
  <1>6. TabKept(t)'
    BY <1>3, <1>4, <1>5
    DEF TabKept, CallFits, ThroughIsHome, AcceptanceSettles, Answered,
        LoginGetsItsSession
  <1> QED BY <1>2, <1>3, <1>6, TabStep

LEMMA CheckedKeeps ==
  ASSUME EntryInv, NEW t \in Tab, E!Checked(t)
  PROVE  EntryInv'
  <1>1. ServerStep /\ UNCHANGED missed
    BY SameServer DEF E!Checked, EntryInv, E!TypeOK, Session
  <1>2. PICK page \in E!Page :
          tab' = [tab EXCEPT ![t] = E!Shows(page, FALSE, FALSE, entryCookie')]
    BY DEF E!Checked, E!Goes, E!Page
  <1> QED BY <1>1, <1>2, GoesKeeps

LEMMA LoggedInKeeps ==
  ASSUME EntryInv, NEW t \in Tab, E!LoggedIn(t)
  PROVE  EntryInv'
  <1>1. /\ tab[t].stage = "answered" /\ tab[t].op = "login"
        /\ tab[t].got \in Session /\ Nothing \in Session
        /\ UNCHANGED E!server
    BY DEF E!LoggedIn, E!Comes, EntryInv, E!TypeOK, Session
  <1>2. CASE E!Ok(t) /\ E!Takes(t, tab[t].got) /\ E!Goes(t, "home", FALSE, FALSE)
    <2>1. ServerStep /\ missed \subseteq missed' \cup {t}
      BY <1>1, <1>2, TakesStep
    <2> QED BY <1>2, <2>1, GoesKeeps DEF E!Goes, E!Page
  <1>3. CASE /\ E!Ok(t) /\ E!Takes(t, tab[t].got)
             /\ tab' = [tab EXCEPT ![t].op = "acceptExisting",
                  ![t].stage = "asked", ![t].answer = "none",
                  ![t].sent = tab[t].got, ![t].got = Nothing]
    <2>1. ServerStep /\ missed \subseteq missed' \cup {t}
      BY <1>1, <1>3, TakesStep
    <2>2. t \notin missed' => t \notin missed
      BY <1>3 DEF E!Takes
    <2>3. t \notin missed => tab[t].got = tab[t].who
      BY <1>1, <1>3 DEF EntryInv, LoginGetsItsSession, Answered, E!Ok
    <2> QED BY <1>1, <1>3, <2>1, <2>2, <2>3, AsksExistingKeeps
  <1>4. CASE E!Again(t, "login") /\ UNCHANGED <<entryCookie, missed>>
    BY <1>1, <1>4, AgainKeeps DEF E!Page
  <1> QED BY <1>2, <1>3, <1>4 DEF E!LoggedIn

LEMMA RegisteredKeeps ==
  ASSUME EntryInv, NEW t \in Tab, E!Registered(t)
  PROVE  EntryInv'
  <1>1. tab[t].got \in Session /\ UNCHANGED E!server
    BY DEF E!Registered, EntryInv, E!TypeOK, Session
  <1>2. CASE E!Takes(t, tab[t].got) /\ E!Goes(t, "home", FALSE, FALSE)
    <2>1. ServerStep /\ missed \subseteq missed' \cup {t}
      BY <1>1, <1>2, TakesStep
    <2> QED BY <1>2, <2>1, GoesKeeps DEF E!Goes, E!Page
  <1>3. CASE E!Again(t, "register") /\ UNCHANGED <<entryCookie, missed>>
    BY <1>1, <1>3, AgainKeeps DEF E!Page
  <1> QED BY <1>2, <1>3 DEF E!Registered

LEMMA AcceptedKeeps ==
  ASSUME EntryInv, NEW t \in Tab, E!Accepted(t)
  PROVE  EntryInv'
  <1>1. /\ tab[t].stage = "answered" /\ tab[t].op = "accept"
        /\ tab[t].got \in Session /\ entryCookie \in Session
        /\ UNCHANGED E!server
    BY DEF E!Accepted, E!Comes, EntryInv, E!TypeOK, Session
  <1>2. CASE E!Ok(t) /\ E!Takes(t, tab[t].got) /\ E!Goes(t, "home", FALSE, TRUE)
    <2>1. ServerStep /\ missed \subseteq missed' \cup {t}
      BY <1>1, <1>2, TakesStep
    <2>2. invitation # "PENDING"
      BY <1>1, <1>2 DEF EntryInv, AcceptanceSettles, Answered, E!Ok
    <2> QED BY <1>2, <2>1, <2>2, GoesKeeps DEF E!Goes, E!Page, Settled, ServerStep
  <1>3. CASE /\ tab' = [tab EXCEPT ![t].op = "acceptExisting",
                  ![t].stage = "asked", ![t].answer = "none",
                  ![t].sent = entryCookie]
             /\ UNCHANGED <<entryCookie, missed>>
    <2>1. ServerStep
      BY <1>1, <1>3, SameServer DEF EntryInv, E!TypeOK, Session
    <2>2. tab' = [tab EXCEPT ![t].op = "acceptExisting", ![t].stage = "asked",
                    ![t].answer = "none", ![t].sent = entryCookie,
                    ![t].got = tab[t].got]
      BY <1>3 DEF EntryInv, E!TypeOK
    <2>3. tab[t].page # "login"
      BY <1>1 DEF EntryInv, CallFits
    <2>4. missed \subseteq missed' \cup {t}
      BY <1>3
    <2> QED BY <1>1, <2>1, <2>2, <2>3, <2>4, AsksExistingKeeps
  <1>4. CASE E!Again(t, "invitation") /\ UNCHANGED <<entryCookie, missed>>
    BY <1>1, <1>4, AgainKeeps DEF E!Page
  <1> QED BY <1>2, <1>3, <1>4 DEF E!Accepted

LEMMA AcceptedExistingKeeps ==
  ASSUME EntryInv, NEW t \in Tab, E!AcceptedExisting(t)
  PROVE  EntryInv'
  <1>1. /\ tab[t].stage = "answered" /\ tab[t].op = "acceptExisting"
        /\ UNCHANGED <<E!server, entryCookie, missed>>
        /\ ServerStep
    BY SameServer DEF E!AcceptedExisting, E!Comes, EntryInv, E!TypeOK, Session
  <1>2. CASE /\ tab[t].page = "login"
             /\ E!Goes(t, "home", FALSE, tab[t].who = Invited)
    <2>1. t \notin missed /\ tab[t].who = Invited => Settled
      BY <1>1, <1>2 DEF EntryInv, LoginGetsItsSession, Answered
    <2>2. t \notin missed' /\ tab[t].who = Invited => Settled'
      BY <1>1, <2>1 DEF ServerStep
    <2> QED BY <1>1, <1>2, <2>2, GoesKeeps DEF E!Goes, E!Page
  <1>3. CASE E!Ok(t) /\ E!Goes(t, "home", FALSE, TRUE)
    <2>1. invitation # "PENDING"
      BY <1>1, <1>3 DEF EntryInv, AcceptanceSettles, Answered, E!Ok
    <2> QED BY <1>1, <1>3, <2>1, GoesKeeps DEF E!Goes, E!Page, Settled, ServerStep
  <1>4. CASE E!Again(t, "loginRequired")
    BY <1>1, <1>4, AgainKeeps DEF E!Page
  <1> QED BY <1>2, <1>3, <1>4 DEF E!AcceptedExisting

LEMMA ResetComesKeeps ==
  ASSUME EntryInv, NEW t \in Tab, E!ResetComes(t)
  PROVE  EntryInv'
  <1>1. UNCHANGED <<E!server, entryCookie, missed>> /\ ServerStep
    BY SameServer DEF E!ResetComes, EntryInv, E!TypeOK, Session
  <1>2. ASSUME NEW page \in {"requested", "updated", "reset"}, E!Again(t, page)
        PROVE  EntryInv'
    BY <1>1, <1>2, AgainKeeps DEF E!Page
  <1>3. CASE E!Goes(t, "login", FALSE, FALSE)
    BY <1>1, <1>3, GoesKeeps DEF E!Goes, E!Page
  <1> QED BY <1>2, <1>3 DEF E!ResetComes

LEMMA SignedOutKeeps ==
  ASSUME EntryInv, NEW t \in Tab, E!SignedOut(t)
  PROVE  EntryInv'
  <1>1. CASE E!Takes(t, Nothing) /\ E!Goes(t, "login", FALSE, FALSE)
    <2>1. ServerStep /\ missed \subseteq missed' \cup {t}
      BY <1>1, TakesStep DEF E!SignedOut, Session
    <2> QED BY <1>1, <2>1, GoesKeeps DEF E!Goes, E!Page
  <1>2. CASE /\ UNCHANGED <<entryCookie, missed>>
             /\ tab' = [tab EXCEPT ![t].stage = "idle", ![t].op = "none"]
    <2> DEFINE row == [tab[t] EXCEPT !.stage = "idle", !.op = "none"]
    <2>1. tab[t] \in TabRow /\ ServerStep /\ tab[t].op = "logout"
      BY <1>2, SameServer
      DEF EntryInv, E!TypeOK, TabRow, Session, E!SignedOut, E!Comes
    <2>2. row \in TabRow
      BY <2>1 DEF TabRow, E!Op
    <2>3. tab' = [tab EXCEPT ![t] = row] /\ tab'[t] = row
      BY <1>2 DEF EntryInv, E!TypeOK
    <2>4. /\ row.op = "none" /\ row.stage = "idle"
          /\ row.through = tab[t].through
      BY <2>1 DEF TabRow
    <2>5. ~tab[t].through
      BY <2>1 DEF EntryInv, ThroughIsHome, TabRow
    <2> HIDE DEF row
    <2>6. TabKept(t)'
      BY <2>3, <2>4, <2>5
      DEF TabKept, CallFits, ThroughIsHome, AcceptanceSettles, Answered,
          LoginGetsItsSession
    <2>7. missed \subseteq missed' \cup {t}
      BY <1>2
    <2> QED BY <2>1, <2>2, <2>3, <2>6, <2>7, TabStep
  <1> QED BY <1>1, <1>2 DEF E!SignedOut

---------------------------------------------------------------------------
LEMMA EntryStarts == ASSUME E!PersonsAreKnown, E!Init PROVE EntryInv
  <1> DEFINE row == E!Shows("landing", FALSE, FALSE, Nothing)
  <1>1. row \in TabRow
    BY ShowsType DEF E!Page, Session
  <1>2. /\ row.op = "none" /\ row.through = FALSE /\ row.page = "landing"
        /\ row.stage = "idle"
    BY DEF E!Shows, E!Mounted
  <1>3. /\ tab = [t \in Tab |-> row] /\ account \subseteq Person
        /\ belongs = [p \in Person |-> "none"] /\ invitation = "PENDING"
        /\ entryCookie = Nothing /\ missed = {}
    BY DEF E!Init
  <1> HIDE DEF row
  <1>4. E!TypeOK
    BY <1>1, <1>3 DEF E!TypeOK, TabRow, Session
  <1> QED BY <1>2, <1>3, <1>4
        DEF EntryInv, CallFits, ThroughIsHome, AcceptanceSettles, Answered,
            LoginGetsItsSession

LEMMA EntryStep ==
  ASSUME E!PersonsAreKnown, EntryInv, E!Next
  PROVE  EntryInv'
  <1>1. ASSUME NEW t \in Tab,
               \/ E!Visit(t) \/ E!SignInToAccept(t) \/ E!Submit(t)
               \/ E!Read(t) \/ E!Write(t) \/ E!Refuse(t) \/ E!Fail(t)
        PROVE  EntryInv'
    BY <1>1, VisitKeeps, SubmitKeeps, ReadKeeps, WriteKeeps, RefuseKeeps, FailKeeps
  <1>2. ASSUME NEW t \in Tab,
               \/ E!Checked(t) \/ E!LoggedIn(t) \/ E!Registered(t)
               \/ E!Accepted(t) \/ E!AcceptedExisting(t) \/ E!ResetComes(t)
               \/ E!SignedOut(t)
        PROVE  EntryInv'
    BY <1>2, CheckedKeeps, LoggedInKeeps, RegisteredKeeps, AcceptedKeeps,
       AcceptedExistingKeeps, ResetComesKeeps, SignedOutKeeps
  <1> QED BY <1>1, <1>2, OthersEntryKeeps DEF E!Next

LEMMA EntryUnchanged == EntryInv /\ UNCHANGED E!vars => EntryInv'
  BY DEF E!vars, E!server, EntryInv, E!TypeOK, CallFits, ThroughIsHome,
         AcceptanceSettles, Answered, LoginGetsItsSession, Settled

LEMMA EntryKept ==
  ASSUME E!PersonsAreKnown
  PROVE  E!Init /\ [][E!Next]_E!vars => []EntryInv
  BY EntryStarts, EntryStep, EntryUnchanged, PTL

---------------------------------------------------------------------------
(* The page in focus runs as if alone.                                     *)

Focused(part) == focus = part

\* The choice is made once.
LEMMA FocusStays ==
  \A part : [PagesNext]_pagesVars => (Focused(part)' <=> Focused(part))
  BY DEF PagesNext, pagesVars, Focused

LEMMA DirectoryRun ==
  PagesSpec /\ Focused("directory") => D!Init /\ [][D!Next]_D!vars
  <1>1. PagesInit /\ Focused("directory") => D!Init
    BY DEF PagesInit, Focused
  <1>2. Focused("directory") /\ [PagesNext]_pagesVars => [D!Next]_D!vars
    BY DEF PagesNext, pagesVars, pageVars, directoryVars, Focused, D!vars,
           D!requests, D!page
  <1>3. [PagesNext]_pagesVars => (Focused("directory")' <=> Focused("directory"))
    BY FocusStays
  <1> QED BY <1>1, <1>2, <1>3, PTL DEF PagesSpec

LEMMA CompaniesRun ==
  PagesSpec /\ Focused("companies") => C!Init /\ [][C!Next]_C!vars
  <1>1. PagesInit /\ Focused("companies") => C!Init
    BY DEF PagesInit, Focused
  <1>2. Focused("companies") /\ [PagesNext]_pagesVars => [C!Next]_C!vars
    BY DEF PagesNext, pagesVars, pageVars, companiesVars, Focused, C!vars,
           C!requests, C!rows, C!lists
  <1>3. [PagesNext]_pagesVars => (Focused("companies")' <=> Focused("companies"))
    BY FocusStays
  <1> QED BY <1>1, <1>2, <1>3, PTL DEF PagesSpec

LEMMA MembersRun ==
  PagesSpec /\ Focused("members") => M!Init /\ [][M!Next]_M!vars
  <1>1. PagesInit /\ Focused("members") => M!Init
    BY DEF PagesInit, Focused
  <1>2. Focused("members") /\ [PagesNext]_pagesVars => [M!Next]_M!vars
    BY DEF PagesNext, pagesVars, pageVars, membersVars, Focused, M!vars,
           M!requests, M!rows, M!lists
  <1>3. [PagesNext]_pagesVars => (Focused("members")' <=> Focused("members"))
    BY FocusStays
  <1> QED BY <1>1, <1>2, <1>3, PTL DEF PagesSpec

LEMMA EntryRun ==
  PagesSpec /\ Focused("entry") => E!Init /\ [][E!Next]_E!vars
  <1>1. PagesInit /\ Focused("entry") => E!Init
    BY DEF PagesInit, Focused
  <1>2. Focused("entry") /\ [PagesNext]_pagesVars => [E!Next]_E!vars
    BY DEF PagesNext, pagesVars, entryVars, Focused, E!vars, E!server
  <1>3. [PagesNext]_pagesVars => (Focused("entry")' <=> Focused("entry"))
    BY FocusStays
  <1> QED BY <1>1, <1>2, <1>3, PTL DEF PagesSpec

\* The invariants of the pages.
LEMMA PagesKept ==
  ASSUME PagesConstants
  PROVE  PagesSpec => [](/\ Focused("directory") => DirectoryInv
                         /\ Focused("companies") => CompaniesInv
                         /\ Focused("members") => MembersInv
                         /\ Focused("entry") => EntryInv)
  <1>1. D!Init /\ [][D!Next]_D!vars => []DirectoryInv
    BY DirectoryKept DEF PagesConstants, DirectoryConstants
  <1>2. C!Init /\ [][C!Next]_C!vars => []CompaniesInv
    BY CompaniesKept DEF PagesConstants, CompaniesConstants
  <1>3. M!Init /\ [][M!Next]_M!vars => []MembersInv
    BY MembersKept DEF PagesConstants, MembersConstants
  <1>4. E!Init /\ [][E!Next]_E!vars => []EntryInv
    BY EntryKept DEF PagesConstants
  <1>5. [PagesNext]_pagesVars =>
          /\ Focused("directory")' <=> Focused("directory")
          /\ Focused("companies")' <=> Focused("companies")
          /\ Focused("members")' <=> Focused("members")
          /\ Focused("entry")' <=> Focused("entry")
    BY FocusStays
  <1> QED BY <1>1, <1>2, <1>3, <1>4, <1>5, DirectoryRun, CompaniesRun,
          MembersRun, EntryRun, PTL DEF PagesSpec

---------------------------------------------------------------------------
(* The theorems                                                            *)

\* login and invitations/accept: whatever tabs, sessions and failures a browser
\* has, the link of an invitation lets in the invited person and nobody else;
\* and who comes home by it has left no invitation open, unless a call failed or
\* the session was changed meanwhile, or that person belongs elsewhere.
THEOREM EntryJoinsAsInvited ==
  ASSUME PagesConstants PROVE PagesSpec => []JoinsAsInvited
  <1>1. (Focused("entry") => EntryInv) => JoinsAsInvited
    BY DEF Focused, EntryInv, JoinsAsInvited, E!JoinsAsInvited, Settled
  <1> QED BY <1>1, PagesKept, PTL

\* members/page.tsx: whatever the order of lists, clicks and failed saves, the
\* rights in the editor, in a save under way and of the member are rights that
\* some Administrator chose for that very member.
THEOREM RightsStayWithTheirMember ==
  ASSUME PagesConstants PROVE PagesSpec => []RightsBelongToTheirMember
  <1>1. (Focused("members") => MembersInv) => RightsBelongToTheirMember
    BY MembersRequests
    DEF Focused, MembersInv, MembersCalls, MembersCall, RightsBelongToTheirMember,
        M!RightsBelongToTheirMember
  <1> QED BY <1>1, PagesKept, PTL

\* The three pages that list something: when no request is under way the page
\* shows all that was done on it, unless a list failed, the answer to a change
\* was lost, or an older list was answered after a newer one.
THEOREM WorkIsShown ==
  ASSUME PagesConstants PROVE PagesSpec => []OwnWorkIsShown
  <1>1. /\ DirectoryInv => D!OwnWorkIsShown
        /\ CompaniesInv => C!OwnWorkIsShown
        /\ MembersInv => M!OwnWorkIsShown
    BY PendingIsShown, DirectoryRequests, CompaniesRequests, MembersRequests
    DEF DirectoryInv, CompaniesInv, MembersInv
  <1>2. /\ Focused("directory") => DirectoryInv
        /\ Focused("companies") => CompaniesInv
        /\ Focused("members") => MembersInv
        => OwnWorkIsShown
    BY <1>1 DEF Focused, OwnWorkIsShown
  <1> QED BY <1>2, PagesKept, PTL

\* The types of the pages; on the Companies page there is a wizard just when
\* the row of its Company is there, and a Business Scope is kept under one
\* Company only.
THEOREM PageTypesCorrect ==
  ASSUME PagesConstants PROVE PagesSpec => []TypesOK
  <1>1. /\ Focused("directory") => DirectoryInv
        /\ Focused("companies") => CompaniesInv
        /\ Focused("members") => MembersInv
        /\ Focused("entry") => EntryInv
        => TypesOK
    BY DirectoryTypes, CompaniesTypes
    DEF Focused, TypesOK, MembersInv, EntryInv
  <1> QED BY <1>1, PagesKept, PTL
=============================================================================
