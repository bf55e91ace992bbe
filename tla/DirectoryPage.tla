---------------------------- MODULE DirectoryPage ----------------------------
(***************************************************************************)
(* The Organization directory of a Platform Administrator, and the panel   *)
(* with the details and actions of the selected Organization               *)
(* (apps/web/src/app/platform-admin).                                      *)
(*                                                                         *)
(* A function that awaits keeps the search text and the selection of the   *)
(* render that made it: "search" and "kept" of a call.  The panel keeps    *)
(* its state when another row is selected, and loses it when it is         *)
(* unmounted; what it awaits then goes on.  The API is as in Organizations.*)
(***************************************************************************)
EXTENDS PageRequests, Naturals, FiniteSets

CONSTANTS
  Org,      \* Organizations, by the time of their creation
  Search,   \* search texts, each as the set of Organizations it matches
  MaxChange \* bound: how many changes are ever made to Organizations

\* Of the constants.
NothingIsNothing == Nothing \notin Org \cup Flow
OrgsAreOrdered ==
  /\ Org \in Search
  /\ \A S \in SUBSET Org : S # {} => \E o \in S : \A p \in S : p <= o
ChangesAreCounted == MaxChange \in Nat

VARIABLES
  org,       \* the access status of each Organization
  changes,   \* made so far
  items, selected, search, loading,  \* state of PlatformAdminPage
  panel      \* pendingAction, and the flow that keeps the panel busy; the
             \* reason is taken to be entered

page == <<items, selected, search, loading, panel>>
vars == <<requests, org, changes, page>>

Access == {"NONE", "PROVISIONING", "ACTIVE", "SUSPENDED", "DISABLED"}
Action == {"suspend", "reactivate", "disable"}
From(a) == CASE a = "suspend" -> {"ACTIVE"}
             [] a = "reactivate" -> {"SUSPENDED"}
             [] a = "disable" -> {"ACTIVE", "SUSPENDED"}
To(a) == CASE a = "suspend" -> "SUSPENDED"
           [] a = "reactivate" -> "ACTIVE"
           [] a = "disable" -> "DISABLED"

Directory == {"directory"}
NoPanel == [action |-> "none", busy |-> Nothing]
Call == [op : {"list", "create", "transition", "commercial"},
         org : Org \cup {Nothing}, action : Action \cup {"none"},
         search : Search, kept : Org \cup {Nothing},
         created : Org \cup {Nothing}]
NewCall(op) == [op |-> op, org |-> Nothing, action |-> "none", search |-> search,
                kept |-> selected, created |-> Nothing]

Newest(rows) == CHOOSE o \in rows : \A p \in rows : p <= o
First(rows) == IF rows = {} THEN Nothing ELSE Newest(rows)
Shown == IF selected \in DOMAIN items THEN selected ELSE Nothing
Creating == \E f \in Flow :
  flow[f] # NoFlow /\ (flow[f].call.op = "create" \/ flow[f].call.created # Nothing)

\* The page is opened: its first list is under way.
Init ==
  /\ org \in {a \in [Org -> {"NONE", "PROVISIONING", "ACTIVE"}] :
                \A o, p \in Org : o < p /\ a[p] # "NONE" => a[o] # "NONE"}
  /\ changes = 0
  /\ items = <<>> /\ selected = Nothing /\ search = Org /\ loading = TRUE
  /\ panel = NoPanel
  /\ \E f \in Flow :
       flow = [g \in Flow |->
         IF g = f THEN Asked(NewCall("list"), Directory, {}) ELSE NoFlow]
  /\ unseen = {} /\ excused = {}

---------------------------------------------------------------------------
(* PlatformAdminPage *)

Type == \E s \in Search :
  /\ search' = s
  /\ UNCHANGED <<requests, org, changes, items, selected, loading, panel>>

\* The form of the search.
SearchNow(f) ==
  /\ Ask(f, NewCall("list"), Directory, {})
  /\ loading' = TRUE
  /\ UNCHANGED <<org, changes, items, selected, search, panel>>

\* Rows are there to be clicked unless the page is loading.
Select == \E o \in DOMAIN items :
  /\ ~loading
  /\ selected' = o
  /\ UNCHANGED <<requests, org, changes, items, search, loading, panel>>

OnCreate(f) ==
  /\ ~Creating
  /\ Ask(f, NewCall("create"), {}, Directory)
  /\ UNCHANGED <<org, changes, page>>

\* refresh: the list that follows, with the search and the selection of the
\* render that started the flow.
Refresh(f, created) ==
  /\ Then(f, [flow[f].call EXCEPT !.op = "list", !.created = created], Directory)
  /\ loading' = TRUE

\* Mutant: the new Organization is not listed.
CreatedUnlisted(f) ==
  /\ Comes(f, "create")
  /\ End(f)
  /\ UNCHANGED <<org, changes, page>>

Created(f) ==
  \/ /\ Works(f, "create") /\ Refresh(f, flow[f].answer)
     /\ UNCHANGED <<org, changes, items, selected, search, panel>>
  \/ Fails(f, "create") /\ End(f) /\ UNCHANGED <<org, changes, page>>

\* Mutant: the panel outlives its row.
RemainingAnyway(row) == panel

\* Without a row to show the panel is unmounted.
Remaining(row) == IF row = Nothing THEN NoPanel ELSE panel

\* The list has come; a creation then selects what it created, listed or not.
Listed(f) ==
  LET call == flow[f].call
      rows == IF flow[f].ok THEN flow[f].answer ELSE items
      chosen == IF ~flow[f].ok \/ call.kept \in DOMAIN rows THEN selected
                ELSE First(DOMAIN rows)
      next == IF call.created # Nothing THEN call.created ELSE chosen IN
  /\ Comes(f, "list")
  /\ flow' = [flow EXCEPT ![f] = NoFlow]
  /\ IF flow[f].ok THEN Showing(f) ELSE NotShowing(f)
  /\ items' = rows
  /\ selected' = next
  /\ loading' = FALSE
  /\ panel' = Remaining(IF next \in DOMAIN rows THEN next ELSE Nothing)
  /\ UNCHANGED <<org, changes, search>>

---------------------------------------------------------------------------
(* OrganizationDetailPanel *)

\* The buttons there are depend on the status that is shown.
Choose(a) ==
  /\ Shown # Nothing /\ panel.busy = Nothing
  /\ items[Shown] \in From(a)
  /\ panel' = [panel EXCEPT !.action = a]
  /\ UNCHANGED <<requests, org, changes, items, selected, search, loading>>

Cancel ==
  /\ Shown # Nothing /\ panel.action # "none"
  /\ panel' = [panel EXCEPT !.action = "none"]
  /\ UNCHANGED <<requests, org, changes, items, selected, search, loading>>

ConfirmAction(f) ==
  /\ Shown # Nothing /\ panel.action # "none" /\ panel.busy = Nothing
  /\ Ask(f, [NewCall("transition") EXCEPT !.org = Shown, !.action = panel.action],
         {}, Directory)
  /\ panel' = [panel EXCEPT !.busy = f]
  /\ UNCHANGED <<org, changes, items, selected, search, loading>>

OnCommercialChange(f) ==
  /\ Shown # Nothing /\ panel.busy = Nothing
  /\ Ask(f, [NewCall("commercial") EXCEPT !.org = Shown], {}, Directory)
  /\ panel' = [panel EXCEPT !.busy = f]
  /\ UNCHANGED <<org, changes, items, selected, search, loading>>

Freed(f) == IF panel.busy = f THEN [panel EXCEPT !.busy = Nothing] ELSE panel
Closed(f) ==
  IF panel.busy = f /\ flow[f].call.op = "transition" THEN NoPanel ELSE Freed(f)

\* A panel that was unmounted meanwhile still calls onChange.
Done(f) ==
  /\ Comes(f, "transition") \/ Comes(f, "commercial")
  /\ \/ flow[f].ok /\ Refresh(f, Nothing) /\ panel' = Closed(f)
     \/ ~flow[f].ok /\ End(f) /\ panel' = Freed(f) /\ UNCHANGED loading
  /\ UNCHANGED <<org, changes, items, selected, search>>

---------------------------------------------------------------------------
(* The API, and other administrators. *)

Existing == {o \in Org : org[o] # "NONE"}
Fresh == {o \in Org \ Existing : \A p \in Org : p < o => p \in Existing}
Counted == changes < MaxChange /\ changes' = changes + 1

ServeList(f) ==
  /\ Waits(f, "list")
  /\ \/ Refuse(f)
     \/ Tell(f, [o \in Existing \cap flow[f].call.search |-> org[o]])
  /\ UNCHANGED <<org, changes, page>>

ServeCreate(f) ==
  /\ Waits(f, "create")
  /\ \/ Refuse(f) /\ UNCHANGED <<org, changes>>
     \/ \E o \in Fresh :
          /\ Counted /\ Change(f, o)
          /\ org' = [org EXCEPT ![o] = "PROVISIONING"]
  /\ UNCHANGED page

ServeTransition(f) ==
  LET o == flow[f].call.org
      a == flow[f].call.action IN
  /\ Waits(f, "transition")
  /\ \/ Refuse(f) /\ UNCHANGED <<org, changes>>
     \/ /\ org[o] \in From(a) /\ Counted /\ Change(f, Nothing)
        /\ org' = [org EXCEPT ![o] = To(a)]
  /\ UNCHANGED page

\* The commercial status itself is left out.
ServeCommercial(f) ==
  /\ Waits(f, "commercial")
  /\ \/ Refuse(f) /\ UNCHANGED changes
     \/ Counted /\ Change(f, Nothing)
  /\ UNCHANGED <<org, page>>

LoseAnswer(f) == Drop(f) /\ UNCHANGED <<org, changes, page>>

Others ==
  /\ Counted
  /\ \/ \E o \in Fresh : org' = [org EXCEPT ![o] = "PROVISIONING"]
     \/ \E o \in Existing, a \in Action :
          org[o] \in From(a) /\ org' = [org EXCEPT ![o] = To(a)]
     \/ \E o \in Org : org[o] = "PROVISIONING" /\ org' = [org EXCEPT ![o] = "ACTIVE"]
  /\ UNCHANGED <<requests, page>>

Next ==
  \/ \E f \in Flow :
       \/ SearchNow(f) \/ OnCreate(f) \/ Created(f) \/ Listed(f)
       \/ ConfirmAction(f) \/ OnCommercialChange(f) \/ Done(f)
       \/ ServeList(f) \/ ServeCreate(f) \/ ServeTransition(f)
       \/ ServeCommercial(f) \/ LoseAnswer(f)
  \/ Type \/ Select \/ Cancel \/ Others
  \/ \E a \in Action : Choose(a)

Spec == Init /\ [][Next]_vars

---------------------------------------------------------------------------
(* Properties *)

\* The types; and a panel that is not shown keeps nothing.
TypeOK ==
  /\ org \in [Org -> Access]
  /\ changes \in 0..MaxChange
  /\ DOMAIN items \subseteq Org
  /\ \A o \in DOMAIN items : items[o] \in Access
  /\ selected \in Org \cup {Nothing}
  /\ search \in Search
  /\ loading \in BOOLEAN
  /\ panel \in [action : Action \cup {"none"}, busy : Flow \cup {Nothing}]
  /\ \A f \in Flow : flow[f] # NoFlow => flow[f].call \in Call
  /\ Shown = Nothing => panel = NoPanel

\* "Keep the current selection only if it's still in the (possibly filtered)
\* results; otherwise fall back to the first row" (page.tsx 34-36): a list
\* that comes for itself changes the selection in that way only.
SelectionFollowsResults ==
  [][\A f \in Flow :
       Works(f, "list") /\ flow[f].call.created = Nothing /\ flow'[f] = NoFlow =>
         selected' = IF selected \in DOMAIN items' THEN selected
                     ELSE First(DOMAIN items')]_vars
=============================================================================
