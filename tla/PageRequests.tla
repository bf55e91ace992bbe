---------------------------- MODULE PageRequests ----------------------------
(***************************************************************************)
(* The requests of one page of the web application (apps/web): a click     *)
(* starts a flow of calls to the API, and while one awaits an answer the   *)
(* page goes on taking clicks, so that flows overlap.  A call is handled   *)
(* by the API at one moment and its answer is applied at a later one;      *)
(* answers come in any order.  A page EXTENDS this module with its own     *)
(* state and calls.                                                        *)
(*                                                                         *)
(* A view is something the page lists.  To ask whether a page shows what   *)
(* it did, the module remembers the views on which a change by this page   *)
(* is not shown yet.                                                       *)
(***************************************************************************)
CONSTANTS
  Flow,    \* flows under way at a time
  View,    \* what the page lists
  Nothing

VARIABLES
  flow,
  unseen,  \* views that do not show a change this page made
  excused  \* those among them where a list or an answer was lost, or where an
           \* older list was answered after a newer one

requests == <<flow, unseen, excused>>

\* "lists" and "touches" are the views that the call lists or changes; "read"
\* those listed by now, and "old" those this page has changed since: the answer
\* does not show it.
NoFlow == [stage |-> "none", call |-> Nothing, lists |-> {}, touches |-> {},
           read |-> {}, old |-> {}, ok |-> FALSE, answer |-> Nothing]
Asked(call, lists, touches) ==
  [NoFlow EXCEPT !.stage = "asked", !.call = call, !.lists = lists,
                 !.touches = touches]

\* f is a flow whose running call is of a kind, at a stage.
Waits(f, op) == flow[f].stage = "asked" /\ flow[f].call.op = op
Comes(f, op) == flow[f].stage = "answered" /\ flow[f].call.op = op
Fails(f, op) == Comes(f, op) /\ ~flow[f].ok
Works(f, op) == Comes(f, op) /\ flow[f].ok
NoFlows == \A f \in Flow : flow[f] = NoFlow

---------------------------------------------------------------------------
(* The page calls. *)

Ask(f, call, lists, touches) ==
  /\ flow[f] = NoFlow
  /\ flow' = [flow EXCEPT ![f] = Asked(call, lists, touches)]
  /\ UNCHANGED <<unseen, excused>>

---------------------------------------------------------------------------
(* The API handles the call. *)

\* It reads, or refuses.
Tell(f, answer) ==
  /\ flow' = [flow EXCEPT ![f].stage = "answered", ![f].ok = TRUE,
                          ![f].answer = answer, ![f].read = flow[f].lists]
  /\ UNCHANGED <<unseen, excused>>
Refuse(f) ==
  /\ flow' = [flow EXCEPT ![f].stage = "answered", ![f].answer = Nothing,
                          ![f].read = {}, ![f].old = {}]
  /\ UNCHANGED <<unseen, excused>>

\* It changes what the page lists: lists already answered are out of date.
Change(f, answer) ==
  LET views == flow[f].touches IN
  /\ flow' = [g \in Flow |->
       IF g = f
       THEN [flow[f] EXCEPT !.stage = "answered", !.ok = TRUE, !.answer = answer]
       ELSE [flow[g] EXCEPT !.old = @ \cup (flow[g].read \cap views)]]
  /\ unseen' = unseen \cup views
  /\ UNCHANGED excused

\* The answer does not arrive, whatever the API did: apiFetch throws.
Drop(f) ==
  /\ flow[f].stage = "answered" /\ flow[f].ok
  /\ flow' = [flow EXCEPT ![f].ok = FALSE, ![f].answer = Nothing,
                          ![f].read = {}, ![f].old = {}]
  /\ excused' = excused \cup flow[f].touches
  /\ UNCHANGED unseen

---------------------------------------------------------------------------
(* The page goes on with the answer. *)

\* The next call of the flow, or its end.
Then(f, call, lists) ==
  /\ flow' = [flow EXCEPT ![f] = Asked(call, lists, {})]
  /\ UNCHANGED <<unseen, excused>>
End(f) == flow' = [flow EXCEPT ![f] = NoFlow] /\ UNCHANGED <<unseen, excused>>

\* The list is shown; what this page changed since is not.
Showing(f) ==
  LET views == flow[f].lists
      old == flow[f].old IN
  /\ unseen' = (unseen \ views) \cup old
  /\ excused' = (excused \ (views \ old)) \cup (old \ unseen)

\* The list failed.
NotShowing(f) ==
  excused' = excused \cup (flow[f].lists \cap unseen) /\ UNCHANGED unseen

---------------------------------------------------------------------------
(* When nothing is under way the page shows all that it has changed, unless *)
(* a list failed, the answer to the change was lost, or an older list       *)
(* overtook a newer one.                                                    *)

OwnWorkIsShown == NoFlows => unseen \subseteq excused
=============================================================================
