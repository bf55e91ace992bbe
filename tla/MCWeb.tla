------------------------------- MODULE MCWeb -------------------------------
(* Small instances of the pages for TLC. *)
EXTENDS Pages, TLC

CONSTANTS t1, t2

\* The tabs of a browser, or the flows of a page.
Two == {t1, t2}

Searches == {{1}, {}}

\* An owner with a User and an Administrator or with two Users; an Administrator
\* with an owner, and with an invitation that somebody may accept.
Case(me, first, second, open) ==
  [standing |-> "me" :> me @@ "first" :> first @@ "second" :> second,
   invited |-> open]
Openings ==
  {Case("owner", "user", "administrator", {}),
   Case("owner", "user", "suspended", {}),
   Case("administrator", "owner", "none", {"invitation"})}

ASSUME PagesConstants

\* Tabs, or flows, are interchangeable.
Symmetry == Permutations(Two)
=============================================================================
