----------------------------- MODULE MCOutbox -----------------------------
(* A small instance of Outbox for TLC. *)
EXTENDS Outbox

CONSTANTS i1, i2

TwoInstances == {i1, i2}
TwoMails == {1, 2}
===========================================================================
