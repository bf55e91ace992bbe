-------------------------- MODULE MCDirectoryPage --------------------------
(* A small instance of DirectoryPage for TLC. *)
EXTENDS DirectoryPage, TLC

CONSTANTS f1, f2

TwoFlows == {f1, f2}
TwoOrgs == {1, 2}
Searches == {{1, 2}, {1}}
OneView == {"directory"}

\* Flows are interchangeable.
Symmetry == Permutations(TwoFlows)
=============================================================================
