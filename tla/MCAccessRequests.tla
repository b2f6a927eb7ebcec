-------------------------- MODULE MCAccessRequests --------------------------
(***************************************************************************)
(* Small instances of AccessRequests for TLC.                              *)
(***************************************************************************)
EXTENDS AccessRequests, TLC

CONSTANTS s1, s2

\* A policy a parent puts: the browser profile exists and s1 is open until 2.
WithTemporary == [EmptyPolicy EXCEPT !.profile = TRUE, !.temporary[s1] = 2]

MCPutPolicies == {EmptyPolicy, WithTemporary}

Symmetry == Permutations(Handlers) \cup Permutations(Ids) \cup Permutations(Devices)
=============================================================================
