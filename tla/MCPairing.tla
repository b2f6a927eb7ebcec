----------------------------- MODULE MCPairing -----------------------------
(***************************************************************************)
(* Small instances of Pairing for TLC.                                     *)
(***************************************************************************)
EXTENDS Pairing, TLC

Symmetry == Permutations(Customers) \cup Permutations(Devices) \cup Permutations(Codes)
              \cup Permutations(Ids) \cup Permutations(Parents)
=============================================================================
