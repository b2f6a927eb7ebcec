--------------------------- MODULE MCPairingAgent ---------------------------
(***************************************************************************)
(* Small instances of PairingAgent for TLC.                                *)
(***************************************************************************)
EXTENDS PairingAgent, TLC

Symmetry == Permutations(Customers) \cup Permutations(Codes) \cup Permutations(Ids)
              \cup Permutations(Calls)
=============================================================================
