--------------------------- MODULE MCPCIeEndpoint ---------------------------
(***************************************************************************)
(* PCIeEndpoint for TLC.                                                   *)
(***************************************************************************)
EXTENDS PCIeEndpoint, TLC

Symmetry == Permutations(Bdfs) \cup Permutations(Owners) \cup Permutations(Readers)
=============================================================================
