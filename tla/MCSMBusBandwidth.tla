-------------------------- MODULE MCSMBusBandwidth --------------------------
(***************************************************************************)
(* SMBusBandwidth for TLC.                                                 *)
(***************************************************************************)
EXTENDS SMBusBandwidth, TLC

Symmetry == Permutations(Eids)
=============================================================================
