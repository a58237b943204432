------------------------- MODULE MCTransmissionQueue -------------------------
(***************************************************************************)
(* TransmissionQueue for TLC.  The calls are interchangeable; Symmetry is  *)
(* for the runs that check safety only.                                    *)
(***************************************************************************)
EXTENDS TransmissionQueueRefinement, TLC

Symmetry == Permutations(Calls)
=============================================================================
