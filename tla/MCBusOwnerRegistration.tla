----------------------- MODULE MCBusOwnerRegistration -----------------------
(***************************************************************************)
(* BusOwnerRegistration for TLC: two devices that can be plugged in        *)
(* anywhere.                                                               *)
(***************************************************************************)
EXTENDS BusOwnerRegistration

CONSTANTS d1, d2

Anywhere == [d \in Devices |-> Slots]

\* Slots 1, on the root bus, and 2, behind a mux, have the same address.
Addresses == [s \in Slots |-> IF s = 3 THEN 2 ELSE 1]
=============================================================================
