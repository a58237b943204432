-------------------------- MODULE MCFirmwareUpdate --------------------------
EXTENDS FirmwareUpdate

\* The last component is for the first device, the others are for none.
MCApplicable ==
    [t \in Termini |-> IF t = Min(Termini) THEN {NComp - 1} ELSE {}]
=============================================================================
