--------------------------- MODULE SMBusBandwidth ---------------------------
(***************************************************************************)
(* The bandwidth reservation of mctpd's SMBus binding (SMBusBinding.cpp):  *)
(* while a reservation is active the I2C mux stays connected and the pull  *)
(* model of the device is on, so that the device can send requests to the  *)
(* BMC.  One timer ends the reservation, at its timeout or when            *)
(* releaseBandwidth cancels it.  Both queue the same handler, which cannot *)
(* tell that a reservation was renewed before it ran except by ret.        *)
(*                                                                         *)
(* D-Bus calls, expirations and queued handlers interleave; handlers run   *)
(* in the order in which they were queued.                                 *)
(***************************************************************************)
EXTENDS Integers, Sequences

CONSTANTS
    Eids,          \* endpoints behind a port of the mux
    None,
    MaxReserves    \* bound on the number of granted reservations

ASSUME BandwidthAssumption == None \notin Eids

VARIABLES
    rsvBWActive,
    reservedEID,
    ret,               \* handlers the last expires_after cancelled
    armed,             \* endpoint of the pending async_wait, or None
    ready,             \* endpoints of the handlers queued to run
    muxConnected,      \* idle mode of the mux is "connect"
    pullModel,         \* endpoints whose pull model is on
    smbusDeviceTable,  \* endpoints that have an entry there
    owner,             \* endpoint whose client may count on the mux, or None
    raced,             \* a reservation was granted with a handler queued
    exitFailed,        \* mctp_smbus_exit_pull_model has failed
    reserves           \* reservations granted

vars == <<rsvBWActive, reservedEID, ret, armed, ready, muxConnected,
          pullModel, smbusDeviceTable, owner, raced, exitFailed, reserves>>

TypeOK ==
    /\ rsvBWActive \in BOOLEAN
    /\ reservedEID \in Eids \cup {None}
    /\ ret \in 0 .. 1
    /\ armed \in Eids \cup {None}
    /\ ready \in Seq(Eids)
    /\ muxConnected \in BOOLEAN
    /\ pullModel \in SUBSET Eids
    /\ smbusDeviceTable \in SUBSET Eids
    /\ owner \in Eids \cup {None}
    /\ raced \in BOOLEAN
    /\ exitFailed \in BOOLEAN
    /\ reserves \in Nat

Init ==
    /\ rsvBWActive = FALSE
    /\ reservedEID = None
    /\ ret = 0
    /\ armed = None
    /\ ready = <<>>
    /\ muxConnected = FALSE
    /\ pullModel = {}
    /\ smbusDeviceTable = {}
    /\ owner = None
    /\ raced = FALSE
    /\ exitFailed = FALSE
    /\ reserves = 0

\* Cancelling the pending wait queues its handler.
Cancelled == IF armed = None THEN ready ELSE Append(ready, armed)

\* Broken variant: does not note that a wait was cancelled.
StartTimerUnnoted(e) ==
    /\ UNCHANGED ret
    /\ ready' = Cancelled
    /\ armed' = e

(***************************************************************************)
(* startTimerAndReleaseBW: expires_after cancels the pending wait, if any, *)
(* and returns how many it cancelled.                                      *)
(***************************************************************************)
StartTimer(e) ==
    /\ ret' = IF armed = None THEN 0 ELSE 1
    /\ ready' = Cancelled
    /\ armed' = e

(***************************************************************************)
(* reserveBandwidth, when it grants the reservation.  It refuses another   *)
(* endpoint while one is active, an endpoint without an entry in the       *)
(* device table, and one whose pull model cannot be turned on; then        *)
(* nothing changes.                                                        *)
(***************************************************************************)
Reserve(e) ==
    /\ reserves < MaxReserves
    /\ rsvBWActive => e = reservedEID
    /\ e \in smbusDeviceTable
    /\ rsvBWActive' = TRUE
    /\ reservedEID' = e
    /\ muxConnected' = (~ rsvBWActive \/ muxConnected)
    /\ pullModel' = IF rsvBWActive THEN pullModel ELSE pullModel \cup {e}
    /\ StartTimer(e)
    /\ owner' = e
    /\ raced' = (raced \/ ready # <<>>)
    /\ reserves' = reserves + 1
    /\ UNCHANGED <<smbusDeviceTable, exitFailed>>

\* releaseBandwidth, when it does not refuse: it only cancels the timer.
Release(e) ==
    /\ rsvBWActive
    /\ e = reservedEID
    /\ ready' = Cancelled
    /\ armed' = None
    /\ owner' = None
    /\ UNCHANGED <<rsvBWActive, reservedEID, ret, muxConnected, pullModel,
                   smbusDeviceTable, raced, exitFailed, reserves>>

\* The timeout of the reservation passes.
Expire ==
    /\ armed # None
    /\ ready' = Append(ready, armed)
    /\ armed' = None
    /\ owner' = None
    /\ UNCHANGED <<rsvBWActive, reservedEID, ret, muxConnected, pullModel,
                   smbusDeviceTable, raced, exitFailed, reserves>>

\* Broken variant: ret is not reset.
HandlerIgnoredAgain ==
    /\ ready # <<>>
    /\ ret # 0
    /\ ready' = Tail(ready)
    /\ UNCHANGED <<rsvBWActive, reservedEID, ret, armed, muxConnected,
                   pullModel, smbusDeviceTable, owner, raced, exitFailed,
                   reserves>>

(***************************************************************************)
(* The handler that startTimerAndReleaseBW installs.  It does not tell     *)
(* cancellation from expiration.                                           *)
(***************************************************************************)
HandlerIgnored ==
    /\ ready # <<>>
    /\ ret # 0
    /\ ret' = 0
    /\ ready' = Tail(ready)
    /\ UNCHANGED <<rsvBWActive, reservedEID, armed, muxConnected, pullModel,
                   smbusDeviceTable, owner, raced, exitFailed, reserves>>

\* Broken variant: the mux is not set back to disconnect when idle.
HandlerKeepsMux ==
    /\ ready # <<>>
    /\ ret = 0
    /\ ready' = Tail(ready)
    /\ pullModel' = pullModel \ {Head(ready)}
    /\ rsvBWActive' = FALSE
    /\ reservedEID' = None
    /\ UNCHANGED <<ret, armed, muxConnected, smbusDeviceTable, owner, raced,
                   exitFailed, reserves>>

HandlerReleases ==
    /\ ready # <<>>
    /\ ret = 0
    /\ ready' = Tail(ready)
    /\ muxConnected' = FALSE
    /\ pullModel' = pullModel \ {Head(ready)}
    /\ rsvBWActive' = FALSE
    /\ reservedEID' = None
    /\ UNCHANGED <<ret, armed, smbusDeviceTable, owner, raced, exitFailed,
                   reserves>>

HandlerFails ==
    /\ ready # <<>>
    /\ ret = 0
    /\ ready' = Tail(ready)
    /\ muxConnected' = FALSE
    /\ exitFailed' = TRUE
    /\ UNCHANGED <<rsvBWActive, reservedEID, ret, armed, pullModel,
                   smbusDeviceTable, owner, raced, reserves>>

(***************************************************************************)
(* The device scan enters or removes an endpoint.  A scan does not begin   *)
(* while a reservation is active, but one that has begun goes on.          *)
(***************************************************************************)
UpdateDeviceTable(e) ==
    /\ smbusDeviceTable' = IF e \in smbusDeviceTable
                           THEN smbusDeviceTable \ {e}
                           ELSE smbusDeviceTable \cup {e}
    /\ UNCHANGED <<rsvBWActive, reservedEID, ret, armed, ready, muxConnected,
                   pullModel, owner, raced, exitFailed, reserves>>

RunHandler == HandlerIgnored \/ HandlerReleases \/ HandlerFails

Next ==
    \/ \E e \in Eids : Reserve(e) \/ Release(e) \/ UpdateDeviceTable(e)
    \/ Expire
    \/ RunHandler

Spec == Init /\ [][Next]_vars
-----------------------------------------------------------------------------
(***************************************************************************)
(* A reservation that is active always has a timer running or a handler    *)
(* queued that will look at it; otherwise the bus would stay reserved and  *)
(* every other endpoint be refused until a client asks again.  The one     *)
(* exception is a pull model that could not be turned off.                 *)
(***************************************************************************)
ReservationWillEnd ==
    rsvBWActive => armed # None \/ ready # <<>> \/ exitFailed

(***************************************************************************)
(* Renewals are never mistaken in the other direction: when the last       *)
(* queued handler runs with no timer running it is never taken for the     *)
(* handler of a wait that was renewed.                                     *)
(***************************************************************************)
LastHandlerReleases == armed = None /\ Len(ready) = 1 => ret = 0

(***************************************************************************)
(* Nothing of a reservation outlives it: without one the mux is not kept   *)
(* connected, and no pull model is on unless a renewal met a handler that  *)
(* was already queued.                                                     *)
(***************************************************************************)
NothingLeftBehind ==
    ~ rsvBWActive =>
        /\ ~ muxConnected
        /\ reservedEID = None
        /\ pullModel = {} \/ raced \/ exitFailed

(***************************************************************************)
(* A client whose reservation was granted and has neither been released    *)
(* nor reached its timeout has the mux (mctpd/README.md:46-50); the code   *)
(* keeps this for reservations that were granted when no handler was       *)
(* queued.                                                                 *)
(***************************************************************************)
ReservationHeld ==
    owner # None => rsvBWActive /\ reservedEID = owner /\ muxConnected

HeldUnlessRaced == raced \/ exitFailed \/ ReservationHeld
=============================================================================
