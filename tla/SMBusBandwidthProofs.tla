------------------------ MODULE SMBusBandwidthProofs ------------------------
(***************************************************************************)
(* A reservation of the SMBus binding always has somebody to end it, for   *)
(* any number of endpoints and of reservations.  The argument is about     *)
(* ret: it is set only together with the queueing of a cancelled handler,  *)
(* so while it is set a handler is queued to reset it, and the last queued *)
(* handler, when no timer runs, finds it reset.                            *)
(*                                                                         *)
(* As long as no reservation has been granted with a handler queued, ret   *)
(* also counts right (Orderly): the handlers queued are the one cancelled  *)
(* by a renewal, if ret says so, and the one that ends the reservation, if *)
(* its timer no longer runs.  So a handler that releases is the last one.  *)
(***************************************************************************)
EXTENDS SMBusBandwidth, SequenceTheorems, TLAPS

RetHasHandler == ret # 0 => ready # <<>>

Inv == TypeOK /\ RetHasHandler /\ LastHandlerReleases /\ ReservationWillEnd

LEMMA CancelledType ==
    ASSUME TypeOK
    PROVE  /\ Cancelled \in Seq(Eids)
           /\ armed # None => Cancelled # <<>> /\ Len(Cancelled) = Len(ready) + 1
           /\ armed = None => Cancelled = ready
  BY DEF TypeOK, Cancelled

LEMMA ReadyFacts ==
    ASSUME TypeOK
    PROVE  /\ Len(ready) \in Nat
           /\ Len(ready) = 0 <=> ready = <<>>
           /\ ready # <<>> => Tail(ready) \in Seq(Eids)
           /\ ready # <<>> /\ Len(ready) # 1 => Tail(ready) # <<>>
<1>1. ready \in Seq(Eids)
  BY DEF TypeOK
<1>2. Len(ready) \in Nat /\ (Len(ready) = 0 <=> ready = <<>>)
  BY <1>1, EmptySeq, LenProperties
<1>3. ASSUME ready # <<>>
      PROVE  Tail(ready) \in Seq(Eids) /\ Len(Tail(ready)) = Len(ready) - 1
  BY <1>1, <1>3, HeadTailProperties
<1>4. ASSUME ready # <<>>, Len(ready) # 1
      PROVE  Tail(ready) # <<>>
  <2>1. Len(Tail(ready)) # 0
    BY <1>2, <1>3, <1>4
  <2> QED
    BY <1>3, <1>4, <2>1, EmptySeq
<1> QED
  BY <1>2, <1>3, <1>4

LEMMA TypeStep == TypeOK /\ [Next]_vars => TypeOK'
<1> SUFFICES ASSUME TypeOK, [Next]_vars PROVE TypeOK'
  OBVIOUS
<1> USE DEF TypeOK
<1>1. CASE UNCHANGED vars
  BY <1>1 DEF vars
<1>2. ASSUME NEW e \in Eids, Reserve(e) PROVE TypeOK'
  BY <1>2, CancelledType DEF Reserve, StartTimer
<1>3. ASSUME NEW e \in Eids, Release(e) PROVE TypeOK'
  BY <1>3, CancelledType DEF Release
<1>4. ASSUME NEW e \in Eids, UpdateDeviceTable(e) PROVE TypeOK'
  BY <1>4 DEF UpdateDeviceTable
<1>5. CASE Expire
  BY <1>5 DEF Expire
<1>6. CASE HandlerIgnored
  BY <1>6, ReadyFacts DEF HandlerIgnored
<1>7. CASE HandlerReleases
  BY <1>7, ReadyFacts DEF HandlerReleases
<1>8. CASE HandlerFails
  BY <1>8, ReadyFacts DEF HandlerFails
<1> QED
  BY <1>1, <1>2, <1>3, <1>4, <1>5, <1>6, <1>7, <1>8 DEF Next, RunHandler

LEMMA InvStep == Inv /\ [Next]_vars => Inv'
<1> SUFFICES ASSUME Inv, [Next]_vars
             PROVE  RetHasHandler' /\ LastHandlerReleases' /\ ReservationWillEnd'
  BY TypeStep DEF Inv
<1> USE DEF RetHasHandler, LastHandlerReleases, ReservationWillEnd
<1>0. TypeOK /\ RetHasHandler /\ LastHandlerReleases /\ ReservationWillEnd
  BY DEF Inv
<1>9. /\ Len(ready) \in Nat
       /\ Len(ready) = 0 => ready = <<>>
  BY <1>0, ReadyFacts
<1>1. CASE UNCHANGED vars
  BY <1>0, <1>1 DEF vars
<1>2. ASSUME NEW e \in Eids, Reserve(e)
      PROVE  RetHasHandler' /\ LastHandlerReleases' /\ ReservationWillEnd'
  <2>1. armed' # None
    BY <1>2, BandwidthAssumption DEF Reserve, StartTimer
  <2>2. RetHasHandler'
    BY <1>0, <1>2, CancelledType DEF Reserve, StartTimer
  <2> QED
    BY <2>1, <2>2
<1>3. ASSUME NEW e \in Eids, Release(e)
      PROVE  RetHasHandler' /\ LastHandlerReleases' /\ ReservationWillEnd'
  <2>1. CASE armed = None
    BY <1>0, <1>3, <2>1, CancelledType DEF Release
  <2>2. CASE armed # None
    <3>1. ready' # <<>> /\ Len(ready') = Len(ready) + 1 /\ ret' = ret
      BY <1>0, <1>3, <2>2, CancelledType DEF Release
    <3>2. ASSUME Len(ready') = 1
          PROVE  Len(ready) = 0
      <4>1. Len(ready) \in Nat
        BY <1>9
      <4>2. Len(ready) + 1 = 1
        BY <3>1, <3>2
      <4> QED
        BY <4>1, <4>2
    <3> QED
      BY <1>0, <1>9, <3>1, <3>2
  <2> QED
    BY <2>1, <2>2
<1>4. ASSUME NEW e \in Eids, UpdateDeviceTable(e)
      PROVE  RetHasHandler' /\ LastHandlerReleases' /\ ReservationWillEnd'
  BY <1>0, <1>4 DEF UpdateDeviceTable
<1>5. CASE Expire
  <2>1. ready' # <<>> /\ Len(ready') = Len(ready) + 1 /\ ret' = ret
    BY <1>0, <1>5 DEF TypeOK, Expire
  <2>2. Len(ready') = 1 => Len(ready) = 0
    BY <1>9, <2>1
  <2> QED
    BY <1>0, <1>9, <2>1, <2>2
<1>6. CASE HandlerIgnored
  <2>1. ret' = 0
    BY <1>6 DEF HandlerIgnored
  <2>2. ready' = Tail(ready) /\ armed' = armed /\ exitFailed' = exitFailed
    BY <1>6 DEF HandlerIgnored
  <2>3. armed # None \/ Len(ready) # 1
    BY <1>0, <1>6 DEF HandlerIgnored
  <2>4. armed # None \/ ready' # <<>>
    BY <1>0, <1>6, <2>2, <2>3, ReadyFacts DEF HandlerIgnored
  <2> QED
    BY <2>1, <2>2, <2>4
<1>7. CASE HandlerReleases
  BY <1>7 DEF HandlerReleases
<1>8. CASE HandlerFails
  BY <1>8 DEF HandlerFails
<1> QED
  BY <1>1, <1>2, <1>3, <1>4, <1>5, <1>6, <1>7, <1>8 DEF Next, RunHandler

LEMMA InvHolds == Spec => []Inv
<1>1. Init => Inv
  <2> SUFFICES ASSUME Init PROVE Inv
    OBVIOUS
  <2>1. TypeOK
    <3>1. /\ rsvBWActive \in BOOLEAN /\ muxConnected \in BOOLEAN
          /\ raced \in BOOLEAN /\ exitFailed \in BOOLEAN
      BY Zenon DEF Init
    <3>2. /\ reservedEID \in Eids \cup {None} /\ armed \in Eids \cup {None}
          /\ owner \in Eids \cup {None}
          /\ pullModel \in SUBSET Eids /\ smbusDeviceTable \in SUBSET Eids
      BY DEF Init
    <3>3. ret \in 0 .. 1 /\ reserves \in Nat /\ ready \in Seq(Eids)
      BY DEF Init
    <3> QED
      BY <3>1, <3>2, <3>3 DEF TypeOK
  <2>2. RetHasHandler /\ LastHandlerReleases /\ ReservationWillEnd
    BY DEF Init, RetHasHandler, LastHandlerReleases, ReservationWillEnd
  <2> QED
    BY <2>1, <2>2 DEF Inv
<1> QED
  BY <1>1, InvStep, PTL DEF Spec

(***************************************************************************)
(* An active reservation has a timer running or a handler queued, unless   *)
(* the pull model could not be turned off.                                 *)
(***************************************************************************)
THEOREM ReservationsWillEnd == Spec => []ReservationWillEnd
<1>1. Inv => ReservationWillEnd
  BY DEF Inv
<1> QED
  BY <1>1, InvHolds, PTL

(***************************************************************************)
(* The last handler to run is never taken for that of a renewed wait.      *)
(***************************************************************************)
THEOREM LastHandlersRelease == Spec => []LastHandlerReleases
<1>1. Inv => LastHandlerReleases
  BY DEF Inv
<1> QED
  BY <1>1, InvHolds, PTL

-----------------------------------------------------------------------------
(***************************************************************************)
(* What a reservation has while it lasts, and leaves behind.               *)
(***************************************************************************)
NoneKept == ~ rsvBWActive => ~ muxConnected /\ reservedEID = None

Ending == IF armed = None THEN 1 ELSE 0

Orderly ==
    ~ raced /\ ~ exitFailed =>
        /\ rsvBWActive => /\ Len(ready) = ret + Ending
                          /\ muxConnected
                          /\ pullModel = {reservedEID}
        /\ ~ rsvBWActive => armed = None /\ ready = <<>> /\ pullModel = {}
        /\ armed \in {reservedEID, None}
        /\ \A i \in 1 .. Len(ready) : ready[i] = reservedEID
        /\ owner # None => owner = reservedEID /\ armed # None

HeldInv == Inv /\ NoneKept /\ Orderly

\* The handlers queued after those of ready are of endpoint e too.
LEMMA AllOf ==
    ASSUME TypeOK, NEW e \in Eids, \A i \in 1 .. Len(ready) : ready[i] = e
    PROVE  /\ \A i \in 1 .. Len(Append(ready, e)) : Append(ready, e)[i] = e
           /\ ready # <<>> =>
                /\ Head(ready) = e
                /\ Len(Tail(ready)) = Len(ready) - 1
                /\ \A i \in 1 .. Len(Tail(ready)) : Tail(ready)[i] = e
<1>1. ready \in Seq(Eids) /\ Len(ready) \in Nat
  BY ReadyFacts DEF TypeOK
<1>2. \A i \in 1 .. Len(Append(ready, e)) : Append(ready, e)[i] = e
  BY <1>1
<1>3. ASSUME ready # <<>>
      PROVE  /\ Head(ready) = e
             /\ Len(Tail(ready)) = Len(ready) - 1
             /\ \A i \in 1 .. Len(Tail(ready)) : Tail(ready)[i] = e
  BY <1>1, <1>3
<1> QED
  BY <1>2, <1>3

LEMMA NoneKeptStep == TypeOK /\ NoneKept /\ [Next]_vars => NoneKept'
<1> SUFFICES ASSUME TypeOK, NoneKept, [Next]_vars PROVE NoneKept'
  OBVIOUS
<1> USE DEF NoneKept
<1>1. CASE UNCHANGED vars
  BY <1>1 DEF vars
<1>2. ASSUME NEW e \in Eids, Reserve(e) \/ Release(e) \/ UpdateDeviceTable(e)
      PROVE  NoneKept'
  BY <1>2 DEF Reserve, Release, UpdateDeviceTable
<1>3. CASE Expire \/ RunHandler
  BY <1>3 DEF Expire, RunHandler, HandlerIgnored, HandlerReleases, HandlerFails
<1> QED
  BY <1>1, <1>2, <1>3 DEF Next

LEMMA OrderlyStep == HeldInv /\ [Next]_vars => Orderly'
<1> SUFFICES ASSUME HeldInv, [Next]_vars, ~ raced', ~ exitFailed' PROVE Orderly'
  BY DEF Orderly
<1> USE DEF Orderly, Ending
<1>0. /\ TypeOK /\ RetHasHandler /\ NoneKept /\ Orderly
      /\ Len(ready) \in Nat /\ (Len(ready) = 0 <=> ready = <<>>) /\ ret \in 0 .. 1
  BY ReadyFacts DEF HeldInv, Inv, TypeOK
<1>1. CASE UNCHANGED vars
  BY <1>0, <1>1 DEF vars
<1>2. ASSUME NEW e \in Eids, Reserve(e) PROVE Orderly'
  <2>1. /\ ready = <<>> /\ ~ raced /\ ~ exitFailed /\ ret = 0
        /\ rsvBWActive' /\ reservedEID' = e /\ owner' = e /\ armed' = e /\ e # None
        /\ ready' = Cancelled /\ ret' = (IF armed = None THEN 0 ELSE 1)
    BY <1>0, <1>2, BandwidthAssumption DEF Reserve, StartTimer, RetHasHandler
  <2>2. muxConnected' /\ pullModel' = {e}
    <3>1. rsvBWActive => e = reservedEID /\ muxConnected /\ pullModel = {e}
      BY <1>0, <1>2, <2>1 DEF Reserve
    <3>2. ~ rsvBWActive => pullModel = {}
      BY <1>0, <2>1
    <3>3. /\ muxConnected' = (~ rsvBWActive \/ muxConnected)
          /\ pullModel' = IF rsvBWActive THEN pullModel ELSE pullModel \cup {e}
      BY <1>2 DEF Reserve
    <3> QED
      BY <3>1, <3>2, <3>3
  <2>3. Len(ready') = ret' /\ \A i \in 1 .. Len(ready') : ready'[i] = e
    <3>1. CASE armed = None
      BY <1>0, <2>1, <3>1 DEF Cancelled
    <3>2. CASE armed # None
      <4>1. armed = e
        <5>1. rsvBWActive /\ armed = reservedEID
          BY <1>0, <2>1, <3>2
        <5> QED
          BY <1>2, <5>1 DEF Reserve
      <4>2. ready' = <<e>> /\ ret' = 1
        BY <2>1, <3>2, <4>1 DEF Cancelled
      <4> QED
        BY <4>2
    <3> QED
      BY <3>1, <3>2
  <2> QED
    BY <2>1, <2>2, <2>3
<1>3. CASE Expire \/ \E e \in Eids : Release(e)
  <2>1. /\ armed' = None /\ owner' = None /\ ready' = Cancelled
        /\ UNCHANGED <<rsvBWActive, reservedEID, ret, muxConnected, pullModel, raced, exitFailed>>
    BY <1>3 DEF Expire, Release, Cancelled
  <2>2. CASE armed = None
    BY <1>0, <2>1, <2>2 DEF Cancelled
  <2>3. CASE armed # None
    <3>1. rsvBWActive /\ armed = reservedEID /\ armed \in Eids
      BY <1>0, <2>1, <2>3 DEF TypeOK
    <3>2. ready' = Append(ready, reservedEID)
      BY <2>1, <2>3, <3>1 DEF Cancelled
    <3>3. Len(ready') = Len(ready) + 1
      BY <1>0, <3>1, <3>2 DEF TypeOK
    <3>4. \A i \in 1 .. Len(ready') : ready'[i] = reservedEID
      BY <1>0, <2>1, <3>1, <3>2, AllOf
    <3>5. Len(ready) = ret /\ muxConnected /\ pullModel = {reservedEID}
      BY <1>0, <2>1, <2>3, <3>1
    <3> QED
      BY <2>1, <3>1, <3>3, <3>4, <3>5
  <2> QED
    BY <2>2, <2>3
<1>4. ASSUME NEW e \in Eids, UpdateDeviceTable(e) PROVE Orderly'
  BY <1>0, <1>4 DEF UpdateDeviceTable
<1>5. CASE HandlerIgnored
  <2>1. /\ ready # <<>> /\ ret = 1 /\ ret' = 0 /\ ready' = Tail(ready)
        /\ UNCHANGED <<rsvBWActive, reservedEID, armed, muxConnected, pullModel, owner, raced,
                       exitFailed>>
    BY <1>0, <1>5 DEF HandlerIgnored
  <2>2. rsvBWActive /\ reservedEID \in Eids
    <3>1. rsvBWActive
      BY <1>0, <2>1
    <3>2. ready[1] \in Eids /\ ready[1] = reservedEID
      BY <1>0, <2>1, <3>1 DEF TypeOK
    <3> QED
      BY <3>1, <3>2
  <2>3. Len(ready') = Len(ready) - 1 /\ \A i \in 1 .. Len(ready') : ready'[i] = reservedEID
    BY <1>0, <2>1, <2>2, AllOf
  <2> QED
    BY <1>0, <2>1, <2>2, <2>3
<1>6. CASE HandlerReleases
  <2>1. /\ ready # <<>> /\ ret = 0 /\ ready' = Tail(ready) /\ pullModel' = pullModel \ {Head(ready)}
        /\ ~ rsvBWActive' /\ reservedEID' = None
        /\ UNCHANGED <<ret, armed, owner, raced, exitFailed>>
    BY <1>6 DEF HandlerReleases
  <2>2. rsvBWActive /\ armed = None /\ Len(ready) = 1
    BY <1>0, <2>1
  <2>3. Head(ready) = reservedEID /\ ready' = <<>>
    BY <1>0, <2>1, <2>2 DEF TypeOK
  <2>4. pullModel' = {} /\ owner' = None
    BY <1>0, <2>1, <2>2, <2>3
  <2>5. \A i \in 1 .. Len(ready') : ready'[i] = reservedEID'
    BY <2>3
  <2>6. ~ rsvBWActive' /\ armed' = None
    BY <2>1, <2>2
  <2> QED
    BY <2>3, <2>4, <2>5, <2>6
<1>7. CASE HandlerFails
  BY <1>7 DEF HandlerFails
<1> QED
  BY <1>1, <1>2, <1>3, <1>4, <1>5, <1>6, <1>7 DEF Next, RunHandler

LEMMA HeldInvHolds == Spec => []HeldInv
<1>1. Init => NoneKept /\ Orderly
  BY DEF Init, NoneKept, Orderly
<1>2. Inv /\ NoneKept /\ Orderly /\ [Next]_vars => NoneKept' /\ Orderly'
  BY NoneKeptStep, OrderlyStep DEF HeldInv, Inv
<1> QED
  BY <1>1, <1>2, InvHolds, PTL DEF Spec, HeldInv

(***************************************************************************)
(* When a reservation has ended the mux is disconnected, the reservation   *)
(* names no endpoint, and the pull model that it turned on is off again.   *)
(***************************************************************************)
THEOREM NothingIsLeftBehind == Spec => []NothingLeftBehind
<1>1. HeldInv => NothingLeftBehind
  BY DEF HeldInv, NoneKept, Orderly, NothingLeftBehind
<1> QED
  BY <1>1, HeldInvHolds, PTL

(***************************************************************************)
(* A client keeps the mux until it releases its reservation or the         *)
(* timeout passes, unless a reservation was granted with a handler queued. *)
(***************************************************************************)
THEOREM ReservationsAreHeld == Spec => []HeldUnlessRaced
<1>1. HeldInv => HeldUnlessRaced
  <2> SUFFICES ASSUME HeldInv, ~ raced, ~ exitFailed, owner # None
               PROVE  rsvBWActive /\ reservedEID = owner /\ muxConnected
    BY DEF HeldUnlessRaced, ReservationHeld
  <2> QED
    BY DEF HeldInv, Orderly
<1> QED
  BY <1>1, HeldInvHolds, PTL
=============================================================================
