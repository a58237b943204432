------------------------ MODULE BusOwnerRegistration ------------------------
(***************************************************************************)
(* How mctpd as the bus owner of an SMBus finds endpoints, gives them EIDs *)
(* and publishes them on D-Bus: scanDevices and initEndpointDiscovery      *)
(* (SMBusBinding.cpp), registerEndpoint and busOwnerRegisterEndpoint       *)
(* (MCTPBinding.cpp), the EID pool (utils/eid_pool.cpp) and the device     *)
(* watcher (utils/device_watcher.cpp).                                     *)
(*                                                                         *)
(* One coroutine scans the bus again and again.  It waits for the answer   *)
(* to each control command; meanwhile devices may be unplugged, plugged in *)
(* (also elsewhere) or reset, and answers may be lost.  The daemon may be  *)
(* restarted at any time, while devices keep their EIDs.                   *)
(*                                                                         *)
(* A slot stands for a bus number and slave address (the binding private   *)
(* data).  Behind a mux the devices of the root bus answer, too: one has   *)
(* its own slot and that with its address behind the mux.  A device with a *)
(* UUID has itself as its UUID.                                            *)
(***************************************************************************)
EXTENDS Integers, Sequences, SequencesExt

CONSTANTS
    Devices,
    NoUuid,       \* the devices that do not support Get Endpoint UUID
    Slots,        \* natural numbers, in the order of the scan
    RootSlots,    \* those on the root bus; the others are behind a mux
    Address,      \* the slave address of a slot
    PlugSlots,    \* where a device can be plugged in
    PoolEids,     \* the configured EID pool
    Threshold,    \* successiveDeviceInitThold, 10 in the code
    None,
    MaxFaults     \* bound on resets, plugs, restarts and lost answers

Null == 0         \* MCTP_EID_NULL

ASSUME RegistrationAssumption ==
    /\ NoUuid \subseteq Devices
    /\ Slots \subseteq Nat
    /\ RootSlots \subseteq Slots
    \* An address of the root bus is scanned behind one mux only.
    /\ \A r \in RootSlots : \A s, t \in Slots \ RootSlots :
          Address[s] = Address[r] /\ Address[t] = Address[r] => s = t
    /\ PlugSlots \in [Devices -> SUBSET Slots]
    /\ PoolEids \subseteq Nat \ {Null} /\ IsFiniteSet(PoolEids)
    /\ Threshold \in Nat \ {0}
    /\ None \notin Devices \cup Slots
    /\ MaxFaults \in Nat

VARIABLES
    at,                   \* slot of a device, or None
    devEid,               \* EID a device holds
    eidPool,              \* the EIDs of the pool in their order there
    assigned,             \* those marked assigned
    uuidTable,
    endpointInterface,    \* EIDs published on D-Bus
    smbusDeviceTable,
    ignoreList,           \* the device watcher's lists of slots
    previousInitList,
    currentInitList,
    successiveInitCount,
    todo,                 \* slots the scan still has to visit
    step,                 \* answer the coroutine waits for
    reg,                  \* its local variables
    rootDeviceMap,        \* root slots that had a device at the start
    addRootDevices,       \* they have not been scanned yet
    faults,
    orphaned              \* a device has held an EID that was not assigned

deviceVars == <<at, devEid>>

tableVars == <<eidPool, assigned, uuidTable, endpointInterface,
               smbusDeviceTable>>

watcherVars == <<ignoreList, previousInitList, currentInitList,
                 successiveInitCount>>

scanVars == <<todo, step, reg>>

rootVars == <<rootDeviceMap, addRootDevices>>

vars == <<deviceVars, tableVars, watcherVars, scanVars, rootVars, faults,
          orphaned>>

Eids == PoolEids \cup {Null}

\* nullUUID is None.
Uuids == (Devices \ NoUuid) \cup {None}

Registration == [slot : Slots \cup {None}, registeredEid : Eids, eid : Eids,
                 reported : Eids, uuid : Uuids]

NoRegistration == [slot |-> None, registeredEid |-> Null, eid |-> Null,
                   reported |-> Null, uuid |-> None]

TypeOK ==
    /\ at \in [Devices -> Slots \cup {None}]
    /\ devEid \in [Devices -> Eids]
    /\ eidPool \in Seq(PoolEids)
    /\ assigned \in SUBSET PoolEids
    /\ uuidTable \in Seq([eid : PoolEids, uuid : Devices \ NoUuid])
    /\ endpointInterface \in SUBSET PoolEids
    /\ smbusDeviceTable \in SUBSET [eid : PoolEids, slot : Slots]
    /\ ignoreList \in SUBSET Slots
    /\ previousInitList \in SUBSET Slots
    /\ currentInitList \in SUBSET Slots
    /\ successiveInitCount \in [Slots -> 0 .. Threshold]
    /\ todo \in SUBSET Slots
    /\ step \in {"idle", "getEid", "getUuid", "setEid", "getMsgType"}
    /\ reg \in Registration
    /\ rootDeviceMap \in SUBSET RootSlots
    /\ addRootDevices \in BOOLEAN
    /\ faults \in 0 .. MaxFaults
    /\ orphaned \in BOOLEAN

\* initializeEidPool: the pool is configured as a set, in ascending order.
InitialPool ==
    {p \in [1 .. Cardinality(PoolEids) -> PoolEids] :
        /\ ToSet(p) = PoolEids
        /\ \A i, j \in DOMAIN p : i < j => p[i] < p[j]}

\* On a bus where both slots are reached they have one address.
Clash(s, t) ==
    s = t \/ (Address[s] = Address[t] /\ {s, t} \cap RootSlots # {})

\* Device d answers in slot s.
Answers(d, s) ==
    /\ at[d] # None
    /\ at[d] = s \/ (Clash(at[d], s) /\ s \notin RootSlots)

DeviceAt(s) == {d \in Devices : Answers(d, s)}

\* scanPort leaves out what was found on the root bus at the start, and an
\* address behind a mux that was in use there.
Skipped(s) == \E r \in rootDeviceMap : Clash(r, s)

Found == {s \in Slots \ RootSlots : DeviceAt(s) # {} /\ ~ Skipped(s)}

FoundOnRoot == {s \in RootSlots : DeviceAt(s) # {}}

\* Devices may be in their slots before the daemon starts; no two answer to
\* one address.
Init ==
    /\ at \in [Devices -> Slots \cup {None}]
    /\ \A d \in Devices : at[d] \in PlugSlots[d] \cup {None}
    /\ \A d, x \in Devices : d # x /\ at[d] # None /\ at[x] # None => ~ Clash(at[d], at[x])
    /\ devEid = [d \in Devices |-> Null]
    /\ eidPool \in InitialPool
    /\ assigned = {}
    /\ uuidTable = <<>>
    /\ endpointInterface = {}
    /\ smbusDeviceTable = {}
    /\ ignoreList = {}
    /\ previousInitList = {}
    /\ currentInitList = {}
    /\ successiveInitCount = [s \in Slots |-> 0]
    /\ todo = {}
    /\ step = "idle"
    /\ reg = NoRegistration
    /\ rootDeviceMap = FoundOnRoot
    /\ addRootDevices = TRUE
    /\ faults = 0
    /\ orphaned = FALSE
-----------------------------------------------------------------------------
\* Broken variant: the EID is not taken out first.
MovedToBackTwice(e) == IF e \in PoolEids THEN Append(eidPool, e) ELSE eidPool

\* The pool with e, which is in it, at its end
PutLast(pool, e) ==
    LET place == CHOOSE i \in DOMAIN pool : pool[i] = e
    IN  Append(RemoveAt(pool, place), e)

(***************************************************************************)
(* EidPool.  updateEidStatus moves the EID to the back of the pool; an EID *)
(* that is not in the pool is ignored.                                     *)
(***************************************************************************)
MovedToBack(e) == IF e \in PoolEids THEN PutLast(eidPool, e) ELSE eidPool

\* Broken variant: does not look whether an EID is assigned.
FreeOrNot == DOMAIN eidPool

\* Where the EIDs are that are not assigned
Free == {i \in DOMAIN eidPool : eidPool[i] \notin assigned}

\* getAvailableEidFromPool
FirstFree == eidPool[CHOOSE i \in Free : \A j \in Free : i <= j]

\* The EID an endpoint has in uuidTable: that of its first entry.
MappedEids(u) ==
    {uuidTable[i].eid : i \in {j \in 1 .. Len(uuidTable) :
        /\ uuidTable[j].uuid = u
        /\ \A k \in 1 .. j - 1 : uuidTable[k].uuid # u}}

\* A device holds an EID that the daemon does not hold to be assigned.
NoteOrphans ==
    orphaned' = (orphaned \/ \E d \in Devices :
                    devEid'[d] # Null /\ devEid'[d] \notin assigned')

\* Broken variant: does not look whether the EID has an entry.
SucceedEntered(e) ==
    LET others == {t \in smbusDeviceTable : t.eid # reg.registeredEid}
    IN  /\ smbusDeviceTable' =
              (IF e # reg.registeredEid THEN others ELSE smbusDeviceTable)
              \cup {[eid |-> e, slot |-> reg.slot]}
        /\ step' = "idle"
        /\ reg' = NoRegistration

\* Broken variant: the test for an empty table guards the new entry, too.
SucceedIfAny(e) ==
    /\ smbusDeviceTable' =
          IF smbusDeviceTable = {} THEN {}
          ELSE {t \in smbusDeviceTable : e = reg.registeredEid \/ t.eid # reg.registeredEid}
               \cup (IF \E t \in smbusDeviceTable : t.eid = e
                     THEN {}
                     ELSE {[eid |-> e, slot |-> reg.slot]})
    /\ step' = "idle"
    /\ reg' = NoRegistration

(***************************************************************************)
(* The end of a registration.  Succeed(e) is initEndpointDiscovery's       *)
(* update of the device table when registerEndpoint returns e.  Fail is    *)
(* for nullopt: clearRegisteredDevice drops the first entry of the EID     *)
(* the slot had, then initEndpointDiscovery drops it from the device       *)
(* table.  pool, taken and interfaces are what busOwnerRegisterEndpoint    *)
(* has made of eidPool, assigned and endpointInterface by then.            *)
(***************************************************************************)
Succeed(e) ==
    LET others == {t \in smbusDeviceTable : t.eid # reg.registeredEid}
    IN  /\ smbusDeviceTable' =
              (IF e # reg.registeredEid THEN others ELSE smbusDeviceTable)
              \cup (IF \E t \in smbusDeviceTable : t.eid = e
                    THEN {}
                    ELSE {[eid |-> e, slot |-> reg.slot]})
        /\ step' = "idle"
        /\ reg' = NoRegistration

Fail(pool, taken, interfaces) ==
    LET old == reg.registeredEid
        entries == {i \in 1 .. Len(uuidTable) : uuidTable[i].eid = old}
        first == CHOOSE i \in entries : \A j \in entries : i <= j
    IN  /\ IF entries = {}
           THEN /\ uuidTable' = uuidTable
                /\ endpointInterface' = interfaces
                /\ assigned' = taken
                /\ eidPool' = pool
           ELSE /\ uuidTable' = RemoveAt(uuidTable, first)
                /\ endpointInterface' = interfaces \ {old}
                /\ assigned' = taken \ {old}
                /\ eidPool' = PutLast(pool, old)
        /\ smbusDeviceTable' = {t \in smbusDeviceTable : t.eid # old}
        /\ step' = "idle"
        /\ reg' = NoRegistration
-----------------------------------------------------------------------------
(***************************************************************************)
(* scanDevices, when the scan timer expires: deviceDiscoveryInit, then     *)
(* scanMuxBus finds the slots behind muxes where a device acknowledges.    *)
(* The root bus was scanned when the binding was initialised; what was     *)
(* found there takes part in the first scan that has anything to do.       *)
(***************************************************************************)
StartScan ==
    /\ step = "idle"
    /\ todo = {}
    /\ previousInitList' = currentInitList
    /\ currentInitList' = {}
    /\ successiveInitCount' =
          [s \in Slots |-> IF s \in currentInitList
                           THEN successiveInitCount[s] ELSE 0]
    /\ todo' = Found \cup (IF addRootDevices THEN rootDeviceMap ELSE {})
    /\ addRootDevices' = (addRootDevices /\ todo' = {})
    /\ UNCHANGED <<deviceVars, tableVars, ignoreList, step, reg,
                   rootDeviceMap, faults>>
    /\ NoteOrphans

(***************************************************************************)
(* initEndpointDiscovery goes to its next device; slots in the ignore list *)
(* are skipped.                                                            *)
(***************************************************************************)
NextDevice(s) ==
    /\ step = "idle"
    /\ s \in todo
    /\ \A t \in todo : s <= t
    /\ todo' = todo \ {s}
    /\ \/ /\ s \in ignoreList
          /\ UNCHANGED <<step, reg>>
       \/ /\ s \notin ignoreList
          /\ \E e \in Eids :
                /\ \/ [eid |-> e, slot |-> s] \in smbusDeviceTable
                   \/ /\ e = Null
                      /\ \A t \in smbusDeviceTable : t.slot # s
                /\ reg' = [NoRegistration EXCEPT !.slot = s, 
                              !.registeredEid = e, !.eid = e]
          /\ step' = "getEid"
    /\ UNCHANGED <<deviceVars, tableVars, watcherVars, rootVars, faults>>
    /\ NoteOrphans

(***************************************************************************)
(* The answer to a command does not come: nobody is in the slot, or the    *)
(* request or all its retries are lost.                                    *)
(***************************************************************************)
Unanswered ==
    \/ DeviceAt(reg.slot) = {} /\ UNCHANGED faults
    \/ DeviceAt(reg.slot) # {} /\ faults < MaxFaults /\ faults' = faults + 1

(***************************************************************************)
(* Get MCTP Version Support and Get Endpoint ID, whose failures end the    *)
(* registration alike, and checkEIDMismatchAndGetEID.                      *)
(***************************************************************************)
EidAnswered(d) ==
    /\ step = "getEid"
    /\ d \in DeviceAt(reg.slot)
    /\ LET mismatch == reg.eid # Null /\ devEid[d] \notin {Null, reg.eid}
       IN  \/ /\ mismatch
              /\ Fail(eidPool, assigned, endpointInterface)
           \/ /\ ~ mismatch
              /\ reg' = [reg EXCEPT
                           !.reported = devEid[d],
                           !.eid = IF @ = Null THEN devEid[d] ELSE @]
              /\ step' = "getUuid"
              /\ UNCHANGED tableVars
    /\ UNCHANGED <<deviceVars, watcherVars, todo, rootVars, faults>>
    /\ NoteOrphans

EidUnanswered ==
    /\ step = "getEid"
    /\ Unanswered
    /\ Fail(eidPool, assigned, endpointInterface)
    /\ UNCHANGED <<deviceVars, watcherVars, todo, rootVars>>
    /\ NoteOrphans

(***************************************************************************)
(* checkDeviceInitThreshold: counts the scans in a row that try to give    *)
(* the slot an EID; at the threshold the slot is ignored from then on.     *)
(***************************************************************************)
CountInit(s) ==
    /\ currentInitList' = currentInitList \cup {s}
    /\ successiveInitCount' = [successiveInitCount EXCEPT ![s] =
                                 IF s \in previousInitList THEN @ + 1 ELSE 0]
    /\ ignoreList' = IF successiveInitCount'[s] = Threshold
                     THEN ignoreList \cup {s} ELSE ignoreList
    /\ UNCHANGED previousInitList

(***************************************************************************)
(* What follows Get Endpoint UUID once the endpoint is known not to be     *)
(* registered: the threshold, then an EID from the pool for an endpoint    *)
(* that has none.                                                          *)
(***************************************************************************)
AssignEid(u, interfaces) ==
    /\ CountInit(reg.slot)
    /\ LET blocked == ignoreList' # ignoreList
           needed == reg.eid = Null
       IN  \/ /\ blocked \/ (needed /\ Free = {})
              /\ Fail(eidPool, assigned, interfaces)
           \/ /\ ~ blocked
              /\ needed => Free # {}
              /\ assigned' = IF needed THEN assigned \cup {FirstFree}
                             ELSE assigned
              /\ reg' = [reg EXCEPT !.uuid = u,
                           !.eid = IF needed THEN FirstFree ELSE @]
              /\ endpointInterface' = interfaces
              /\ step' = "setEid"
              /\ UNCHANGED <<eidPool, uuidTable, smbusDeviceTable>>

(***************************************************************************)
(* Get Endpoint UUID answered: isEIDMappedToUUID.  If uuidTable has        *)
(* another EID for the UUID, that EID is unregistered (and becomes the     *)
(* reported EID, which is not used any more).                              *)
(***************************************************************************)
UuidAnswered(d) ==
    /\ step = "getUuid"
    /\ d \in DeviceAt(reg.slot) \ NoUuid
    /\ \/ /\ reg.reported \in MappedEids(d)
          /\ Succeed(reg.reported)
          /\ UNCHANGED <<eidPool, assigned, uuidTable, endpointInterface,
                         watcherVars>>
       \/ /\ reg.reported \notin MappedEids(d)
          /\ AssignEid(d, endpointInterface \ MappedEids(d))
    /\ UNCHANGED <<deviceVars, todo, rootVars, faults>>
    /\ NoteOrphans

\* Get Endpoint UUID fails: the endpoint has nullUUID.
UuidUnanswered ==
    /\ step = "getUuid"
    /\ \/ Unanswered
       \/ DeviceAt(reg.slot) \cap NoUuid # {} /\ UNCHANGED faults
    /\ \/ /\ reg.reported \in endpointInterface
          /\ Succeed(reg.reported)
          /\ UNCHANGED <<eidPool, assigned, uuidTable, endpointInterface,
                         watcherVars>>
       \/ /\ reg.reported \notin endpointInterface
          /\ AssignEid(None, endpointInterface \ {reg.eid})
    /\ UNCHANGED <<deviceVars, todo, rootVars>>
    /\ NoteOrphans

\* Set Endpoint ID succeeds.
SetEidAnswered(d) ==
    /\ step = "setEid"
    /\ d \in DeviceAt(reg.slot)
    /\ devEid' = [devEid EXCEPT ![d] = reg.eid]
    /\ eidPool' = MovedToBack(reg.eid)
    /\ assigned' = assigned \cup ({reg.eid} \cap PoolEids)
    /\ step' = "getMsgType"
    /\ UNCHANGED <<at, uuidTable, endpointInterface, smbusDeviceTable,
                   watcherVars, todo, reg, rootVars, faults>>
    /\ NoteOrphans

(***************************************************************************)
(* Set Endpoint ID fails: refused or lost on the way, or done by the       *)
(* device but the answer is lost.                                          *)
(***************************************************************************)
SetEidUnanswered ==
    /\ step = "setEid"
    /\ Unanswered
    /\ \/ UNCHANGED devEid
       \/ \E d \in DeviceAt(reg.slot) :
             devEid' = [devEid EXCEPT ![d] = reg.eid]
    /\ Fail(MovedToBack(reg.eid), assigned \ {reg.eid}, endpointInterface)
    /\ UNCHANGED <<at, watcherVars, todo, rootVars>>
    /\ NoteOrphans

(***************************************************************************)
(* Get Message Type Support answered: populateEndpointProperties refuses   *)
(* an EID that is registered, otherwise publishes it.                      *)
(***************************************************************************)
MsgTypeAnswered(d) ==
    /\ step = "getMsgType"
    /\ d \in DeviceAt(reg.slot)
    /\ \/ /\ reg.eid \in endpointInterface
          /\ Fail(eidPool, assigned, endpointInterface)
       \/ /\ reg.eid \notin endpointInterface
          /\ endpointInterface' = endpointInterface \cup {reg.eid}
          /\ uuidTable' = IF reg.uuid = None THEN uuidTable
                          ELSE Append(uuidTable, [eid |-> reg.eid,
                                                  uuid |-> reg.uuid])
          /\ Succeed(reg.eid)
          /\ UNCHANGED <<eidPool, assigned>>
    /\ UNCHANGED <<deviceVars, watcherVars, todo, rootVars, faults>>
    /\ NoteOrphans

MsgTypeUnanswered ==
    /\ step = "getMsgType"
    /\ Unanswered
    /\ Fail(eidPool, assigned, endpointInterface)
    /\ UNCHANGED <<deviceVars, watcherVars, todo, rootVars>>
    /\ NoteOrphans

Scan ==
    \/ StartScan
    \/ \E s \in Slots : NextDevice(s)
    \/ \E d \in Devices : \/ EidAnswered(d) \/ UuidAnswered(d)
                          \/ SetEidAnswered(d) \/ MsgTypeAnswered(d)
    \/ EidUnanswered \/ UuidUnanswered \/ SetEidUnanswered
    \/ MsgTypeUnanswered
-----------------------------------------------------------------------------
\* Devices are plugged in without an EID and lose it when they are reset.
Plug(d, s) ==
    /\ at[d] = None
    /\ s \in PlugSlots[d]
    /\ \A x \in Devices : at[x] # None => ~ Clash(at[x], s)
    /\ at' = [at EXCEPT ![d] = s]
    /\ devEid' = [devEid EXCEPT ![d] = Null]

Unplug(d) ==
    /\ at[d] # None
    /\ at' = [at EXCEPT ![d] = None]
    /\ devEid' = [devEid EXCEPT ![d] = Null]

Reset(d) ==
    /\ at[d] # None
    /\ devEid[d] # Null
    /\ devEid' = [devEid EXCEPT ![d] = Null]
    /\ UNCHANGED at

DeviceEvent ==
    /\ faults < MaxFaults
    /\ faults' = faults + 1
    /\ \E d \in Devices :
          (\E s \in Slots : Plug(d, s)) \/ Unplug(d) \/ Reset(d)
    /\ UNCHANGED <<tableVars, watcherVars, scanVars, rootVars>>
    /\ NoteOrphans

\* The daemon is restarted; devices keep the EIDs they hold.
Restart ==
    /\ faults < MaxFaults
    /\ faults' = faults + 1
    /\ eidPool' \in InitialPool
    /\ assigned' = {}
    /\ uuidTable' = <<>>
    /\ endpointInterface' = {}
    /\ smbusDeviceTable' = {}
    /\ ignoreList' = {}
    /\ previousInitList' = {}
    /\ currentInitList' = {}
    /\ successiveInitCount' = [s \in Slots |-> 0]
    /\ todo' = {}
    /\ step' = "idle"
    /\ reg' = NoRegistration
    /\ rootDeviceMap' = FoundOnRoot
    /\ addRootDevices' = TRUE
    /\ UNCHANGED deviceVars
    /\ NoteOrphans

Next == Scan \/ DeviceEvent \/ Restart

Spec == Init /\ [][Next]_vars

\* The scan timer is started again after every scan; commands time out.
FairSpec == Spec /\ WF_vars(Scan)
-----------------------------------------------------------------------------
(***************************************************************************)
(* Giving EIDs out, taking them back and moving them to the end neither    *)
(* loses an EID of the pool nor gets it in twice.                          *)
(***************************************************************************)
PoolKept ==
    /\ ToSet(eidPool) = PoolEids
    /\ IsInjective(eidPool)

(***************************************************************************)
(* The device table, by which every message is routed, names one slot for  *)
(* an EID and one EID for a slot, although entries are kept, moved and     *)
(* dropped by a scan that the devices do not wait for; and no slot that    *)
(* the device watcher ignores.                                             *)
(***************************************************************************)
DeviceTableIsOneToOne ==
    /\ \A t, u \in smbusDeviceTable : t.slot = u.slot \/ t.eid = u.eid => t = u
    /\ \A t \in smbusDeviceTable : t.slot \notin ignoreList

(***************************************************************************)
(* Two devices hold the same EID only if the daemon has freed, or          *)
(* forgotten in a restart, an EID that some device still held: what the    *)
(* pool gives out is not in use.                                           *)
(***************************************************************************)
SharedOnlyAfterOrphan ==
    \A d, x \in Devices :
        d # x /\ devEid[d] # Null /\ devEid[d] = devEid[x] => orphaned

Routed(d) == [eid |-> devEid[d], slot |-> at[d]] \in smbusDeviceTable

HasRival(d) == devEid[d] # Null /\ \E x \in Devices \ {d} : devEid[d] = devEid[x]

TakenForAnother(d) ==
    d \in NoUuid /\ \E t \in smbusDeviceTable : t.eid = devEid[d] /\ t.slot # at[d]

Ignored(d) == at[d] \in ignoreList

\* uuidTable has an older entry for d, or none while the EID of d is published
\* (an answer to Get Endpoint UUID was lost): its registration fails again.
UuidAstray(d) ==
    /\ d \notin NoUuid
    /\ \/ MappedEids(d) \ {devEid[d]} # {}
       \/ devEid[d] \in endpointInterface \ MappedEids(d)

(***************************************************************************)
(* Once devices stay as they are and answers are not lost, every device    *)
(* in a slot behind a mux ends up with a route to it under the EID that it *)
(* holds.  The exceptions: its address was found on the root bus at the    *)
(* start; another one holds the same EID; it has no EID and the pool has   *)
(* run out; it has no UUID and holds the EID of an endpoint that is gone,  *)
(* for which it is then taken; its slot is ignored, after no fewer faults  *)
(* than the threshold, or once uuidTable disagreed with it.                *)
(***************************************************************************)
DevicesAreRouted ==
    \A d \in Devices :
        \/ <>[](\/ at[d] \in RootSlots \cup {None}
                \/ Routed(d)
                \/ Skipped(at[d])
                \/ HasRival(d)
                \/ devEid[d] = Null /\ Free = {}
                \/ TakenForAnother(d)
                \/ Ignored(d) /\ faults >= Threshold)
        \/ <>[]Ignored(d) /\ <>UuidAstray(d)
=============================================================================
