---------------------------- MODULE PldmTerminus ----------------------------
(***************************************************************************)
(* How pldmd gives termini their TIDs and follows them as they come and    *)
(* go (pldmd.cpp: initDevice, deleteDevice, onDeviceUpdate, TIDMapper;     *)
(* base.cpp: baseInit, TIDPool, the reclaim window; platform.cpp:          *)
(* initTerminus, deleteTerminus).                                          *)
(*                                                                         *)
(* Each added endpoint is initialised by a coroutine of its own, which     *)
(* asks for the supported types, versions and commands and the TID, then   *)
(* for the UUID, then sets the TID, and then initialises platform          *)
(* monitoring; it waits for each answer.  The endpoints found at the start *)
(* are initialised one after the other.  The TID of a terminus that has a  *)
(* UUID is kept for it until its reclaim window ends.                      *)
(*                                                                         *)
(* FRU and firmware update, which come after it, are left out.             *)
(***************************************************************************)
EXTENDS Naturals, Sequences, SequencesExt, FiniteSetsExt

CONSTANTS
    Termini,
    NoUuid,        \* termini that do not support GetTerminusUID
    Eids,
    MaxTid,        \* the pool has the TIDs 1 .. MaxTid
    Coroutines,    \* how many initialisations overlap at most
    Main,          \* the one that initialises what is found at the start
    None,
    MaxChanges,    \* bounds how often termini come and go
    MaxFaults      \* bounds failed commands

ASSUME PldmTerminusAssumption ==
    /\ NoUuid \subseteq Termini
    /\ Main \in Coroutines
    /\ None \notin Termini \cup Eids
    /\ {MaxTid, MaxChanges, MaxFaults} \subseteq Nat

VARIABLES
    eidOf, tidOf,       \* of a terminus: where it is, the TID it has been set
    events,             \* callbacks of mctpwplus to come, for each endpoint
    pool,               \* the TIDs in their order
    used,               \* those flagged as used
    uuidMapping,
    tidReclaimWindowTimers,
    expired,            \* TIDs with a queued handler of the reclaim timer
    tidMap,
    discoveryDataTable, \* of a TID: the command tables of its terminus
    co,                 \* the coroutines
    todo,               \* endpoints that Main has still to initialise
    tidsUnderInitialization, platforms,
    changes, faults,
    unlucky,            \* endpoints whose initialisation has failed
    irregular           \* of Irregularities: what has happened so far

envVars == <<eidOf, tidOf, changes, faults>>

tidVars == <<pool, used, uuidMapping, tidReclaimWindowTimers>>

platformVars == <<tidsUnderInitialization, platforms>>

mapVars == <<tidMap, discoveryDataTable>>

vars == <<envVars, tidVars, platformVars, mapVars, events, expired, co, todo,
          unlucky, irregular>>

Tids == 1 .. MaxTid

Event == {"deviceAdded", "deviceRemoved"}

Coroutine ==
    [pc       : {"idle", "added", "types", "uuid", "setTid", "tidSet",
                 "platform"},
     eid      : Eids \cup {None},
     assigned : 0 .. MaxTid,            \* the answer to GetTID
     tables   : SUBSET {"base", "platform"},   \* commands that are known
     uuid     : Termini \cup {None},
     tid      : 0 .. MaxTid]

Idle == [pc |-> "idle", eid |-> None, assigned |-> 0, tables |-> {},
         uuid |-> None, tid |-> 0]

(***************************************************************************)
(* What makes the code lose track of a TID or a terminus; the properties   *)
(* name those they do not survive:                                         *)
(*   setTidFailed  a returning terminus does not take its TID, which then  *)
(*                 counts as free and as its own;                          *)
(*   overlap       an endpoint is initialised twice at a time;             *)
(*   race          the reclaim handler was queued when it was cancelled;   *)
(*   removed       an endpoint went before it was registered;              *)
(*   removedLate   ... while its sensors were initialised;                 *)
(*   moved         a terminus shows up elsewhere before it is missed;      *)
(*   noUuid        a terminus without known UUID went; its TID is not kept. *)
(***************************************************************************)
Irregularities ==
    {"setTidFailed", "overlap", "race", "removed", "removedLate", "moved",
     "noUuid"}

TypeOK ==
    /\ eidOf \in [Termini -> Eids \cup {None}]
    /\ tidOf \in [Termini -> 0 .. MaxTid]
    /\ events \in [Eids -> Seq(Event)]
    /\ pool \in Seq(Tids)
    /\ ToSet(pool) = Tids /\ Len(pool) = MaxTid
    /\ used \in SUBSET Tids
    /\ uuidMapping \in [Termini -> 0 .. MaxTid]
    /\ tidReclaimWindowTimers \in SUBSET Tids
    /\ expired \in SUBSET Tids
    /\ tidMap \in [Tids -> Eids \cup {None}]
    /\ discoveryDataTable \in [Tids -> SUBSET {"base", "platform"}]
    /\ co \in [Coroutines -> Coroutine]
    /\ todo \in SUBSET Eids
    /\ tidsUnderInitialization \in SUBSET Tids
    /\ platforms \in SUBSET Tids
    /\ changes \in 0 .. MaxChanges
    /\ faults \in 0 .. MaxFaults
    /\ unlucky \in SUBSET Eids
    /\ irregular \in SUBSET Irregularities

\* Termini may have TIDs from before a restart of pldmd.
Init ==
    /\ eidOf \in [Termini -> Eids \cup {None}]
    /\ \A d, f \in Termini : eidOf[d] = eidOf[f] => d = f \/ eidOf[d] = None
    /\ tidOf \in [Termini -> 0 .. MaxTid]
    /\ \A d \in Termini : eidOf[d] = None => tidOf[d] = 0
    /\ events = [e \in Eids |-> <<>>]
    /\ pool = [t \in Tids |-> t]
    /\ used = {}
    /\ uuidMapping = [d \in Termini |-> 0]
    /\ tidReclaimWindowTimers = {}
    /\ expired = {}
    /\ tidMap = [t \in Tids |-> None]
    /\ discoveryDataTable = [t \in Tids |-> {}]
    /\ co = [i \in Coroutines |-> Idle]
    /\ todo = {eidOf[d] : d \in Termini} \ {None}
    /\ tidsUnderInitialization = {}
    /\ platforms = {}
    /\ changes = 0
    /\ faults = 0
    /\ unlucky = {}
    /\ irregular = {}

Mapped == {tidMap[t] : t \in Tids} \ {None}

Present == {eidOf[d] : d \in Termini} \ {None}
-----------------------------------------------------------------------------
(***************************************************************************)
(* Termini and mctpd.                                                      *)
(***************************************************************************)
Change ==
    /\ changes < MaxChanges
    /\ changes' = changes + 1
    /\ UNCHANGED <<faults, tidVars, platformVars, expired, mapVars, co, todo,
                   irregular>>

\* mctpd adds an endpoint; the terminus may have kept its TID.
Plug(d, e) ==
    /\ eidOf[d] = None
    /\ e \notin Present
    /\ eidOf' = [eidOf EXCEPT ![d] = e]
    /\ tidOf' \in {tidOf, [tidOf EXCEPT ![d] = 0]}
    /\ events' = [events EXCEPT ![e] = Append(@, "deviceAdded")]
    /\ unlucky' = unlucky \ {e}
    /\ Change

Unplug(d) ==
    /\ eidOf[d] # None
    /\ eidOf' = [eidOf EXCEPT ![d] = None]
    /\ events' = [events EXCEPT ![eidOf[d]] = Append(@, "deviceRemoved")]
    /\ Change
    /\ UNCHANGED <<tidOf, unlucky>>

\* The next callback for e; those for other endpoints may come sooner or later.
NextEvent(e, type) ==
    /\ events[e] # <<>>
    /\ Head(events[e]) = type
    /\ events' = [events EXCEPT ![e] = Tail(@)]

\* The terminus at e answers; what mctpd has signalled of e before has come.
Answers(d, e) == eidOf[d] = e /\ events[e] = <<>>

\* A command to an endpoint fails: it is gone, or it costs a fault.
Fails(e) ==
    /\ UNCHANGED <<eidOf, changes>>
    /\ \/ e \notin Present /\ UNCHANGED <<faults, unlucky>>
       \/ /\ e \in Present
          /\ faults < MaxFaults
          /\ faults' = faults + 1
          /\ unlucky' = unlucky \cup {e}
-----------------------------------------------------------------------------
(***************************************************************************)
(* The TID pool.                                                           *)
(***************************************************************************)
\* Where the TIDs are that are not flagged
Free == {k \in DOMAIN pool : pool[k] \notin used}

\* getFreeTID
FirstFree == pool[CHOOSE k \in Free : \A n \in Free : k <= n]

\* Broken variant: the flag stays.
PushFrontKeepingFlag(t) == used' = used

PushFrontUnusedTID(t) == used' = used \ {t}

\* The pool with t at its end; what was behind it moves up.
PutLast(t) ==
    LET n == Len(pool)
        place == CHOOSE k \in 1 .. n : pool[k] = t
    IN  [k \in 1 .. n |-> IF k < place THEN pool[k]
                          ELSE IF k < n THEN pool[k + 1] ELSE t]

PushBackFreedTID(t) ==
    /\ used' = used \ {t}
    /\ pool' = IF t \in used THEN PutLast(t) ELSE pool
-----------------------------------------------------------------------------
(***************************************************************************)
(* baseInit.                                                               *)
(***************************************************************************)
End(i) == co' = [co EXCEPT ![i] = Idle]

Initialising(e) ==
    {i \in Coroutines : co[i].eid = e
                        /\ co[i].pc \in {"added", "types", "uuid", "setTid",
                                         "tidSet"}}

\* The endpoint is asked for its types unless it has a TID.
BaseInit(i, e) ==
    IF e \in Mapped
    THEN End(i) /\ UNCHANGED irregular
    ELSE /\ co' = [co EXCEPT ![i] = [Idle EXCEPT !.pc = "types", !.eid = e]]
         /\ irregular' = IF Initialising(e) \subseteq {i} THEN irregular
                         ELSE irregular \cup {"overlap"}

\* main's loop over the endpoints found at the start.
InitNext ==
    /\ co[Main] = Idle
    /\ \E e \in todo :
          /\ todo' = todo \ {e}
          /\ BaseInit(Main, e)
    /\ UNCHANGED <<envVars, tidVars, platformVars, events, expired, mapVars,
                   unlucky>>

\* onInterfacesAdded starts a coroutine, which asks mctpd for its endpoints.
DeviceAdded(i, e) ==
    /\ NextEvent(e, "deviceAdded")
    /\ i # Main
    /\ co[i] = Idle
    /\ co' = [co EXCEPT ![i] = [Idle EXCEPT !.pc = "added", !.eid = e]]
    /\ UNCHANGED <<envVars, tidVars, platformVars, expired, mapVars, todo,
                   unlucky, irregular>>

\* onDeviceUpdate, deviceAdded.
InitDevice(i) ==
    /\ co[i].pc = "added"
    /\ BaseInit(i, co[i].eid)
    /\ UNCHANGED <<envVars, tidVars, platformVars, events, expired, mapVars,
                   todo, unlucky>>
\* Broken variant: the TID is noted before what there is for it is deleted.
BeginPlatformInitSwapped(t) ==
    /\ tidsUnderInitialization' = tidsUnderInitialization \ {t}
    /\ platforms' = platforms \ {t}

\* initTerminus up to its first command.
BeginPlatformInit(t) ==
    /\ tidsUnderInitialization' = tidsUnderInitialization \cup {t}
    /\ platforms' = platforms \ {t}

(***************************************************************************)
(* The endpoint has a TID: the tables are filled in, and platformInit      *)
(* begins.  If the endpoint has been entered meanwhile, the TID is marked  *)
(* as unused.                                                              *)
(***************************************************************************)
Register(i, c, inUse) ==
    IF c.eid \in Mapped
    THEN /\ used' = inUse \ {c.tid}
         /\ End(i)
         /\ UNCHANGED <<mapVars, uuidMapping, platformVars>>
    ELSE /\ used' = inUse
         /\ tidMap' = [tidMap EXCEPT ![c.tid] = c.eid]
         /\ discoveryDataTable' =
                [discoveryDataTable EXCEPT ![c.tid] = c.tables]
         /\ uuidMapping' = [d \in Termini |->
                               IF d = c.uuid /\ uuidMapping[d] = 0 THEN c.tid
                               ELSE uuidMapping[d]]
         /\ IF "platform" \in c.tables
            THEN /\ co' = [co EXCEPT ![i] = [c EXCEPT !.pc = "platform"]]
                 /\ BeginPlatformInit(c.tid)
            ELSE End(i) /\ UNCHANGED platformVars

\* SetTID is sent if the terminus is known to support it.
SendSetTid(i, c, inUse) ==
    IF "base" \in c.tables
    THEN /\ co' = [co EXCEPT ![i] = [c EXCEPT !.pc = "setTid"]]
         /\ used' = inUse
         /\ UNCHANGED <<mapVars, uuidMapping, platformVars>>
    ELSE Register(i, c, inUse)

PrevTid(c) == IF c.uuid = None THEN 0 ELSE uuidMapping[c.uuid]

\* TIDs that a coroutine is about to give to a terminus.
BeingSet == {co[i].tid : i \in {j \in Coroutines :
                                   co[j].pc \in {"setTid", "tidSet"}}}

Kept == {uuidMapping[d] : d \in Termini} \ {0}

Registered == {t \in Tids : tidMap[t] # None}

\* Broken variant: a returning terminus is not recognised.
NeverUnregistered(t) == FALSE

IsTerminusUnregistered(t) == t \in tidReclaimWindowTimers

DeviceAlreadyRegistered(c) ==
    PrevTid(c) # 0 /\ c.assigned # 0 /\ ~IsTerminusUnregistered(PrevTid(c))

\* Broken variant: the timer runs on.
CancelNoTimer(t) == UNCHANGED tidReclaimWindowTimers

CancelTIDReclaimTimerIfExists(t) ==
    tidReclaimWindowTimers' = tidReclaimWindowTimers \ {t}

(***************************************************************************)
(* A terminus with a known UUID gets its previous TID back, whose reclaim  *)
(* timer is cancelled; any other one gets a free TID.                      *)
(***************************************************************************)
ChooseTid(i, c) ==
    /\ \/ /\ DeviceAlreadyRegistered(c)
          /\ End(i)
          /\ UNCHANGED <<tidVars, mapVars, platformVars, unlucky>>
       \/ /\ PrevTid(c) = 0
          /\ Free = {}
          /\ End(i)
          /\ unlucky' = unlucky \cup {c.eid}
          /\ UNCHANGED <<tidVars, mapVars, platformVars>>
       \/ /\ PrevTid(c) = 0
          /\ Free # {}
          /\ SendSetTid(i, [c EXCEPT !.tid = FirstFree], used \cup {FirstFree})
          /\ UNCHANGED <<pool, tidReclaimWindowTimers, unlucky>>
       \/ /\ PrevTid(c) # 0
          /\ ~DeviceAlreadyRegistered(c)
          /\ CancelTIDReclaimTimerIfExists(PrevTid(c))
          /\ SendSetTid(i, [c EXCEPT !.tid = PrevTid(c)], used)
          /\ UNCHANGED <<pool, unlucky>>
    /\ irregular' = irregular
          \cup {x \in {"race"} : PrevTid(c) \in expired
                                 /\ ~DeviceAlreadyRegistered(c)}
          \cup {x \in {"moved"} : PrevTid(c) \in Registered \cup BeingSet}

\* The types, versions and commands and the TID are known; if the versions or
\* commands of a type cannot be read, the type is skipped.
TypesAnswered(i) ==
    /\ co[i].pc = "types"
    /\ \E d \in Termini, lost \in {{}, {"base"}, {"platform"}} :
          /\ Answers(d, co[i].eid)
          /\ faults + Cardinality(lost) <= MaxFaults
          /\ faults' = faults + Cardinality(lost)
          /\ LET c == [co[i] EXCEPT !.assigned = tidOf[d],
                                    !.tables = {"base", "platform"} \ lost]
             IN  IF "platform" \in c.tables /\ d \notin NoUuid
                 THEN /\ co' = [co EXCEPT ![i] = [c EXCEPT !.pc = "uuid"]]
                      /\ UNCHANGED <<tidVars, mapVars, platformVars, unlucky,
                                     irregular>>
                 ELSE ChooseTid(i, c)
    /\ UNCHANGED <<eidOf, tidOf, changes, events, expired, todo>>

TypesFail(i) ==
    /\ co[i].pc = "types"
    /\ Fails(co[i].eid)
    /\ End(i)
    /\ UNCHANGED <<tidOf, tidVars, platformVars, events, expired, mapVars, todo,
                   irregular>>

UuidAnswered(i) ==
    /\ co[i].pc = "uuid"
    /\ \E d \in Termini \ NoUuid :
          /\ Answers(d, co[i].eid)
          /\ ChooseTid(i, [co[i] EXCEPT !.uuid = d])
    /\ UNCHANGED <<envVars, events, expired, todo>>

\* Without its UUID a terminus is treated like one that has none.
UuidFails(i) ==
    /\ co[i].pc = "uuid"
    /\ UNCHANGED <<eidOf, tidOf, changes, events, expired, todo>>
    /\ \/ co[i].eid \notin Present /\ UNCHANGED faults
       \/ faults < MaxFaults /\ faults' = faults + 1
    /\ ChooseTid(i, co[i])

\* The terminus takes the TID; its answer is on the way.
SetTidArrives(i) ==
    /\ co[i].pc = "setTid"
    /\ \E d \in Termini :
          /\ eidOf[d] = co[i].eid
          /\ tidOf' = [tidOf EXCEPT ![d] = co[i].tid]
    /\ co' = [co EXCEPT ![i].pc = "tidSet"]
    /\ UNCHANGED <<eidOf, changes, faults, tidVars, platformVars, events,
                   expired, mapVars, todo, unlucky, irregular>>

SetTidAnswered(i) ==
    /\ co[i].pc = "tidSet"
    /\ Register(i, co[i], used)
    /\ UNCHANGED <<envVars, pool, tidReclaimWindowTimers, events, expired,
                   todo, unlucky, irregular>>

SetTidFails(i) ==
    /\ co[i].pc \in {"setTid", "tidSet"}
    /\ Fails(co[i].eid)
    /\ PushFrontUnusedTID(co[i].tid)
    /\ irregular' = IF PrevTid(co[i]) = 0 THEN irregular
                    ELSE irregular \cup {"setTidFailed"}
    /\ End(i)
    /\ UNCHANGED <<tidOf, pool, uuidMapping, tidReclaimWindowTimers,
                   platformVars, events, expired, mapVars, todo>>
-----------------------------------------------------------------------------
(***************************************************************************)
(* initTerminus: it has read the PDRs and initialised sensors and          *)
(* effecters, or has failed.                                               *)
(***************************************************************************)
\* Broken variant: the terminus may be gone.
PlatformDoneAnyway(i) ==
    /\ co[i].pc = "platform"
    /\ platforms' = platforms \cup {co[i].tid}
    /\ tidsUnderInitialization' = tidsUnderInitialization \ {co[i].tid}
    /\ End(i)
    /\ UNCHANGED <<envVars, tidVars, events, expired, mapVars, todo, unlucky,
                   irregular>>

PlatformDone(i) ==
    /\ co[i].pc = "platform"
    /\ platforms' = IF co[i].tid \in tidsUnderInitialization
                    THEN platforms \cup {co[i].tid} ELSE platforms
    /\ tidsUnderInitialization' = tidsUnderInitialization \ {co[i].tid}
    /\ End(i)
    /\ UNCHANGED <<envVars, tidVars, events, expired, mapVars, todo, unlucky,
                   irregular>>

PlatformFails(i) ==
    /\ co[i].pc = "platform"
    /\ Fails(co[i].eid)
    /\ tidsUnderInitialization' = tidsUnderInitialization \ {co[i].tid}
    /\ End(i)
    /\ UNCHANGED <<tidOf, tidVars, platforms, events, expired, mapVars, todo,
                   irregular>>
-----------------------------------------------------------------------------
(***************************************************************************)
(* deleteDevice.  deleteDeviceBaseInfo starts the reclaim window if the    *)
(* TID is that of a UUID.                                                  *)
(***************************************************************************)
ReleaseTIDAfterReclaimInterval(t) ==
    tidReclaimWindowTimers' = tidReclaimWindowTimers
        \cup {u \in {t} : \E d \in Termini : uuidMapping[d] = u}

DeletePlatform(t) ==
    IF "platform" \in discoveryDataTable[t]
    THEN /\ tidsUnderInitialization' = tidsUnderInitialization \ {t}
         /\ platforms' = platforms \ {t}
    ELSE UNCHANGED platformVars

DeleteDevice(t) ==
    /\ DeletePlatform(t)
    /\ ReleaseTIDAfterReclaimInterval(t)
    /\ tidMap' = [tidMap EXCEPT ![t] = None]
    /\ discoveryDataTable' = [discoveryDataTable EXCEPT ![t] = {}]

\* onDeviceUpdate, deviceRemoved.
DeviceRemoved(e) ==
    /\ NextEvent(e, "deviceRemoved")
    /\ \/ \E t \in Tids : tidMap[t] = e /\ DeleteDevice(t)
       \/ /\ e \notin Mapped
          /\ UNCHANGED <<platformVars, tidReclaimWindowTimers, mapVars>>
    /\ irregular' = irregular
          \cup {x \in {"removed"} : Initialising(e) # {}}
          \cup {x \in {"removedLate"} : \E i \in Coroutines :
                    co[i].pc = "platform" /\ tidMap[co[i].tid] = e}
          \cup {x \in {"noUuid"} : \E t \in Tids :
                    tidMap[t] = e /\ \A d \in Termini : uuidMapping[d] # t}
    /\ UNCHANGED <<envVars, pool, used, uuidMapping, expired, co, todo,
                   unlucky>>

\* A reclaim timer expires and queues its handler.
ReclaimWindowEnds(t) ==
    /\ t \in tidReclaimWindowTimers \ expired
    /\ expired' = expired \cup {t}
    /\ UNCHANGED <<envVars, tidVars, platformVars, events, mapVars, co, todo,
                   unlucky, irregular>>

\* The handler; cancelling the timer does not stop one that is queued.
ReleaseTid(t) ==
    /\ t \in expired
    /\ expired' = expired \ {t}
    /\ \/ \E d \in Termini :
             /\ uuidMapping[d] = t
             /\ uuidMapping' = [uuidMapping EXCEPT ![d] = 0]
       \/ /\ \A d \in Termini : uuidMapping[d] # t
          /\ UNCHANGED uuidMapping
    /\ PushBackFreedTID(t)
    /\ tidReclaimWindowTimers' = tidReclaimWindowTimers \ {t}
    /\ UNCHANGED <<envVars, platformVars, events, mapVars, co, todo, unlucky,
                   irregular>>

Next ==
    \/ \E d \in Termini, e \in Eids : Plug(d, e)
    \/ \E d \in Termini : Unplug(d)
    \/ InitNext
    \/ \E e \in Eids :
          DeviceRemoved(e) \/ \E i \in Coroutines : DeviceAdded(i, e)
    \/ \E i \in Coroutines :
          \/ InitDevice(i)
          \/ TypesAnswered(i) \/ TypesFail(i)
          \/ UuidAnswered(i) \/ UuidFails(i)
          \/ SetTidArrives(i) \/ SetTidAnswered(i) \/ SetTidFails(i)
          \/ PlatformDone(i) \/ PlatformFails(i)
    \/ \E t \in Tids : ReclaimWindowEnds(t) \/ ReleaseTid(t)

Spec == Init /\ [][Next]_vars
-----------------------------------------------------------------------------
Regular(excuses) == irregular \cap excuses = {}

\* The irregularities after which two termini may have been given one TID.
TidMixUps == {"setTidFailed", "overlap", "race", "moved"}

\* A TID that a terminus has, is about to get or will get again after its reset
\* is flagged as used, so no other terminus is given it (base.cpp:786).
HeldTidsAreUsed ==
    Regular(TidMixUps) => BeingSet \cup Kept \cup Registered \subseteq used

\* No TID is lost to the pool, but for those of termini without a UUID: a used
\* one is somebody's, or its reclaim window is open (base.cpp:69, :842).
UsedTidsReturn ==
    Regular({"noUuid"}) =>
        used \subseteq BeingSet \cup Registered \cup tidReclaimWindowTimers

\* Sensors and effecters are those of registered termini, also when a terminus
\* goes while it is initialised (platform.cpp:324).
PlatformsFollowTids ==
    Regular(TidMixUps) =>
        platforms \cup tidsUnderInitialization \subseteq Registered

\* Nothing that pldmd knows of is left to do.
Quiet ==
    /\ \A e \in Eids : events[e] = <<>>
    /\ todo = {}
    /\ \A i \in Coroutines : co[i] = Idle

\* A terminus is registered, unless its initialisation failed, and one that is
\* gone is not (pldmd.cpp:594, :602).
RegistrationFollowsPresence ==
    Quiet =>
        /\ Regular(TidMixUps) => Present \ unlucky \subseteq Mapped
        /\ Regular({"removed"}) => Mapped \subseteq Present

\* The sensors of a registered terminus are monitored, unless its
\* initialisation failed (platform.cpp:333).
RegisteredIsMonitored ==
    Quiet /\ Regular(TidMixUps \cup {"removed", "removedLate"}) =>
        \A t \in Registered :
            \/ tidMap[t] \in unlucky
            \/ "platform" \in discoveryDataTable[t] => t \in platforms
=============================================================================
