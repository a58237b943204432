--------------------------- MODULE FirmwareUpdate ---------------------------
(***************************************************************************)
(* The update agent of pldmd (pldmd/src/firmware_update.cpp): the method   *)
(* StartFWUpdate, the coroutine initUpdate that updates the matched        *)
(* termini one after the other (FWUpdate::runUpdate), the requests the     *)
(* firmware devices send meanwhile, and the reservation of the bandwidth   *)
(* that is renewed by a coroutine of its own (pldmd.cpp).                  *)
(*                                                                         *)
(* The coroutine is cut where it waits: for the answer to a command, for a *)
(* request of the device, for a response to be sent, for a D-Bus call.     *)
(* The sensor polling it pauses is shared with the initialisation of       *)
(* termini, of which only that is modelled (see PldmTerminus).             *)
(*                                                                         *)
(* A request is its command and whether it is good: what it asks for is    *)
(* there, what it reports is a success.  The package is one whose          *)
(* properties are all there, and meta data that a device announces are not *)
(* empty.                                                                  *)
(***************************************************************************)
EXTENDS Naturals, Sequences, SequencesExt, FiniteSetsExt

CONSTANTS
    Termini,      \* the TIDs of firmware devices
    NComp,        \* components of the package (TotalCompCount)
    Applicable,   \* of a TID: its components, among 0 .. NComp - 1
    MaxNumReq,    \* findMaxNumReq of a component, and of the other data
    Parts,        \* calcMaxNumReq of the package data and the meta data
    MaxMetaData,  \* deviceMetaDataResponseCount
    RetryCount,
    NoTid,
    Garbage,      \* what expectedCmd may be before it is set
    MaxEvents     \* bounds the runs, and removals and resets of devices

ASSUME FirmwareUpdateAssumption ==
    /\ Termini \subseteq Nat /\ NoTid \notin Termini
    /\ Applicable \in [Termini -> SUBSET (0 .. NComp - 1)]
    /\ {MaxMetaData, MaxEvents} \subseteq Nat
    /\ {NComp, MaxNumReq, Parts, RetryCount} \subseteq Nat \ {0}
    /\ MaxNumReq > 2
    \* any other command is as good as none
    /\ Garbage \subseteq {"none", "GetPackageData", "RequestFirmwareData",
                         "TransferComplete", "VerifyComplete", "ApplyComplete",
                         "GetMetaData"}

VARIABLES
    pldmImg,      \* whether there is a package, so that an update runs
    pc,           \* where initUpdate waits
    queue,        \* matched termini from the one that is updated on
    u,            \* *fwUpdate
    l,            \* local variables of the coroutine
    failed,       \* ~fwUpdateStatus
    chain,        \* the reservation of fwUpdate: the coroutine of
                  \* activateReserveBandwidth, or its timer
    dangling,     \* termini with such a coroutine whose FWUpdate is gone
    reservedTID,  \* pldmd.cpp: NoTid when rsvBWActive is not set
    unreleased,   \* history: the bandwidth was not released (Unreleased)
    astray,       \* history: the run has lost track of its device (Astray)
    dev,          \* the firmware devices
    mapped,       \* tidMapper: whether the TID has an EID
    terminusFwuProperties,
    initializing, \* the terminus that onDeviceUpdate initialises
    setTid,       \* ... has been sent SetTID
    polling,      \* sensor polling is not paused
    activation,   \* the Activation property of the package
    events

coVars == <<pc, queue, u, l, failed, astray>>

bwVars == <<chain, dangling, reservedTID, unreleased>>

terminusVars == <<mapped, terminusFwuProperties, initializing, setTid>>

imgVars == <<pldmImg, activation>>

vars == <<coVars, bwVars, dev, terminusVars, polling, imgVars, events>>

FdStates == {"IDLE", "LEARN_COMPONENTS", "READY_XFER", "DOWNLOAD", "VERIFY",
             "APPLY", "ACTIVATE"}

FdCommands == {"GetPackageData", "RequestFirmwareData", "TransferComplete",
               "VerifyComplete", "ApplyComplete", "GetMetaData"}

Request == [cmd : FdCommands, good : BOOLEAN]

\* fdReq when it never held a request, and after fdReq.clear()
Empty == [cmd |-> "empty", good |-> FALSE]
Cleared == [cmd |-> "cleared", good |-> FALSE]

Comp == 0 .. NComp - 1

FWUpdate ==
    [tid                           : Termini \cup {NoTid},
     updateMode                    : BOOLEAN,
     fdState                       : FdStates,
     expectedCmd                   : FdCommands \cup {"none"},
     fdReqMatched                  : BOOLEAN,
     fdReq                         : Request \cup {Empty, Cleared},
     fdTransferCompleted           : BOOLEAN,
     isReserveBandwidthActive      : BOOLEAN,
     isComponentAvailableForUpdate : BOOLEAN,
     currentComp                   : Comp,
     hasMetaData                   : BOOLEAN]   \* fwDeviceMetaDataLen # 0

NewFWUpdate(t, cmd) ==
    [tid |-> t, updateMode |-> FALSE, fdState |-> "IDLE", expectedCmd |-> cmd,
     fdReqMatched |-> FALSE, fdReq |-> Empty, fdTransferCompleted |-> FALSE,
     isReserveBandwidthActive |-> FALSE,
     isComponentAvailableForUpdate |-> FALSE, currentComp |-> 0,
     hasMetaData |-> FALSE]

Locals == [retVal : {"success", "error"},
           left   : 0 .. Max({MaxNumReq, MaxMetaData + 1, RetryCount}),
           got    : 0 .. Parts,       \* recvdRequests.size()
           some   : BOOLEAN,          \* totalCompsAcceptedByFd > 0
           result : {"good", "bad", "undecodable"}] \* of the request served

NoLocals == [retVal |-> "success", left |-> 0, got |-> 0, some |-> FALSE,
             result |-> "good"]

\* Where the coroutine waits: for an answer to its command, ...
Commands == {"RequestUpdate", "GetDeviceMetaData", "PassComponentTable",
             "UpdateComponent", "CancelUpdateComponent", "ActivateFirmware",
             "CancelUpdate"}
\* ... for a request, or a time, ...
Waits == {"delay", "packageData", "download", "verify", "apply", "metaData",
          "activated"}
\* ... for a response to be sent, ...
Sends == {"sendPackageData", "sendFirmwareData", "sendTransferComplete",
          "sendVerifyComplete", "sendApplyComplete", "sendMetaData"}
\* ... or for D-Bus.
Calls == {"progress", "downloaded", "release", "releaseFailed", "report"}

\* The locals that are in scope where the coroutine waits.
InScope(p, m) ==
    LET transfers == {"packageData", "sendPackageData", "metaData",
                      "sendMetaData"}
        loops == {"RequestUpdate", "GetDeviceMetaData", "download",
                  "sendFirmwareData"} \cup transfers
    IN  [m EXCEPT !.left = IF p \in loops THEN @ ELSE 0,
                  !.got = IF p \in transfers THEN @ ELSE 0,
                  !.some = @ /\ p = "PassComponentTable",
                  !.result = IF p \in Sends THEN @ ELSE "good"]

Device == [st   : FdStates,
           fin  : BOOLEAN,      \* has reported the success of what it does
           applied : BOOLEAN]   \* has sent ApplyComplete in this update

IdleDevice == [st |-> "IDLE", fin |-> FALSE, applied |-> FALSE]

TypeOK ==
    /\ pldmImg \in BOOLEAN
    /\ pc \in Commands \cup Waits \cup Sends \cup Calls \cup {"idle", "crashed"}
    /\ queue \in Seq(Termini)
    /\ u \in FWUpdate
    /\ l \in Locals
    /\ failed \in BOOLEAN
    /\ chain \in {"none", "reserving", "armed", "fired"}
    /\ dangling \in SUBSET Termini
    /\ reservedTID \in Termini \cup {NoTid}
    /\ {unreleased, astray} \subseteq BOOLEAN
    /\ dev \in [Termini -> Device]
    /\ mapped \in [Termini -> BOOLEAN]
    /\ terminusFwuProperties \in SUBSET Termini
    /\ initializing \in Termini \cup {NoTid}
    /\ setTid \in BOOLEAN
    /\ polling \in BOOLEAN
    /\ activation \in {"none", "Active", "Failed"}
    /\ events \in 0 .. MaxEvents

Init ==
    /\ pldmImg = FALSE
    /\ pc = "idle"
    /\ queue = <<>>
    /\ u = NewFWUpdate(NoTid, "none")
    /\ l = NoLocals
    /\ failed = FALSE
    /\ chain = "none"
    /\ dangling = {}
    /\ reservedTID = NoTid
    /\ unreleased = FALSE /\ astray = FALSE
    /\ dev = [t \in Termini |-> IdleDevice]
    /\ mapped = [t \in Termini |-> TRUE]
    /\ terminusFwuProperties = Termini
    /\ initializing = NoTid /\ setTid = FALSE
    /\ polling = TRUE
    /\ activation = "none"
    /\ events = 0

\* Both senders of pldmd.cpp refuse while the bandwidth is another's.
CanSend(t) == mapped[t] /\ reservedTID \in {t, NoTid}
-----------------------------------------------------------------------------
(***************************************************************************)
(* The devices.  A device obeys a command where its state allows it and    *)
(* may refuse it; the command or its answer may be lost, and of the        *)
(* commands that are sent again the first may be the one it obeyed.        *)
(***************************************************************************)
LastApplicable(t) == Max(Applicable[t])

Obeys(t, cmd) ==
    CASE cmd = "RequestUpdate" -> dev[t].st = "IDLE"
      [] cmd = "GetDeviceMetaData" -> dev[t].st = "LEARN_COMPONENTS"
      [] cmd = "PassComponentTable" -> dev[t].st = "LEARN_COMPONENTS"
      [] cmd = "UpdateComponent" -> dev[t].st = "READY_XFER"
      [] cmd = "ActivateFirmware" -> dev[t].st = "READY_XFER"
      [] cmd = "CancelUpdateComponent" ->
             dev[t].st \in {"DOWNLOAD", "VERIFY", "APPLY"}
      [] cmd = "CancelUpdate" -> dev[t].st \notin {"IDLE", "ACTIVATE"}

Obeying(t, cmd) ==
    CASE cmd = "RequestUpdate" -> "LEARN_COMPONENTS"
      [] cmd = "GetDeviceMetaData" -> "LEARN_COMPONENTS"
      [] cmd = "PassComponentTable" -> IF u.currentComp = LastApplicable(t)
                                       THEN "READY_XFER" ELSE dev[t].st
      [] cmd = "UpdateComponent" -> "DOWNLOAD"
      [] cmd = "ActivateFirmware" -> "ACTIVATE"
      [] cmd = "CancelUpdateComponent" -> "READY_XFER"
      [] cmd = "CancelUpdate" -> "IDLE"

Moved(t, cmd) ==
    [dev EXCEPT ![t] = [st |-> Obeying(t, cmd), fin |-> FALSE,
                        applied |-> dev[t].applied /\ cmd # "RequestUpdate"]]

\* sendReceivePldmMessage(cmd) to u.tid, with its answer
Answer(cmd, answer) ==
    LET possible == CanSend(u.tid) /\ Obeys(u.tid, cmd)
    IN  /\ answer = "refused" => CanSend(u.tid)
        /\ \/ possible /\ dev' = Moved(u.tid, cmd)
           \/ answer # "success" /\ dev' = dev

\* What a device asks for or reports, given what it does.
Reports(t) ==
    CASE dev[t].st = "LEARN_COMPONENTS" -> {"GetPackageData"}
      [] dev[t].st = "READY_XFER" -> {"GetMetaData"}
      [] dev[t].st = "DOWNLOAD" ->
             IF dev[t].fin THEN {"TransferComplete"}
             ELSE {"RequestFirmwareData", "TransferComplete"}
      [] dev[t].st = "VERIFY" -> {"VerifyComplete"}
      [] dev[t].st = "APPLY" -> {"ApplyComplete"}
      [] OTHER -> {}

Completions == {"TransferComplete", "VerifyComplete", "ApplyComplete"}

\* validateReqForFWUpdCmd: TransferComplete is looked at before the TID is.
Receive(t, r) ==
    LET ends == /\ u.expectedCmd = "RequestFirmwareData"
                /\ r.cmd = "TransferComplete"
        v == IF ends THEN [u EXCEPT !.expectedCmd = "TransferComplete",
                                    !.fdTransferCompleted = TRUE]
             ELSE u
    IN  u' = IF t = u.tid /\ r.cmd = v.expectedCmd
             THEN [v EXCEPT !.fdReqMatched = TRUE, !.fdReq = r]
             ELSE v

\* A device sends a request, maybe again; pldmMsgRecvFwUpdCallback.
DeviceRequest(t) ==
    /\ pc # "crashed"
    /\ mapped[t]
    /\ \E r \in [cmd : Reports(t), good : BOOLEAN] :
          /\ dev[t].fin => r.good
          /\ dev' = [dev EXCEPT
                       ![t].fin = @ \/ (r.good /\ r.cmd \in Completions),
                       ![t].applied = @ \/ r.cmd = "ApplyComplete"]
          /\ IF pldmImg /\ u.tid # NoTid THEN Receive(t, r) ELSE UNCHANGED u
    /\ UNCHANGED <<pc, queue, l, failed, astray, bwVars, terminusVars, polling,
                   imgVars, events>>

\* The response to its request: sent or not, and if so received or not.
Response(cmd, sent) ==
    LET next == CASE cmd = "TransferComplete" -> "VERIFY"
                  [] cmd = "VerifyComplete" -> "APPLY"
                  [] cmd = "ApplyComplete" -> "READY_XFER"
        t == u.tid
    IN  /\ sent => CanSend(t)
        /\ \/ dev' = dev
           \/ /\ sent /\ dev[t].fin /\ cmd \in Reports(t)
              /\ dev' = [dev EXCEPT ![t].st = next, ![t].fin = FALSE]

\* A device gives up by its own timeout, or is reset.
DeviceReset(t) ==
    /\ pc # "crashed"
    /\ events < MaxEvents
    /\ dev[t].st # "IDLE"
    /\ dev' = [dev EXCEPT ![t] = IdleDevice]
    /\ events' = events + 1
    /\ UNCHANGED <<coVars, bwVars, terminusVars, polling, imgVars>>
-----------------------------------------------------------------------------
(***************************************************************************)
(* Termini come and go.                                                    *)
(***************************************************************************)
\* deleteDevice; deleteMnCTerminus resumes the polling.
DeviceRemoved(t) ==
    /\ pc # "crashed"
    /\ events < MaxEvents
    /\ mapped[t]
    /\ events' = events + 1
    /\ mapped' = [mapped EXCEPT ![t] = FALSE]
    /\ terminusFwuProperties' = terminusFwuProperties \ {t}
    /\ dev' = [dev EXCEPT ![t] = IdleDevice]
    /\ polling' \in {polling, TRUE}
    /\ UNCHANGED <<coVars, bwVars, initializing, setTid, imgVars>>

\* onDeviceUpdate, deviceAdded
DeviceAdded(t) ==
    /\ pc # "crashed"
    /\ ~mapped[t]
    /\ initializing = NoTid
    /\ initializing' = t
    /\ polling' = FALSE
    /\ UNCHANGED <<coVars, bwVars, dev, mapped, terminusFwuProperties,
                   setTid, imgVars, events>>

\* baseInit: its commands are refused whoever has the bandwidth ...
SetTidSent ==
    /\ pc # "crashed"
    /\ initializing # NoTid /\ ~setTid /\ reservedTID = NoTid
    /\ setTid' = TRUE
    /\ UNCHANGED <<coVars, bwVars, dev, mapped, terminusFwuProperties,
                   initializing, polling, imgVars, events>>

\* ... and the answer to SetTID maps the TID.
DeviceMapped ==
    /\ pc # "crashed"
    /\ setTid
    /\ mapped' = [mapped EXCEPT ![initializing] = TRUE]
    /\ setTid' = FALSE
    /\ UNCHANGED <<coVars, bwVars, dev, terminusFwuProperties, initializing,
                   polling, imgVars, events>>

\* initDevice has ended, with fwuInit or before.
DeviceInitialized ==
    /\ pc # "crashed"
    /\ initializing # NoTid
    /\ \/ /\ CanSend(initializing)
          /\ terminusFwuProperties' = terminusFwuProperties \cup {initializing}
       \/ UNCHANGED terminusFwuProperties
    /\ initializing' = NoTid /\ setTid' = FALSE
    /\ polling' = TRUE
    /\ UNCHANGED <<coVars, bwVars, dev, mapped, imgVars, events>>
-----------------------------------------------------------------------------
(***************************************************************************)
(* The reservation of the bandwidth, which renews itself.                  *)
(***************************************************************************)
\* activateReserveBandwidth, as far as its call of mctpd
Activated == IF CanSend(u.tid) THEN "reserving" ELSE "none"

ReserveEnds ==
    /\ pc # "crashed"
    /\ chain = "reserving"
    /\ \/ /\ reservedTID' = u.tid
          /\ u' = [u EXCEPT !.isReserveBandwidthActive = TRUE]
          /\ chain' = "armed"
       \/ /\ chain' = "none"
          /\ UNCHANGED <<reservedTID, u>>
    /\ UNCHANGED <<pc, queue, l, failed, astray, dangling, unreleased, dev,
                   terminusVars, polling, imgVars, events>>

\* The timer expires; a cancel no longer stops its handler.
ReserveTimerExpires ==
    /\ pc # "crashed"
    /\ chain = "armed"
    /\ chain' = "fired"
    /\ UNCHANGED <<coVars, dangling, reservedTID, unreleased, dev,
                   terminusVars, polling, imgVars, events>>

\* getReserveEidTimeOut reads the package, which may be gone.
Reactivate ==
    /\ pc # "crashed"
    /\ chain = "fired"
    /\ chain' = IF pldmImg THEN Activated ELSE "none"
    /\ pc' = IF pldmImg THEN pc ELSE "crashed"
    /\ UNCHANGED <<queue, u, l, failed, astray, dangling, reservedTID, unreleased,
                   dev, terminusVars, polling, imgVars, events>>

\* What the destroyed object had under way uses it: anything may come of it.
DanglingStep(t) ==
    /\ pc # "crashed"
    /\ t \in dangling
    /\ dangling' = dangling \ {t}
    /\ reservedTID' \in {reservedTID, t}
    /\ pc' \in {pc, "crashed"}
    /\ UNCHANGED <<queue, u, l, failed, astray, chain, unreleased, dev, terminusVars,
                   polling, imgVars, events>>

\* Broken variant: the timer is forgotten.
TimerKept(ch) == ch

\* cancelReserveBWTimer
TimerCancelled(ch) == IF ch = "armed" THEN "none" ELSE ch
-----------------------------------------------------------------------------
(***************************************************************************)
(* How the coroutine goes on: v is *fwUpdate, m the locals and ch the      *)
(* reservation at that point.  Each of these sets pc, u, l, queue, failed, *)
(* polling, chain and dangling.                                            *)
(***************************************************************************)
Await(p, v, m, ch) ==
    /\ pc' = p /\ u' = v /\ l' = InScope(p, m) /\ chain' = ch
    /\ UNCHANGED <<queue, failed, polling, dangling>>

\* The expected command is not initialised by the constructor.
NewUpdate(t) == \E cmd \in Garbage : u' = NewFWUpdate(t, cmd)

\* Broken variant: polling is resumed only when the device is gone.
NextTerminusPaused(q, v, ch) ==
    LET present == {k \in DOMAIN q : q[k] \in terminusFwuProperties}
        first == Min(present)
    IN  IF q = <<>>
        THEN /\ pc' = "report" /\ queue' = <<>> /\ u' = v
             /\ UNCHANGED polling
             /\ chain' = ch /\ UNCHANGED dangling
        ELSE /\ chain' = "none"
             /\ dangling' = IF ch \in {"reserving", "fired"}
                            THEN dangling \cup {v.tid} ELSE dangling
             /\ IF present = {}
                THEN /\ pc' = "report" /\ queue' = <<>>
                     /\ NewUpdate(Last(q)) /\ polling' = (polling \/ pldmImg)
                ELSE /\ pc' = "RequestUpdate"
                     /\ queue' = SubSeq(q, first, Len(q))
                     /\ NewUpdate(q[first]) /\ polling' = FALSE

\* The loop of initUpdate from the termini q on; setMatchedFDDescriptors
\* fails for those that are gone.
NextTerminus(q, v, ch) ==
    LET present == {k \in DOMAIN q : q[k] \in terminusFwuProperties}
        first == Min(present)
    IN  IF q = <<>>
        THEN /\ pc' = "report" /\ queue' = <<>> /\ u' = v
             /\ polling' = (polling \/ pldmImg)
             /\ chain' = ch /\ UNCHANGED dangling
        ELSE /\ chain' = "none"
             /\ dangling' = IF ch \in {"reserving", "fired"}
                            THEN dangling \cup {v.tid} ELSE dangling
             /\ IF present = {}
                THEN /\ pc' = "report" /\ queue' = <<>>
                     /\ NewUpdate(Last(q)) /\ polling' = (polling \/ pldmImg)
                ELSE /\ pc' = "RequestUpdate"
                     /\ queue' = SubSeq(q, first, Len(q))
                     /\ NewUpdate(q[first]) /\ polling' = FALSE

\* runUpdate has returned, and terminateFwUpdate has run if it failed.
EndOfRun(v, success, ch) ==
    /\ failed' = (failed \/ ~success)
    /\ l' = NoLocals
    /\ NextTerminus(Tail(queue), v, ch)

\* releaseBandwidth as far as its call of mctpd
Releases(v) == reservedTID = v.tid /\ mapped[v.tid]

\* terminateFwUpdate, after CancelUpdate and from its start
Unreserve(v, m, ch) ==
    LET w == [v EXCEPT !.isReserveBandwidthActive = FALSE]
    IN  IF ~v.isReserveBandwidthActive THEN EndOfRun(v, FALSE, ch)
        ELSE IF Releases(v)
             THEN Await("releaseFailed", w, m, TimerCancelled(ch))
             ELSE EndOfRun(w, FALSE, TimerCancelled(ch))

Terminate(v, m, ch) ==
    IF v.updateMode /\ v.fdState \notin {"IDLE", "ACTIVATE"}
    THEN Await("CancelUpdate", v, m, ch)
    ELSE Unreserve(v, m, ch)

\* The end of runUpdate, once the bandwidth is released.
Finish(v, m, ch) ==
    IF v.isComponentAvailableForUpdate
    THEN IF v.fdState = "READY_XFER" THEN Await("ActivateFirmware", v, m, ch)
         ELSE Terminate(v, m, ch)
    ELSE IF m.retVal = "success" THEN EndOfRun(v, TRUE, ch)
         ELSE Terminate(v, m, ch)

Release(v, m, ch) ==
    LET w == [v EXCEPT !.isReserveBandwidthActive = FALSE]
    IN  IF ~v.isReserveBandwidthActive THEN Finish(v, m, ch)
        ELSE IF Releases(v) THEN Await("release", w, m, TimerCancelled(ch))
             ELSE Finish(w, m, TimerCancelled(ch))

\* After the last component.
SendMetaData(v, m, ch) ==
    IF v.hasMetaData
    THEN Await("metaData", [v EXCEPT !.expectedCmd = "GetMetaData"],
               [m EXCEPT !.left = MaxNumReq, !.got = 0], ch)
    ELSE Release(v, m, ch)

\* The loop over the components from c on: those that do not apply are only
\* reported, and where fdState is not READY_XFER no command is sent.
ToComponent(c, v, m, ch) ==
    LET applies(k) == k \in Applicable[v.tid]
        stops == {k \in c .. NComp - 1 :
                     ~applies(k) \/ v.fdState = "READY_XFER"}
        k == Min(stops)
        skips == IF stops = {} THEN c < NComp ELSE c < k
        n == IF skips THEN [m EXCEPT !.retVal = "error"] ELSE m
    IN  IF stops = {} THEN SendMetaData(v, n, ch)
        ELSE Await(IF applies(k) THEN "UpdateComponent" ELSE "progress",
                   [v EXCEPT !.currentComp = k], n, ch)

NextComponent(v, m, ch) == ToComponent(v.currentComp + 1, v, m, ch)

\* processPassComponentTable from component c on
PassComponents(c, v, m, ch) ==
    LET rest == {k \in Applicable[v.tid] : k >= c}
    IN  IF rest # {}
        THEN Await("PassComponentTable", [v EXCEPT !.currentComp = Min(rest)],
                   m, ch)
        ELSE IF m.some
             THEN ToComponent(0, [v EXCEPT !.fdState = "READY_XFER"],
                              [m EXCEPT !.retVal = "success"], ch)
             ELSE Terminate(v, m, ch)

GetDeviceMetaData(v, m, ch) ==
    IF v.hasMetaData
    THEN Await("GetDeviceMetaData", v, [m EXCEPT !.left = MaxMetaData + 1], ch)
    ELSE PassComponents(0, v, [m EXCEPT !.some = FALSE], ch)
-----------------------------------------------------------------------------
(***************************************************************************)
(* StartFWUpdate and the steps of initUpdate.                              *)
(***************************************************************************)
\* The package has a record for each of q, which are as they match; one that
\* is refused, after or before they were matched, is processed all the same.
StartFWUpdate ==
    /\ ~pldmImg /\ pc = "idle"
    /\ events < MaxEvents
    /\ pldmImg' = TRUE
    /\ \E q \in SeqOf(terminusFwuProperties, MaxEvents - events) :
          /\ events' = events + Max({1, Len(q)})
          /\ NextTerminus(q, u, chain)
    /\ failed' = FALSE /\ activation' = "none"
    /\ l' = NoLocals
    /\ UNCHANGED <<reservedTID, dev, terminusVars>>

Report ==
    /\ pc = "report"
    /\ activation' = IF failed THEN "Failed" ELSE "Active"
    /\ pldmImg' = FALSE
    /\ pc' = "idle"
    /\ UNCHANGED <<queue, u, l, failed, chain, dangling, reservedTID, dev,
                   terminusVars, polling, events>>

\* requestUpdate asks again, at most RetryCount times.
RequestUpdateAnswered ==
    /\ pc = "RequestUpdate"
    /\ \/ /\ Answer("RequestUpdate", "success")
          /\ \E d \in BOOLEAN :
                Await("delay", [u EXCEPT !.updateMode = TRUE,
                                         !.fdState = "LEARN_COMPONENTS",
                                         !.hasMetaData = d], l, chain)
       \/ /\ \E a \in {"refused", "none"} : Answer("RequestUpdate", a)
          /\ Terminate(u, l, chain)
       \/ /\ CanSend(u.tid) /\ l.left < RetryCount - 1     \* RETRY_REQUEST_UPDATE
          /\ Await("RequestUpdate", u, [l EXCEPT !.left = @ + 1], chain)
          /\ UNCHANGED dev

\* After the delay: activateReserveBandwidth and processSendPackageData, if
\* the device has said that it wants the package data, which may be missing.
Delayed ==
    /\ pc = "delay"
    /\ \/ Await("packageData", [u EXCEPT !.expectedCmd = "GetPackageData"],
                [l EXCEPT !.left = MaxNumReq, !.got = 0], Activated)
       \/ Terminate(u, l, Activated)
       \/ GetDeviceMetaData(u, l, Activated)
    /\ UNCHANGED dev

\* Broken variant: the length of ApplyComplete is not checked.
DecodedUnchecked(cmd) ==
    LET r == u.fdReq
    IN  IF r.cmd = cmd THEN {IF r.good THEN "good" ELSE "bad"}
        ELSE IF cmd = "RequestFirmwareData"
             THEN {"undecodable"}
        ELSE IF {cmd, r.cmd} \subseteq {"TransferComplete", "VerifyComplete"}
             THEN {IF r.good THEN "good" ELSE "bad"}
        ELSE {"good", "bad"}

\* What decoding fdReq as the request cmd finds.  The one-byte results of
\* TransferComplete and VerifyComplete have the same success; the length is
\* checked for RequestFirmwareData and ApplyComplete.
Decoded(cmd) ==
    LET r == u.fdReq
    IN  IF r.cmd = cmd THEN {IF r.good THEN "good" ELSE "bad"}
        ELSE IF cmd \in {"RequestFirmwareData", "ApplyComplete"}
             THEN {"undecodable"}
        ELSE IF {cmd, r.cmd} \subseteq {"TransferComplete", "VerifyComplete"}
             THEN {IF r.good THEN "good" ELSE "bad"}
        ELSE {"good", "bad"}

\* The request is served: its response is composed and sent.
Serve(cmd, p, v) ==
    \E d \in Decoded(cmd) : Await(p, v, [l EXCEPT !.result = d], chain)

Taken == [u EXCEPT !.fdReqMatched = FALSE]

Served(v) ==
    [v EXCEPT !.fdReq = IF @ = Empty THEN Empty ELSE Cleared]

\* Waiting ends when the timer expires or a request that is expected cancels
\* it; fdReqMatched tells which, unless a request was there before.
PackageDataAwaited ==
    /\ pc = "packageData"
    /\ IF u.fdReqMatched THEN Serve("GetPackageData", "sendPackageData", u)
       ELSE GetDeviceMetaData([u EXCEPT !.expectedCmd = "none"],
                              [l EXCEPT !.retVal = "success"], chain)
    /\ UNCHANGED dev

\* recvdRequests grows unless the part was asked for before.
PackageDataSent ==
    /\ pc = "sendPackageData"
    /\ UNCHANGED dev
    /\ LET v == [Served(u) EXCEPT !.fdReqMatched = FALSE]
           done == [v EXCEPT !.expectedCmd = "none"]
       IN  \/ /\ l.result = "good" /\ CanSend(u.tid)
              /\ \E new \in {0, 1} :
                    LET m == [l EXCEPT !.got = @ + new, !.left = @ - 1,
                                       !.retVal = "success"]
                    IN  IF m.got = Parts \/ m.left = 0
                        THEN GetDeviceMetaData(done, m, chain)
                        ELSE Await("packageData",
                                   [v EXCEPT !.expectedCmd = "GetPackageData"],
                                   m, chain)
           \/ Terminate([Served(u) EXCEPT !.expectedCmd = "none"], l, chain)

\* The limit is looked at after the answer, the last one too.
DeviceMetaDataAnswered ==
    /\ pc = "GetDeviceMetaData"
    /\ UNCHANGED dev
    /\ \/ /\ CanSend(u.tid) /\ l.left > 1
          /\ \E last \in BOOLEAN :
                IF last THEN PassComponents(0, u, [l EXCEPT !.some = FALSE], chain)
                ELSE Await(pc, u, [l EXCEPT !.left = @ - 1], chain)
       \/ Terminate(u, l, chain)

ComponentPassed ==
    /\ pc = "PassComponentTable"
    /\ \E a \in {"success", "refused", "none"} :
          /\ Answer("PassComponentTable", a)
          /\ PassComponents(u.currentComp + 1, u,
                            [l EXCEPT !.some = @ \/ a = "success"], chain)

\* compUpdateProgress, for a component that is not updated
ProgressReported ==
    /\ pc = "progress"
    /\ NextComponent(u, l, chain)
    /\ UNCHANGED dev

\* The answer tells whether the component can be updated.
UpdateComponentAnswered ==
    /\ pc = "UpdateComponent"
    /\ \/ /\ Answer("UpdateComponent", "success")
          /\ Await("download", [u EXCEPT !.fdState = "DOWNLOAD",
                                         !.expectedCmd = "RequestFirmwareData"],
                   [l EXCEPT !.left = MaxNumReq - 1, !.retVal = "success"],
                   chain)
       \/ /\ CanSend(u.tid) /\ UNCHANGED dev
          /\ Await("progress", u, [l EXCEPT !.retVal = "success"], chain)
       \/ /\ \E a \in {"refused", "none"} : Answer("UpdateComponent", a)
          /\ NextComponent(u, [l EXCEPT !.retVal = "error"], chain)

\* processRequestFirmwareData returns the result of its last request, also
\* when it has waited in vain or TransferComplete has arrived.
Downloaded(v) ==
    Await(IF l.retVal = "success" THEN "downloaded" ELSE "CancelUpdateComponent",
          v, l, chain)

DownloadAwaited ==
    /\ pc = "download"
    /\ IF ~u.fdReqMatched THEN Downloaded(u)
       ELSE IF u.fdTransferCompleted
            THEN Downloaded([Taken EXCEPT !.fdTransferCompleted = FALSE])
            ELSE Serve("RequestFirmwareData", "sendFirmwareData", Taken)
    /\ UNCHANGED dev

\* Broken variant: a request that fails is not counted.
FirmwareDataSentUncounted ==
    /\ pc = "sendFirmwareData"
    /\ UNCHANGED dev
    /\ \E sent \in BOOLEAN :
          LET served == sent /\ l.result = "good"
              m == [l EXCEPT !.left = IF served THEN @ - 1 ELSE @,
                             !.retVal = IF served THEN "success" ELSE "error"]
          IN  /\ sent => CanSend(u.tid)
              /\ IF m.left = 0
                 THEN Await("CancelUpdateComponent",
                            IF served THEN Served(u) ELSE u,
                            [m EXCEPT !.retVal = "error"], chain)
                 ELSE Await("download", IF served THEN Served(u) ELSE u, m, chain)

FirmwareDataSent ==
    /\ pc = "sendFirmwareData"
    /\ UNCHANGED dev
    /\ \E sent \in BOOLEAN :
          LET served == sent /\ l.result = "good"
              m == [l EXCEPT !.left = @ - 1,
                             !.retVal = IF served THEN "success" ELSE "error"]
          IN  /\ sent => CanSend(u.tid)
              /\ IF m.left = 0
                 THEN Await("CancelUpdateComponent",
                            IF served THEN Served(u) ELSE u,
                            [m EXCEPT !.retVal = "error"], chain)
                 ELSE Await("download", IF served THEN Served(u) ELSE u, m, chain)

\* compUpdateProgress, then processTransferComplete, which reads through a
\* null pointer when there never was a request.
TransferCompleteProcessed ==
    /\ pc = "downloaded"
    /\ IF u.fdReq = Empty
       THEN /\ pc' = "crashed"
            /\ UNCHANGED <<queue, u, l, failed, polling, chain, dangling>>
       ELSE Serve("TransferComplete", "sendTransferComplete", u)
    /\ UNCHANGED dev

\* Broken variant: the result that is reported does not matter.
CompletionSentAnyway(p, cmd, st, next, nextPc) ==
    /\ pc = p
    /\ \/ /\ Response(cmd, TRUE)
          /\ Await(nextPc, [u EXCEPT !.fdState = st, !.expectedCmd = next],
                   l, chain)
       \/ /\ dev' = dev
          /\ Await("CancelUpdateComponent", u, [l EXCEPT !.retVal = "error"],
                   chain)

\* A success that is answered takes the component on; else it is cancelled.
CompletionSent(p, cmd, st, next, nextPc) ==
    /\ pc = p
    /\ \/ /\ l.result = "good" /\ Response(cmd, TRUE)
          /\ Await(nextPc, [u EXCEPT !.fdState = st, !.expectedCmd = next],
                   l, chain)
       \/ /\ dev' = dev
          /\ Await("CancelUpdateComponent", u, [l EXCEPT !.retVal = "error"],
                   chain)

TransferCompleteSent ==
    CompletionSent("sendTransferComplete", "TransferComplete", "VERIFY",
                   "VerifyComplete", "verify")

\* No CancelUpdateComponent if the device does not answer in time.
VerifyAwaited ==
    /\ pc = "verify"
    /\ IF u.fdReqMatched
       THEN Serve("VerifyComplete", "sendVerifyComplete", Taken)
       ELSE NextComponent(u, l, chain)
    /\ UNCHANGED dev

VerifyCompleteSent ==
    CompletionSent("sendVerifyComplete", "VerifyComplete", "APPLY",
                   "ApplyComplete", "apply")

ApplyAwaited ==
    /\ pc = "apply"
    /\ IF u.fdReqMatched
       THEN Serve("ApplyComplete", "sendApplyComplete", Taken)
       ELSE NextComponent(u, l, chain)
    /\ UNCHANGED dev

\* applyComplete succeeds whatever the device reports; only the response
\* tells the difference.
ApplyCompleteSent ==
    /\ pc = "sendApplyComplete"
    /\ \/ /\ l.result # "undecodable"
          /\ IF l.result = "good" THEN Response("ApplyComplete", TRUE)
             ELSE CanSend(u.tid) /\ dev' = dev
          /\ NextComponent([u EXCEPT !.isComponentAvailableForUpdate = TRUE,
                                     !.fdState = "READY_XFER"], l, chain)
       \/ /\ dev' = dev
          /\ NextComponent(u, [l EXCEPT !.retVal = "error"], chain)

\* decode_cc_only_resp succeeds, so that a refusal counts as a success.
ComponentCancelled ==
    /\ pc = "CancelUpdateComponent"
    /\ \E a \in {"success", "refused", "none"} :
          /\ Answer("CancelUpdateComponent", a)
          /\ NextComponent(IF a = "none" THEN u
                           ELSE [u EXCEPT !.fdState = "READY_XFER"], l, chain)

MetaDataAwaited ==
    /\ pc = "metaData"
    /\ IF u.fdReqMatched THEN Serve("GetMetaData", "sendMetaData", u)
       ELSE Terminate([Served(u) EXCEPT !.expectedCmd = "none"],
                      [l EXCEPT !.retVal = "error"], chain)
    /\ UNCHANGED dev

MetaDataSent ==
    /\ pc = "sendMetaData"
    /\ UNCHANGED dev
    /\ LET v == [Served(u) EXCEPT !.fdReqMatched = FALSE]
           done == [v EXCEPT !.expectedCmd = "none"]
       IN  \/ /\ l.result = "good" /\ CanSend(u.tid)
              /\ \E new \in {0, 1} :
                    LET m == [l EXCEPT !.got = @ + new, !.left = @ - 1,
                                       !.retVal = "success"]
                    IN  IF m.got = Parts \/ m.left = 0
                        THEN Release(done, m, chain)
                        ELSE Await("metaData",
                                   [v EXCEPT !.expectedCmd = "GetMetaData"],
                                   m, chain)
           \/ Terminate([Served(u) EXCEPT !.expectedCmd = "none"],
                        [l EXCEPT !.retVal = "error"], chain)

\* releaseBandwidth: reservedTID is cleared if mctpd agrees.
BandwidthReleased ==
    /\ pc \in {"release", "releaseFailed"}
    /\ reservedTID' \in {reservedTID, NoTid}
    /\ IF pc = "release" THEN Finish(u, l, chain) ELSE EndOfRun(u, FALSE, chain)
    /\ UNCHANGED dev

FirmwareActivated ==
    /\ pc = "ActivateFirmware"
    /\ \/ /\ Answer("ActivateFirmware", "success")
          /\ Await("activated", [u EXCEPT !.fdState = "ACTIVATE"], l, chain)
       \/ /\ \E a \in {"refused", "none"} : Answer("ActivateFirmware", a)
          /\ Terminate(u, l, chain)

\* After a second, triggerDeviceDiscovery.
ActivationAwaited ==
    /\ pc = "activated"
    /\ EndOfRun(u, TRUE, chain)
    /\ UNCHANGED dev

UpdateCancelled ==
    /\ pc = "CancelUpdate"
    /\ \E a \in {"success", "refused", "none"} :
          /\ Answer("CancelUpdate", a)
          /\ Unreserve(IF a = "success" THEN [u EXCEPT !.fdState = "IDLE"] ELSE u,
                       l, chain)
-----------------------------------------------------------------------------
RunStep ==
    \/ RequestUpdateAnswered \/ Delayed
    \/ PackageDataAwaited \/ PackageDataSent
    \/ DeviceMetaDataAnswered \/ ComponentPassed
    \/ ProgressReported \/ UpdateComponentAnswered
    \/ DownloadAwaited \/ FirmwareDataSent
    \/ TransferCompleteProcessed \/ TransferCompleteSent
    \/ VerifyAwaited \/ VerifyCompleteSent
    \/ ApplyAwaited \/ ApplyCompleteSent
    \/ ComponentCancelled
    \/ MetaDataAwaited \/ MetaDataSent
    \/ FirmwareActivated \/ ActivationAwaited
    \/ UpdateCancelled

\* releaseBandwidth fails, at mctpd or because the TID is not mapped, or the
\* reservation is under way when the run releases it.
Unreleased ==
    unreleased' =
        (\/ unreleased
         \/ pc \in {"release", "releaseFailed"} /\ reservedTID' # NoTid
         \/ /\ u.isReserveBandwidthActive /\ ~u'.isReserveBandwidthActive
            /\ ~mapped[u.tid]
         \/ /\ chain \in {"reserving", "fired"}
            /\ pc' \in {"release", "releaseFailed", "ActivateFirmware",
                       "RequestUpdate", "report"})

\* How a run loses track of its device: the device does as the last
\* PassComponentTable or UpdateComponent says and the agent does not know, or
\* the other way round; a refused CancelUpdateComponent and a failed
\* ApplyComplete are taken for successes; a component starts with a request
\* that was there before; the download ends without TransferComplete, or
\* another request is taken for VerifyComplete.
Astray ==
    astray' =
        (/\ pc' \notin {"RequestUpdate", "report"}
         /\ \/ astray
            \/ /\ pc = "PassComponentTable"
               /\ u.currentComp = LastApplicable(u.tid) /\ dev' = dev
            \/ pc = "UpdateComponent" /\ pc' # "download" /\ dev' # dev
            \/ /\ pc = "CancelUpdateComponent" /\ dev' = dev
               /\ u'.fdState = "READY_XFER"
            \/ /\ pc = "sendApplyComplete" /\ l.result = "bad"
               /\ u'.fdState = "READY_XFER"
            \/ /\ pc = "UpdateComponent" /\ pc' = "download"
               /\ u.fdReqMatched \/ u.fdTransferCompleted
            \/ /\ pc = "download" /\ pc' = "downloaded"
               /\ ~u.fdReqMatched \/ u.fdReq.cmd # "TransferComplete"
            \/ /\ pc = "verify" /\ pc' = "sendVerifyComplete"
               /\ u.fdReq.cmd # "VerifyComplete")

InitUpdateStep ==
    \/ /\ \/ RunStep /\ UNCHANGED reservedTID
          \/ BandwidthReleased
       /\ Unreleased
       /\ Astray
       /\ UNCHANGED <<terminusVars, imgVars, events>>
    \/ Report /\ UNCHANGED <<unreleased, astray>>

Next ==
    \/ /\ StartFWUpdate
       /\ UNCHANGED <<unreleased, astray>>
    \/ InitUpdateStep
    \/ ReserveEnds \/ ReserveTimerExpires \/ Reactivate
    \/ SetTidSent \/ DeviceMapped \/ DeviceInitialized
    \/ \E t \in Termini : \/ DeviceRequest(t) \/ DeviceReset(t)
                          \/ DeviceRemoved(t) \/ DeviceAdded(t)
                          \/ DanglingStep(t)

\* Timers expire and calls of D-Bus, which have a timeout, return.
Fairness == WF_vars(InitUpdateStep)

Spec == Init /\ [][Next]_vars /\ Fairness
-----------------------------------------------------------------------------
\* Every update ends and makes room for the next (pldmImg): a device that
\* falls silent, asks for ever or is removed cannot hold it up.  A crash of
\* the daemon ends it too.
UpdateEnds == pldmImg ~> (~pldmImg \/ pc = "crashed")

\* Sensor polling, which the update and the initialisation of termini pause
\* and resume without counting, is not left paused when both are over.
PollingResumes == ~pldmImg /\ initializing = NoTid => polling

\* Where every release reached mctpd and met no reservation under way, only
\* the terminus that is updated has the bandwidth, and between runs nobody
\* has it nor is about to renew it: no other terminus stays locked out
\* (sendReceivePldmMessage refuses them while rsvBWActive).
BandwidthReturned ==
    unreleased \/ pc = "crashed"
    \/ /\ reservedTID \in {NoTid, u.tid}
       /\ pc \in {"idle", "report", "RequestUpdate"} =>
             reservedTID = NoTid /\ chain = "none" /\ dangling = {}

\* The states a device may have where the agent believes it in s: it may be one
\* step behind while its request is still to be answered, or have been
\* cancelled although no answer came.
Behind == [s \in FdStates |->
    CASE s = "IDLE" -> FdStates
      [] s = "LEARN_COMPONENTS" -> {"LEARN_COMPONENTS", "READY_XFER"}
      [] s = "READY_XFER" -> {"READY_XFER", "APPLY", "ACTIVATE"}
      [] s = "DOWNLOAD" -> {"DOWNLOAD", "READY_XFER"}
      [] s = "VERIFY" -> {"DOWNLOAD", "VERIFY", "READY_XFER"}
      [] s = "APPLY" -> {"VERIFY", "APPLY", "READY_XFER"}
      [] s = "ACTIVATE" -> {"ACTIVATE"}]

\* Unless the run has gone astray in one of the ways that Astray names, or the
\* device was reset, fdState follows the device; where it is ahead the device
\* has reported that it is done.
FdStateIsDevices ==
    LET d == dev[u.tid]
    IN  /\ pc \notin {"idle", "report", "crashed"}
        /\ ~astray
        /\ d.st # "IDLE"
        => /\ d.st \in Behind[u.fdState]
           /\ <<u.fdState, d.st>> \in {<<"VERIFY", "DOWNLOAD">>,
                 <<"APPLY", "VERIFY">>, <<"READY_XFER", "APPLY">>} => d.fin

\* ActivateFirmware is sent only to a device that has sent ApplyComplete in
\* this update: no late or repeated request of another kind, and none of an
\* earlier run, makes a component count as updated.
ActivatedOnlyIfApplied ==
    pc = "ActivateFirmware" => dev[u.tid].st = "IDLE" \/ dev[u.tid].applied
=============================================================================
