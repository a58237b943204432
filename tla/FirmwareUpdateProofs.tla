------------------------ MODULE FirmwareUpdateProofs ------------------------
(***************************************************************************)
(* The firmware update of pldmd gives back the polling and the bandwidth,  *)
(* activates only what was applied and follows its device, for any         *)
(* devices, components, numbers of requests and tries, and events.         *)
(*                                                                         *)
(* A step of the coroutine ends where it waits again, or with the run of a *)
(* terminus; Onward says where the code between two waits may lead, and    *)
(* what it keeps of *fwUpdate.  The invariants follow from it one by one.  *)
(***************************************************************************)
EXTENDS FirmwareUpdate, SequenceTheorems, WellFoundedInduction, TLAPS

-----------------------------------------------------------------------------
(***************************************************************************)
(* What holds between two steps.                                           *)
(***************************************************************************)
\* Where the coroutine may wait
Busy == Commands \cup Waits \cup Sends \cup (Calls \ {"report"})

Running == pc \in Busy

\* The locals that are counted down or up are within their bounds.
CountsAt(p, m) ==
    /\ p \in {"packageData", "sendPackageData", "download",
              "sendFirmwareData", "metaData", "sendMetaData"} => m.left >= 1
    /\ p \in {"packageData", "sendPackageData", "metaData", "sendMetaData"} =>
          m.got < Parts

Types ==
    /\ TypeOK
    /\ CountsAt(pc, l)
    /\ Running => u.tid \in Termini /\ queue # <<>>
    /\ chain # "none" => u.tid \in Termini

\* The package is there as long as the coroutine runs, and polling is resumed
\* when it ends.
PollingKept ==
    /\ Running \/ pc = "report" => pldmImg
    /\ pc = "idle" => ~pldmImg
    /\ (~pldmImg \/ pc = "report") /\ initializing = NoTid => polling

\* From the answer to RequestUpdate to the first component the state of the
\* device does not change.
Early == {"delay", "packageData", "sendPackageData", "GetDeviceMetaData",
          "PassComponentTable"}

Unreserved == {"idle", "report", "RequestUpdate", "delay", "release",
               "releaseFailed", "ActivateFirmware", "activated"}

\* fdState where the coroutine waits
BelievedAt(p, v) ==
    /\ p = "RequestUpdate" => v.fdState = "IDLE"
    /\ p \in Early => v.fdState = "LEARN_COMPONENTS" /\ v.updateMode
    /\ p \in {"UpdateComponent", "ActivateFirmware"} =>
          v.fdState = "READY_XFER"
    /\ p \in {"download", "sendFirmwareData", "downloaded",
              "sendTransferComplete"} => v.fdState = "DOWNLOAD"
    /\ p \in {"verify", "sendVerifyComplete"} => v.fdState = "VERIFY"
    /\ p \in {"apply", "sendApplyComplete"} => v.fdState = "APPLY"
    /\ p = "CancelUpdateComponent" => v.fdState \in {"DOWNLOAD", "VERIFY"}
    /\ p = "PassComponentTable" => v.currentComp \in Applicable[v.tid]

Believed == BelievedAt(pc, u)

\* While every release has been heard, the update that has reserved the
\* bandwidth is the one that has it, and knows it.
Reserved ==
    /\ reservedTID \in {NoTid, u.tid}
    /\ dangling = {}
    /\ pc \notin {"release", "releaseFailed"} =>
          (u.isReserveBandwidthActive <=> reservedTID # NoTid)
    /\ pc \in Unreserved => ~u.isReserveBandwidthActive /\ chain = "none"
    /\ chain \in {"armed", "fired"} => u.isReserveBandwidthActive

BandwidthKept == unreleased \/ pc = "crashed" \/ Reserved

Applied == dev[u.tid].st = "IDLE" \/ dev[u.tid].applied

Completing == {"downloaded", "sendTransferComplete", "verify",
               "sendVerifyComplete", "apply"}

\* What makes a component count as updated is an ApplyComplete of the device.
OnlyApplied ==
    /\ u.isComponentAvailableForUpdate =>
          u.tid \in Termini /\ pc # "RequestUpdate" /\ Applied
    /\ pc = "ActivateFirmware" => u.isComponentAvailableForUpdate
    /\ /\ pc \in Completing
       /\ u.fdReqMatched /\ u.fdReq.cmd = "ApplyComplete"
       => Applied
    /\ pc = "sendApplyComplete" /\ l.result # "undecodable" => Applied

Follows(s, d) ==
    \/ d.st = "IDLE"
    \/ /\ d.st \in Behind[s]
       /\ <<s, d.st>> \in {<<"VERIFY", "DOWNLOAD">>, <<"APPLY", "VERIFY">>,
                           <<"READY_XFER", "APPLY">>} => d.fin

\* The device is in s and has reported that it is done, or was reset.
Done(s) ==
    \/ dev[u.tid].st = "IDLE"
    \/ dev[u.tid].st = s /\ dev[u.tid].fin

\* The request that the agent has been given is cmd; a good one is true.
Reported(cmd, s) ==
    u.fdReqMatched /\ u.fdReq.cmd = cmd /\ u.fdReq.good => Done(s)

FollowsClosely ==
    /\ Follows(u.fdState, dev[u.tid])
    /\ pc \in Early => dev[u.tid].st \in {"IDLE", "LEARN_COMPONENTS"}
    /\ pc \in {"download", "sendFirmwareData", "downloaded",
               "sendTransferComplete"} => dev[u.tid].st \in {"IDLE", "DOWNLOAD"}
    /\ pc \in {"verify", "sendVerifyComplete"} =>
          dev[u.tid].st \in {"IDLE", "DOWNLOAD", "VERIFY"}
    /\ pc \in {"apply", "sendApplyComplete"} =>
          dev[u.tid].st \in {"IDLE", "VERIFY", "APPLY"}
    /\ pc \in {"download", "sendFirmwareData"} =>
          /\ u.expectedCmd \in {"RequestFirmwareData", "TransferComplete"}
          /\ u.fdTransferCompleted => u.expectedCmd = "TransferComplete"
          /\ Reported("TransferComplete", "DOWNLOAD")
    /\ pc = "downloaded" =>
          /\ u.expectedCmd = "TransferComplete"
          /\ u.fdReq.cmd = "TransferComplete"
          /\ u.fdReq.good => Done("DOWNLOAD")
    /\ pc = "sendTransferComplete" =>
          /\ u.expectedCmd = "TransferComplete"
          /\ u.fdReqMatched => u.fdReq.cmd = "TransferComplete"
          /\ l.result = "good" => Done("DOWNLOAD")
    /\ pc = "verify" =>
          /\ u.expectedCmd = "VerifyComplete"
          /\ u.fdReqMatched =>
                u.fdReq.cmd \in {"TransferComplete", "VerifyComplete"}
          /\ Reported("VerifyComplete", "VERIFY")
    /\ pc = "sendVerifyComplete" =>
          /\ u.expectedCmd = "VerifyComplete"
          /\ u.fdReqMatched => u.fdReq.cmd = "VerifyComplete"
          /\ l.result = "good" => Done("VERIFY")
    /\ pc = "apply" =>
          /\ u.expectedCmd = "ApplyComplete"
          /\ Reported("ApplyComplete", "APPLY")
    /\ pc = "sendApplyComplete" /\ l.result = "good" => Done("APPLY")

DeviceFollowed == Running /\ ~astray => FollowsClosely
-----------------------------------------------------------------------------
(***************************************************************************)
(* Numbers and sequences.                                                  *)
(***************************************************************************)
\* A set of natural numbers has a least one, which Min returns.
LEMMA Least ==
    ASSUME NEW S, S \subseteq Nat, S # {}
    PROVE  Min(S) \in S /\ \A m \in S : Min(S) <= m
<1>1. IsWellFoundedOn(OpToRel(<, Nat), Nat)
  BY NatLessThanWellFounded
<1>2. PICK n \in S : \A m \in S : ~ (<<m, n>> \in OpToRel(<, Nat))
  BY <1>1, WFMin
<1>3. \A m \in S : ~ (m < n)
  BY <1>2, Zenon DEF OpToRel
<1>4. \A m \in S : n <= m
  BY <1>3
<1> QED
  BY <1>4, Zenon DEF Min

\* What l.left may count down from.
Bound == Max({MaxNumReq, MaxMetaData + 1, RetryCount})

LEMMA BoundFacts ==
    /\ Bound \in Nat /\ MaxNumReq \in Nat /\ MaxMetaData \in Nat
    /\ RetryCount \in Nat /\ Parts \in Nat /\ NComp \in Nat
    /\ 2 < MaxNumReq /\ 0 < RetryCount /\ 0 < Parts /\ 0 < NComp
    /\ MaxNumReq <= Bound /\ MaxMetaData + 1 <= Bound /\ RetryCount <= Bound
<1> DEFINE S == {MaxNumReq, MaxMetaData + 1, RetryCount}
<1>1. /\ MaxNumReq \in Nat /\ MaxMetaData \in Nat /\ RetryCount \in Nat
      /\ Parts \in Nat /\ NComp \in Nat
      /\ 2 < MaxNumReq /\ 0 < RetryCount /\ 0 < Parts /\ 0 < NComp
  BY FirmwareUpdateAssumption
<1>2. \E x \in S : \A y \in S : x >= y
  <2>1. CASE MaxNumReq >= MaxMetaData + 1 /\ MaxNumReq >= RetryCount
    BY <1>1, <2>1
  <2>2. CASE MaxMetaData + 1 >= MaxNumReq /\ MaxMetaData + 1 >= RetryCount
    BY <1>1, <2>2
  <2>3. CASE RetryCount >= MaxNumReq /\ RetryCount >= MaxMetaData + 1
    BY <1>1, <2>3
  <2> QED
    BY <1>1, <2>1, <2>2, <2>3
<1>3. Bound \in S /\ \A y \in S : Bound >= y
  BY <1>2, Zenon DEF Bound, Max
<1> QED
  BY <1>1, <1>3

\* The elements of a sequence of termini are termini, and so are those of its
\* tail and its last one.
LEMMA QueueFacts ==
    ASSUME NEW q \in Seq(Termini)
    PROVE  /\ Len(q) \in Nat /\ DOMAIN q = 1 .. Len(q)
           /\ \A k \in DOMAIN q : q[k] \in Termini
           /\ q # <<>> => /\ Len(q) > 0 /\ Tail(q) \in Seq(Termini)
                          /\ Last(q) \in Termini
           /\ \A k \in DOMAIN q : /\ SubSeq(q, k, Len(q)) \in Seq(Termini)
                                  /\ SubSeq(q, k, Len(q)) # <<>>
<1>1. Len(q) \in Nat /\ DOMAIN q = 1 .. Len(q) /\ \A k \in DOMAIN q : q[k] \in Termini
  BY LenProperties
<1>2. ASSUME q # <<>>
      PROVE  Len(q) > 0 /\ Tail(q) \in Seq(Termini) /\ Last(q) \in Termini
  <2>1. Len(q) > 0
    BY <1>1, <1>2, EmptySeq
  <2>2. Tail(q) \in Seq(Termini)
    BY <1>2, HeadTailProperties
  <2> QED
    BY <1>1, <2>1, <2>2 DEF Last
<1>3. ASSUME NEW k \in DOMAIN q
      PROVE  SubSeq(q, k, Len(q)) \in Seq(Termini) /\ SubSeq(q, k, Len(q)) # <<>>
  <2>1. k \in 1 .. Len(q) + 1 /\ Len(q) \in k - 1 .. Len(q)
    BY <1>1, <1>3
  <2>2. /\ SubSeq(q, k, Len(q)) \in Seq(Termini)
        /\ Len(SubSeq(q, k, Len(q))) = Len(q) - k + 1
    BY <1>1, <2>1, SubSeqProperties
  <2>3. Len(SubSeq(q, k, Len(q))) # 0
    BY <1>1, <1>3, <2>2
  <2>4. Len(<<>>) = 0
    BY EmptySeq
  <2> QED
    BY <2>2, <2>3, <2>4, Zenon
<1> QED
  BY <1>1, <1>2, <1>3

-----------------------------------------------------------------------------
(***************************************************************************)
(* The end of a run.                                                       *)
(***************************************************************************)
LEMMA NewFWUpdateIsSound ==
    ASSUME NEW t \in Termini \cup {NoTid}, NEW cmd \in Garbage \cup {"none"}
    PROVE  NewFWUpdate(t, cmd) \in FWUpdate
BY BoundFacts, FirmwareUpdateAssumption
DEF NewFWUpdate, FWUpdate, FdStates, FdCommands, Comp, Empty

\* The next run, or the report after the last one; with a new FWUpdate unless
\* there is nothing left.
Over(v, ch) ==
    \/ /\ pc' = "report" /\ queue' = <<>> /\ u' = v
       /\ polling' = (polling \/ pldmImg)
       /\ chain' = ch /\ dangling' = dangling
    \/ /\ chain' = "none"
       /\ dangling' = IF ch \in {"reserving", "fired"}
                      THEN dangling \cup {v.tid} ELSE dangling
       /\ \E t \in Termini, cmd \in Garbage : u' = NewFWUpdate(t, cmd)
       /\ \/ /\ pc' = "report" /\ queue' = <<>>
             /\ polling' = (polling \/ pldmImg)
          \/ /\ pc' = "RequestUpdate"
             /\ queue' \in Seq(Termini) /\ queue' # <<>>
             /\ polling' = FALSE

LEMMA NextTerminusIsOver ==
    ASSUME NEW q \in Seq(Termini), NEW v, NEW ch, NextTerminus(q, v, ch)
    PROVE  Over(v, ch)
<1> DEFINE present == {k \in DOMAIN q : q[k] \in terminusFwuProperties}
           first == Min(present)
<1>1. CASE q = <<>>
  BY <1>1 DEF NextTerminus, Over
<1>2. CASE q # <<>>
  <2>1. /\ chain' = "none"
        /\ dangling' = IF ch \in {"reserving", "fired"}
                       THEN dangling \cup {v.tid} ELSE dangling
        /\ IF present = {}
           THEN /\ pc' = "report" /\ queue' = <<>>
                /\ NewUpdate(Last(q)) /\ polling' = (polling \/ pldmImg)
           ELSE /\ pc' = "RequestUpdate"
                /\ queue' = SubSeq(q, first, Len(q))
                /\ NewUpdate(q[first]) /\ polling' = FALSE
    BY <1>2, Zenon DEF NextTerminus
  <2>2. present \subseteq DOMAIN q /\ present \subseteq Nat
    BY QueueFacts
  <2>3. present # {} => first \in DOMAIN q
    BY <2>2, Least
  <2> HIDE DEF present, first
  <2>4. CASE present = {}
    BY <1>2, <2>1, <2>4, QueueFacts DEF NewUpdate, Over
  <2>5. CASE present # {}
    <3>1. first \in DOMAIN q
      BY <2>3, <2>5
    <3>2. /\ q[first] \in Termini
          /\ SubSeq(q, first, Len(q)) \in Seq(Termini)
          /\ SubSeq(q, first, Len(q)) # <<>>
      BY <3>1, QueueFacts
    <3> QED
      BY <2>1, <2>5, <3>2 DEF NewUpdate, Over
  <2> QED
    BY <2>4, <2>5
<1> QED
  BY <1>1, <1>2

LEMMA EndOfRunIsOver ==
    ASSUME queue \in Seq(Termini), queue # <<>>, failed \in BOOLEAN,
           NEW v, NEW s \in BOOLEAN, NEW ch, EndOfRun(v, s, ch)
    PROVE  Over(v, ch) /\ l' = NoLocals /\ failed' \in BOOLEAN
<1>1. Tail(queue) \in Seq(Termini)
  BY QueueFacts
<1>2. NextTerminus(Tail(queue), v, ch) /\ l' = NoLocals /\ failed' \in BOOLEAN
  BY DEF EndOfRun
<1> QED
  BY <1>1, <1>2, NextTerminusIsOver

-----------------------------------------------------------------------------
(***************************************************************************)
(* The code between two waits.                                             *)
(***************************************************************************)
Chains == {"none", "reserving", "armed", "fired"}

Releasing == {"release", "releaseFailed"}

\* What it keeps of *fwUpdate.
Kept(v, w) ==
    /\ v \in FWUpdate /\ w \in FWUpdate
    /\ w.tid = v.tid /\ w.updateMode = v.updateMode
    /\ w.fdState = v.fdState
    /\ w.fdReqMatched = v.fdReqMatched /\ w.fdReq = v.fdReq
    /\ w.fdTransferCompleted = v.fdTransferCompleted
    /\ w.isComponentAvailableForUpdate = v.isComponentAvailableForUpdate

\* The reservation is as it was, or it is cancelled and released if that can
\* be said to mctpd.
Released(v, ch, p, w, c) ==
    \/ /\ w.isReserveBandwidthActive = v.isReserveBandwidthActive
       /\ c = ch /\ p \notin Releasing
    \/ /\ v.isReserveBandwidthActive /\ ~w.isReserveBandwidthActive
       /\ c = TimerCancelled(ch)
       /\ p \in Releasing <=> Releases(v)

Stops == {"CancelUpdate", "releaseFailed", "over", "ActivateFirmware",
          "release", "metaData", "UpdateComponent", "progress"}

\* v leads to p, and with w, n and c to the next wait or the end of the run.
Leads(v, ch, p, w, n, c) ==
    /\ Kept(v, w) /\ Released(v, ch, p, w, c)
    /\ p \in Stops /\ n \in Locals
    /\ IF p = "over" THEN \E s \in BOOLEAN : EndOfRun(w, s, c)
                     ELSE Await(p, w, n, c)
    /\ p \in {"over", "ActivateFirmware"} => ~w.isReserveBandwidthActive
    /\ p = "ActivateFirmware" => w.isComponentAvailableForUpdate
    /\ p \in {"ActivateFirmware", "UpdateComponent"} => w.fdState = "READY_XFER"
    /\ p = "metaData" => n.left = MaxNumReq /\ n.got = 0

Onward(v, ch) == \E p, w, n, c : Leads(v, ch, p, w, n, c)

LEMMA AwaitLeads ==
    ASSUME NEW v \in FWUpdate, NEW n \in Locals, NEW ch,
           NEW p \in {"CancelUpdate", "progress"}, Await(p, v, n, ch)
    PROVE  Onward(v, ch)
<1>1. Leads(v, ch, p, v, n, ch)
  BY DEF Leads, Kept, Released, Releasing, Stops
<1> QED
  BY <1>1 DEF Onward

LEMMA UnreserveLeads ==
    ASSUME NEW v \in FWUpdate, NEW m \in Locals, NEW ch, Unreserve(v, m, ch)
    PROVE  Onward(v, ch)
<1> DEFINE w == [v EXCEPT !.isReserveBandwidthActive = FALSE]
<1>1. Kept(v, w) /\ Kept(v, v) /\ ~w.isReserveBandwidthActive
  BY DEF Kept, FWUpdate
<1>2. \/ ~v.isReserveBandwidthActive /\ EndOfRun(v, FALSE, ch)
      \/ /\ v.isReserveBandwidthActive /\ Releases(v)
         /\ Await("releaseFailed", w, m, TimerCancelled(ch))
      \/ /\ v.isReserveBandwidthActive /\ ~Releases(v)
         /\ EndOfRun(w, FALSE, TimerCancelled(ch))
  BY Zenon DEF Unreserve
<1> HIDE DEF w
<1>3. CASE ~v.isReserveBandwidthActive /\ EndOfRun(v, FALSE, ch)
  <2>1. Leads(v, ch, "over", v, m, ch)
    BY <1>1, <1>3 DEF Leads, Released, Releasing, Stops
  <2> QED
    BY <2>1 DEF Onward
<1>4. CASE /\ v.isReserveBandwidthActive /\ Releases(v)
           /\ Await("releaseFailed", w, m, TimerCancelled(ch))
  <2>1. Leads(v, ch, "releaseFailed", w, m, TimerCancelled(ch))
    BY <1>1, <1>4 DEF Leads, Released, Releasing, Stops
  <2> QED
    BY <2>1 DEF Onward
<1>5. CASE /\ v.isReserveBandwidthActive /\ ~Releases(v)
           /\ EndOfRun(w, FALSE, TimerCancelled(ch))
  <2>1. Leads(v, ch, "over", w, m, TimerCancelled(ch))
    BY <1>1, <1>5 DEF Leads, Released, Releasing, Stops
  <2> QED
    BY <2>1 DEF Onward
<1> QED
  BY <1>2, <1>3, <1>4, <1>5

LEMMA TerminateLeads ==
    ASSUME NEW v \in FWUpdate, NEW m \in Locals, NEW ch, Terminate(v, m, ch)
    PROVE  /\ Onward(v, ch)
           /\ v.updateMode /\ v.fdState \notin {"IDLE", "ACTIVATE"} =>
                 Await("CancelUpdate", v, m, ch)
<1>1. CASE v.updateMode /\ v.fdState \notin {"IDLE", "ACTIVATE"}
  BY <1>1, AwaitLeads DEF Terminate
<1>2. CASE ~ (v.updateMode /\ v.fdState \notin {"IDLE", "ACTIVATE"})
  BY <1>2, UnreserveLeads DEF Terminate
<1> QED
  BY <1>1, <1>2

LEMMA FinishLeads ==
    ASSUME NEW v \in FWUpdate, NEW m \in Locals, NEW ch,
           ~v.isReserveBandwidthActive, Finish(v, m, ch)
    PROVE  Onward(v, ch)
<1>1. Kept(v, v)
  BY DEF Kept
<1>2. \/ /\ v.isComponentAvailableForUpdate /\ v.fdState = "READY_XFER"
         /\ Await("ActivateFirmware", v, m, ch)
      \/ EndOfRun(v, TRUE, ch)
      \/ Terminate(v, m, ch)
  BY Zenon DEF Finish
<1>3. CASE /\ v.isComponentAvailableForUpdate /\ v.fdState = "READY_XFER"
           /\ Await("ActivateFirmware", v, m, ch)
  <2>1. Leads(v, ch, "ActivateFirmware", v, m, ch)
    BY <1>1, <1>3 DEF Leads, Released, Releasing, Stops
  <2> QED
    BY <2>1 DEF Onward
<1>4. CASE EndOfRun(v, TRUE, ch)
  <2>1. Leads(v, ch, "over", v, m, ch)
    BY <1>1, <1>4 DEF Leads, Released, Releasing, Stops
  <2> QED
    BY <2>1 DEF Onward
<1>5. CASE Terminate(v, m, ch)
  BY <1>5, TerminateLeads
<1> QED
  BY <1>2, <1>3, <1>4, <1>5

LEMMA ReleaseLeads ==
    ASSUME NEW v \in FWUpdate, NEW m \in Locals, NEW ch, Release(v, m, ch)
    PROVE  Onward(v, ch)
<1> DEFINE w == [v EXCEPT !.isReserveBandwidthActive = FALSE]
<1>1. Kept(v, w) /\ w \in FWUpdate /\ ~w.isReserveBandwidthActive
  BY DEF Kept, FWUpdate
<1>2. \/ ~v.isReserveBandwidthActive /\ Finish(v, m, ch)
      \/ /\ v.isReserveBandwidthActive /\ Releases(v)
         /\ Await("release", w, m, TimerCancelled(ch))
      \/ /\ v.isReserveBandwidthActive /\ ~Releases(v)
         /\ Finish(w, m, TimerCancelled(ch))
  BY Zenon DEF Release
<1> HIDE DEF w
<1>3. CASE ~v.isReserveBandwidthActive /\ Finish(v, m, ch)
  BY <1>3, FinishLeads
<1>4. CASE /\ v.isReserveBandwidthActive /\ Releases(v)
           /\ Await("release", w, m, TimerCancelled(ch))
  <2>1. Leads(v, ch, "release", w, m, TimerCancelled(ch))
    BY <1>1, <1>4 DEF Leads, Released, Releasing, Stops
  <2> QED
    BY <2>1 DEF Onward
<1>5. CASE /\ v.isReserveBandwidthActive /\ ~Releases(v)
           /\ Finish(w, m, TimerCancelled(ch))
  <2>1. Onward(w, TimerCancelled(ch))
    BY <1>1, <1>5, FinishLeads
  <2>2. PICK p, x, n, c : Leads(w, TimerCancelled(ch), p, x, n, c)
    BY <2>1 DEF Onward
  <2>3. /\ ~x.isReserveBandwidthActive /\ c = TimerCancelled(ch)
        /\ p \notin Releasing
    BY <1>1, <2>2 DEF Leads, Released
  <2>4. Kept(v, x)
    BY <1>1, <2>2 DEF Leads, Kept
  <2>5. Released(v, ch, p, x, c)
    BY <1>5, <2>3 DEF Released
  <2>6. Leads(v, ch, p, x, n, c)
    BY <2>2, <2>4, <2>5 DEF Leads
  <2> QED
    BY <2>6 DEF Onward
<1> QED
  BY <1>2, <1>3, <1>4, <1>5

\* Locals stay in range.
LEMMA LocalsStay ==
    ASSUME NEW m \in Locals
    PROVE  /\ m.left \in 0 .. Bound /\ m.got \in 0 .. Parts
           /\ \A k \in 0 .. Bound : /\ [m EXCEPT !.left = k] \in Locals
                                    /\ [m EXCEPT !.left = k, !.got = 0] \in Locals
           /\ \A k \in 0 .. Parts : [m EXCEPT !.got = k] \in Locals
           /\ \A r \in {"success", "error"} : [m EXCEPT !.retVal = r] \in Locals
           /\ \A b \in BOOLEAN : [m EXCEPT !.some = b] \in Locals
           /\ \A d \in {"good", "bad", "undecodable"} :
                 [m EXCEPT !.result = d] \in Locals
<1>1. m \in Locals /\ Locals = [retVal : {"success", "error"},
                                left : 0 .. Bound, got : 0 .. Parts, some : BOOLEAN,
                                result : {"good", "bad", "undecodable"}]
  BY DEF Locals, Bound
<1>2. 0 \in 0 .. Parts
  BY BoundFacts
<1>3. ASSUME NEW k \in 0 .. Bound
      PROVE  [m EXCEPT !.left = k] \in Locals /\ [m EXCEPT !.left = k, !.got = 0] \in Locals
  <2> HIDE DEF Locals
  <2>1. [m EXCEPT !.left = k] \in Locals
    BY <1>1, <1>3
  <2>2. [m EXCEPT !.left = k, !.got = 0] \in Locals
    BY <1>1, <1>2, <1>3
  <2> QED
    BY <2>1, <2>2
<1>4. /\ m.left \in 0 .. Bound /\ m.got \in 0 .. Parts
      /\ \A k \in 0 .. Parts : [m EXCEPT !.got = k] \in Locals
  BY <1>1
<1>5. /\ \A r \in {"success", "error"} : [m EXCEPT !.retVal = r] \in Locals
      /\ \A b \in BOOLEAN : [m EXCEPT !.some = b] \in Locals
      /\ \A d \in {"good", "bad", "undecodable"} :
            [m EXCEPT !.result = d] \in Locals
  BY <1>1
<1> QED
  BY <1>3, <1>4, <1>5

LEMMA SendMetaDataLeads ==
    ASSUME NEW v \in FWUpdate, NEW m \in Locals, NEW ch, SendMetaData(v, m, ch)
    PROVE  Onward(v, ch)
<1> DEFINE w == [v EXCEPT !.expectedCmd = "GetMetaData"]
           n == [m EXCEPT !.left = MaxNumReq, !.got = 0]
<1>1. Kept(v, w) /\ w.isReserveBandwidthActive = v.isReserveBandwidthActive
  BY DEF Kept, FWUpdate, FdCommands
<1>2. n \in Locals /\ n.left = MaxNumReq /\ n.got = 0
  <2>1. MaxNumReq \in 0 .. Bound
    BY BoundFacts
  <2>2. n \in Locals
    BY <2>1, LocalsStay
  <2> QED
    BY <2>2 DEF Locals
<1>3. CASE v.hasMetaData
  <2>1. Await("metaData", w, n, ch)
    BY <1>3 DEF SendMetaData
  <2> HIDE DEF w, n
  <2>2. Leads(v, ch, "metaData", w, n, ch)
    BY <1>1, <1>2, <2>1 DEF Leads, Released, Releasing, Stops
  <2> QED
    BY <2>2 DEF Onward
<1>4. CASE ~v.hasMetaData
  BY <1>4, ReleaseLeads DEF SendMetaData
<1> QED
  BY <1>3, <1>4

LEMMA ToComponentLeads ==
    ASSUME NEW v \in FWUpdate, NEW m \in Locals, NEW ch, NEW i \in Nat,
           ToComponent(i, v, m, ch)
    PROVE  Onward(v, ch)
<1> DEFINE applies(k) == k \in Applicable[v.tid]
           stops == {k \in i .. NComp - 1 :
                        ~applies(k) \/ v.fdState = "READY_XFER"}
           k == Min(stops)
           skips == IF stops = {} THEN i < NComp ELSE i < k
           n == IF skips THEN [m EXCEPT !.retVal = "error"] ELSE m
           w == [v EXCEPT !.currentComp = k]
           p == IF applies(k) THEN "UpdateComponent" ELSE "progress"
<1>1. n \in Locals
  BY LocalsStay, Zenon
<1>2. \/ stops = {} /\ SendMetaData(v, n, ch)
      \/ stops # {} /\ Await(p, w, n, ch)
  BY Zenon DEF ToComponent
<1> HIDE DEF n
<1>3. CASE SendMetaData(v, n, ch)
  BY <1>1, <1>3, SendMetaDataLeads
<1>4. CASE stops # {} /\ Await(p, w, n, ch)
  <2>1. stops \subseteq Nat /\ stops \subseteq Comp
    BY BoundFacts DEF Comp
  <2>2. k \in stops
    BY <1>4, <2>1, Least
  <2>3. Kept(v, w) /\ w.isReserveBandwidthActive = v.isReserveBandwidthActive
    <3>1. k \in Comp
      BY <2>1, <2>2
    <3> HIDE DEF k
    <3> QED
      BY <3>1 DEF Kept, FWUpdate
  <2>4. p = "UpdateComponent" => v.fdState = "READY_XFER"
    BY <2>2
  <2>5. p \in {"UpdateComponent", "progress"}
    OBVIOUS
  <2> HIDE DEF w, p, stops
  <2>6. Leads(v, ch, p, w, n, ch)
    BY <1>1, <1>4, <2>3, <2>4, <2>5 DEF Leads, Released, Releasing, Stops, Kept
  <2> QED
    BY <2>6 DEF Onward
<1> QED
  BY <1>2, <1>3, <1>4

LEMMA NextComponentLeads ==
    ASSUME NEW v \in FWUpdate, NEW m \in Locals, NEW ch, NextComponent(v, m, ch)
    PROVE  Onward(v, ch)
<1>1. v.currentComp + 1 \in Nat
  BY BoundFacts DEF FWUpdate, Comp
<1> QED
  BY <1>1, ToComponentLeads DEF NextComponent

\* A component is passed, or all are and some were accepted, or none was.
LEMMA PassComponentsLeads ==
    ASSUME NEW v \in FWUpdate, v.tid \in Termini, NEW m \in Locals, NEW ch,
           NEW i \in Nat, PassComponents(i, v, m, ch)
    PROVE  \/ \E k \in Applicable[v.tid] :
                 /\ k >= i /\ k \in Comp
                 /\ Await("PassComponentTable", [v EXCEPT !.currentComp = k], m, ch)
           \/ /\ \A k \in Applicable[v.tid] : ~ (k >= i)
              /\ \/ m.some /\ Onward([v EXCEPT !.fdState = "READY_XFER"], ch)
                 \/ Terminate(v, m, ch)
<1> DEFINE rest == {k \in Applicable[v.tid] : k >= i}
           w == [v EXCEPT !.fdState = "READY_XFER"]
           n == [m EXCEPT !.retVal = "success"]
<1>1. \/ /\ rest # {}
         /\ Await("PassComponentTable", [v EXCEPT !.currentComp = Min(rest)], m, ch)
      \/ rest = {} /\ m.some /\ ToComponent(0, w, n, ch)
      \/ rest = {} /\ Terminate(v, m, ch)
  BY Zenon DEF PassComponents
<1>2. Applicable[v.tid] \subseteq Comp /\ Comp \subseteq Nat
  <2>1. Applicable[v.tid] \in SUBSET (0 .. NComp - 1)
    BY FirmwareUpdateAssumption
  <2> QED
    BY <2>1 DEF Comp
<1>3. CASE /\ rest # {}
           /\ Await("PassComponentTable", [v EXCEPT !.currentComp = Min(rest)], m, ch)
  <2>1. rest \subseteq Nat
    BY <1>2
  <2>2. Min(rest) \in rest
    BY <1>3, <2>1, Least
  <2> QED
    BY <1>2, <1>3, <2>2
<1>4. CASE rest = {} /\ m.some /\ ToComponent(0, w, n, ch)
  <2>1. w \in FWUpdate /\ n \in Locals
    BY LocalsStay DEF FWUpdate, FdStates
  <2> HIDE DEF w, n
  <2>2. Onward(w, ch)
    BY <1>4, <2>1, ToComponentLeads
  <2> QED
    BY <1>4, <2>2 DEF w
<1>5. CASE rest = {} /\ Terminate(v, m, ch)
  BY <1>5
<1> QED
  BY <1>1, <1>3, <1>4, <1>5

\* Before any component has been passed.
Begins(v, p, w, n, c) ==
    /\ Kept(v, w) /\ n \in Locals
    /\ w.isReserveBandwidthActive = v.isReserveBandwidthActive
    /\ p \in {"GetDeviceMetaData", "PassComponentTable", "CancelUpdate"}
    /\ Await(p, w, n, c)
    /\ p = "PassComponentTable" => w.currentComp \in Applicable[v.tid]

LEMMA NonePassedBegins ==
    ASSUME NEW v \in FWUpdate, v.tid \in Termini, NEW m \in Locals, NEW ch,
           v.updateMode, v.fdState = "LEARN_COMPONENTS",
           \/ Terminate(v, m, ch)
           \/ PassComponents(0, v, [m EXCEPT !.some = FALSE], ch)
           \/ GetDeviceMetaData(v, m, ch)
    PROVE  \E p, w, n : Begins(v, p, w, n, ch)
<1> DEFINE n == [m EXCEPT !.some = FALSE]
<1>1. n \in Locals /\ ~n.some
  <2>1. n \in Locals
    BY LocalsStay
  <2>2. ~n.some
    BY DEF Locals
  <2> QED
    BY <2>1, <2>2
<1> HIDE DEF n
<1>2. ASSUME NEW x \in Locals, Terminate(v, x, ch)
      PROVE  \E p, w, y : Begins(v, p, w, y, ch)
  <2>1. Await("CancelUpdate", v, x, ch)
    BY <1>2, TerminateLeads
  <2>2. Begins(v, "CancelUpdate", v, x, ch)
    BY <1>2, <2>1 DEF Begins, Kept
  <2> QED
    BY <2>2
<1>3. CASE PassComponents(0, v, n, ch)
  <2>1. \/ \E k \in Applicable[v.tid] :
              /\ k >= 0 /\ k \in Comp
              /\ Await("PassComponentTable", [v EXCEPT !.currentComp = k], n, ch)
        \/ Terminate(v, n, ch)
    BY <1>1, <1>3, PassComponentsLeads
  <2>2. ASSUME NEW k \in Applicable[v.tid], k \in Comp,
               Await("PassComponentTable", [v EXCEPT !.currentComp = k], n, ch)
        PROVE  \E p, w, y : Begins(v, p, w, y, ch)
    <3> DEFINE w == [v EXCEPT !.currentComp = k]
    <3>1. /\ Kept(v, w) /\ w.isReserveBandwidthActive = v.isReserveBandwidthActive
          /\ w.currentComp = k
      BY <2>2 DEF Kept, FWUpdate
    <3>2. Await("PassComponentTable", w, n, ch)
      BY <2>2
    <3> HIDE DEF w
    <3>3. Begins(v, "PassComponentTable", w, n, ch)
      BY <1>1, <2>2, <3>1, <3>2 DEF Begins
    <3> QED
      BY <3>3
  <2> QED
    BY <1>1, <1>2, <2>1, <2>2
<1>4. CASE GetDeviceMetaData(v, m, ch)
  <2> DEFINE y == [m EXCEPT !.left = MaxMetaData + 1]
  <2>1. \/ Await("GetDeviceMetaData", v, y, ch)
        \/ PassComponents(0, v, n, ch)
    BY <1>4, Zenon DEF GetDeviceMetaData, n
  <2>2. y \in Locals
    <3>1. MaxMetaData + 1 \in 0 .. Bound
      BY BoundFacts
    <3> QED
      BY <3>1, LocalsStay
  <2> HIDE DEF y
  <2>3. CASE Await("GetDeviceMetaData", v, y, ch)
    <3>1. Begins(v, "GetDeviceMetaData", v, y, ch)
      BY <2>2, <2>3 DEF Begins, Kept
    <3> QED
      BY <3>1
  <2> QED
    BY <1>3, <2>1, <2>3
<1> QED
  BY <1>2, <1>3, <1>4 DEF n

-----------------------------------------------------------------------------
(***************************************************************************)
(* A step of the coroutine.                                                *)
(***************************************************************************)
\* v is *fwUpdate but for what a step may do to it.
Own(v) ==
    /\ v \in FWUpdate /\ v.tid = u.tid
    /\ v.fdReqMatched => u.fdReqMatched
    /\ v.fdReq \in {u.fdReq, Cleared}
    /\ v.isComponentAvailableForUpdate =>
          \/ u.isComponentAvailableForUpdate
          \/ pc = "sendApplyComplete" /\ l.result # "undecodable"

\* Where a step may take the coroutine, or to the end of the run.
Reaches(p, w, n) ==
    /\ n \in Locals /\ CountsAt(p, n) /\ BelievedAt(p, w)
    /\ p \in Busy \cup {"over"}
    /\ p \in Completing => pc \in Completing \/ ~w.fdReqMatched
    /\ p = "RequestUpdate" => pc = "RequestUpdate"
    /\ p = "activated" => pc = "ActivateFirmware"
    /\ p = "ActivateFirmware" => w.isComponentAvailableForUpdate
    /\ p = "sendApplyComplete" /\ n.result # "undecodable" =>
          pc = "apply" /\ u.fdReqMatched /\ u.fdReq.cmd = "ApplyComplete"

Arrives(p, w, n, c) ==
    /\ Own(w) /\ Reaches(p, w, n)
    /\ IF p = "over" THEN \E s \in BOOLEAN : EndOfRun(w, s, c)
                     ELSE Await(p, w, n, c)
    /\ p \in {"over", "ActivateFirmware"} =>
          \/ ~w.isReserveBandwidthActive
          \/ pc \in Unreserved /\ w = u /\ c = chain
    /\ p = "delay" => pc = "RequestUpdate"
    /\ \/ Released(u, chain, p, w, c)
       \/ /\ pc = "delay" /\ c = Activated
          /\ w.isReserveBandwidthActive = u.isReserveBandwidthActive
          /\ p \in {"packageData", "CancelUpdate", "GetDeviceMetaData",
                    "PassComponentTable"}

Arrived == \E p, w, n, c : Arrives(p, w, n, c)

Crashes ==
    /\ pc' = "crashed"
    /\ UNCHANGED <<queue, u, l, failed, polling, chain, dangling>>

LEMMA OwnIsOwn ==
    ASSUME u \in FWUpdate
    PROVE  Own(u)
BY DEF Own

LEMMA WaitArrives ==
    ASSUME NEW v, Own(v),
           v.isReserveBandwidthActive = u.isReserveBandwidthActive,
           NEW p, NEW n, Reaches(p, v, n),
           p \notin Releasing \cup {"over", "ActivateFirmware"},
           p = "delay" => pc = "RequestUpdate",
           Await(p, v, n, chain)
    PROVE  Arrived
<1>1. Arrives(p, v, n, chain)
  BY DEF Arrives, Released
<1> QED
  BY <1>1 DEF Arrived

LEMMA KeptIsOwn ==
    ASSUME NEW v, NEW w, Own(v), Kept(v, w)
    PROVE  Own(w)
BY DEF Own, Kept

LEMMA OnwardArrives ==
    ASSUME NEW v, Own(v),
           v.isReserveBandwidthActive = u.isReserveBandwidthActive,
           Onward(v, chain)
    PROVE  Arrived
<1>1. PICK p, w, n, c : Leads(v, chain, p, w, n, c)
  BY DEF Onward
<1>2. Own(w)
  BY <1>1, KeptIsOwn DEF Leads
<1>3. Reaches(p, w, n)
  <2>1. /\ n \in Locals /\ p \in Stops
        /\ p = "ActivateFirmware" => w.isComponentAvailableForUpdate
        /\ p \in {"ActivateFirmware", "UpdateComponent"} => w.fdState = "READY_XFER"
        /\ p = "metaData" => n.left = MaxNumReq /\ n.got = 0
    BY <1>1 DEF Leads
  <2>2. CountsAt(p, n)
    BY <2>1, BoundFacts DEF CountsAt, Stops
  <2>3. BelievedAt(p, w)
    BY <2>1 DEF BelievedAt, Stops, Early
  <2>4. p \in Busy \cup {"over"} /\ p \notin Completing
        /\ p \notin {"RequestUpdate", "activated", "sendApplyComplete"}
    BY <2>1 DEF Stops, Busy, Commands, Waits, Sends, Calls, Completing
  <2> QED
    BY <2>1, <2>2, <2>3, <2>4 DEF Reaches
<1>4. Released(u, chain, p, w, c)
  <2>1. v.tid = u.tid
    BY DEF Own
  <2> QED
    BY <1>1, <2>1 DEF Leads, Released, Releases
<1>5. p # "delay"
  BY <1>1 DEF Leads, Stops
<1>6. Arrives(p, w, n, c)
  BY <1>1, <1>2, <1>3, <1>4, <1>5 DEF Leads, Arrives
<1> QED
  BY <1>6 DEF Arrived

LEMMA BeginsReaches ==
    ASSUME NEW v, Own(v), u.tid \in Termini, v.updateMode,
           v.fdState = "LEARN_COMPONENTS",
           NEW p, NEW w, NEW n, NEW c, Begins(v, p, w, n, c)
    PROVE  /\ Own(w) /\ Reaches(p, w, n)
           /\ w.isReserveBandwidthActive = v.isReserveBandwidthActive
           /\ p \in {"GetDeviceMetaData", "PassComponentTable", "CancelUpdate"}
           /\ Await(p, w, n, c)
<1>1. /\ Kept(v, w) /\ n \in Locals
      /\ p \in {"GetDeviceMetaData", "PassComponentTable", "CancelUpdate"}
      /\ p = "PassComponentTable" => w.currentComp \in Applicable[w.tid]
  BY DEF Begins, Kept
<1>2. Own(w)
  BY <1>1, KeptIsOwn
<1>3. CountsAt(p, n)
  BY <1>1 DEF CountsAt
<1>4. BelievedAt(p, w)
  BY <1>1 DEF BelievedAt, Kept
<1>5. Reaches(p, w, n)
  BY <1>1, <1>3, <1>4 DEF Reaches, Busy, Commands, Completing
<1> QED
  BY <1>1, <1>2, <1>5 DEF Begins

LEMMA BeginsArrives ==
    ASSUME NEW v, Own(v), u.tid \in Termini, v.updateMode,
           v.fdState = "LEARN_COMPONENTS",
           v.isReserveBandwidthActive = u.isReserveBandwidthActive,
           \E p, w, n : Begins(v, p, w, n, chain)
    PROVE  Arrived
<1>1. PICK p, w, n : Begins(v, p, w, n, chain)
  OBVIOUS
<1>2. /\ Own(w) /\ Reaches(p, w, n) /\ Await(p, w, n, chain)
      /\ w.isReserveBandwidthActive = u.isReserveBandwidthActive
      /\ p \in {"GetDeviceMetaData", "PassComponentTable", "CancelUpdate"}
  BY <1>1, BeginsReaches
<1> QED
  BY <1>2, WaitArrives DEF Releasing

LEMMA Between ==
    ASSUME Types
    PROVE  /\ u \in FWUpdate /\ l \in Locals /\ Own(u)
           /\ pc \in Busy => u.tid \in Termini
BY OwnIsOwn DEF Types, TypeOK, Running

LEMMA RequestUpdateArrives ==
    ASSUME Types, Believed, RequestUpdateAnswered
    PROVE  Arrived
<1>1. u \in FWUpdate /\ l \in Locals /\ Own(u)
  BY Between
<1>2. ASSUME NEW d \in BOOLEAN,
             Await("delay", [u EXCEPT !.updateMode = TRUE,
                                      !.fdState = "LEARN_COMPONENTS",
                                      !.hasMetaData = d], l, chain)
      PROVE  Arrived
  <2> DEFINE v == [u EXCEPT !.updateMode = TRUE, !.fdState = "LEARN_COMPONENTS",
                            !.hasMetaData = d]
  <2>1. /\ v \in FWUpdate /\ v.fdState = "LEARN_COMPONENTS" /\ v.updateMode
        /\ v.isReserveBandwidthActive = u.isReserveBandwidthActive
    BY <1>1 DEF FWUpdate, FdStates
  <2>2. Own(v)
    BY <1>1, <2>1 DEF Own, FWUpdate
  <2>3. Await("delay", v, l, chain)
    BY <1>2
  <2> HIDE DEF v
  <2>4. Reaches("delay", v, l)
    BY <1>1, <2>1 DEF Reaches, CountsAt, BelievedAt, Busy, Waits, Completing
  <2> QED
    BY <2>1, <2>2, <2>3, <2>4, WaitArrives DEF Releasing, RequestUpdateAnswered
<1>3. CASE Terminate(u, l, chain)
  BY <1>1, <1>3, TerminateLeads, OnwardArrives
<1>4. CASE l.left < RetryCount - 1
           /\ Await("RequestUpdate", u, [l EXCEPT !.left = @ + 1], chain)
  <2> DEFINE n == [l EXCEPT !.left = @ + 1]
  <2>1. l.left + 1 \in 0 .. Bound
    <3>1. l.left \in 0 .. Bound
      BY <1>1, LocalsStay
    <3>2. l.left < RetryCount - 1
      BY <1>4
    <3> QED
      BY <3>1, <3>2, BoundFacts
  <2>2. n \in Locals
    BY <1>1, <2>1, LocalsStay
  <2>3. Await("RequestUpdate", u, n, chain)
    BY <1>4
  <2> HIDE DEF n
  <2>4. Reaches("RequestUpdate", u, n)
    BY <2>2 DEF Reaches, CountsAt, BelievedAt, Busy, Commands, Completing, Early,
                RequestUpdateAnswered, Believed
  <2> QED
    BY <1>1, <2>3, <2>4, WaitArrives DEF Releasing
<1> QED
  BY <1>2, <1>3, <1>4 DEF RequestUpdateAnswered

LEMMA DelayedArrives ==
    ASSUME Types, Believed, Delayed
    PROVE  Arrived
<1>1. u \in FWUpdate /\ l \in Locals /\ Own(u) /\ u.tid \in Termini
  BY Between DEF Delayed, Busy, Waits
<1>2. u.updateMode /\ u.fdState = "LEARN_COMPONENTS" /\ pc = "delay"
  BY DEF Believed, BelievedAt, Delayed, Early
<1>3. ASSUME NEW p, NEW w, NEW n, Own(w), Reaches(p, w, n),
             w.isReserveBandwidthActive = u.isReserveBandwidthActive,
             p \in {"packageData", "CancelUpdate", "GetDeviceMetaData",
                    "PassComponentTable"},
             Await(p, w, n, Activated)
      PROVE  Arrived
  <2>1. Arrives(p, w, n, Activated)
    BY <1>2, <1>3 DEF Arrives
  <2> QED
    BY <2>1 DEF Arrived
<1>4. CASE Await("packageData", [u EXCEPT !.expectedCmd = "GetPackageData"],
                 [l EXCEPT !.left = MaxNumReq, !.got = 0], Activated)
  <2> DEFINE w == [u EXCEPT !.expectedCmd = "GetPackageData"]
             n == [l EXCEPT !.left = MaxNumReq, !.got = 0]
  <2>1. MaxNumReq \in 0 .. Bound /\ MaxNumReq >= 1 /\ 0 < Parts
    BY BoundFacts
  <2>2. n \in Locals
    BY <1>1, <2>1, LocalsStay
  <2>3. n.left = MaxNumReq /\ n.got = 0
    BY <1>1 DEF Locals
  <2>4. /\ w \in FWUpdate /\ w.fdState = u.fdState /\ w.updateMode = u.updateMode
        /\ w.isReserveBandwidthActive = u.isReserveBandwidthActive
    BY <1>1 DEF FWUpdate, FdCommands
  <2>5. Own(w)
    BY <1>1, <2>4 DEF Own, FWUpdate
  <2>6. Await("packageData", w, n, Activated)
    BY <1>4
  <2> HIDE DEF w, n
  <2>7. Reaches("packageData", w, n)
    BY <1>2, <2>1, <2>2, <2>3, <2>4
    DEF Reaches, CountsAt, BelievedAt, Busy, Waits, Completing
  <2> QED
    BY <1>3, <2>4, <2>5, <2>6, <2>7
<1>5. CASE Terminate(u, l, Activated) \/ GetDeviceMetaData(u, l, Activated)
  <2>1. PICK p, w, n : Begins(u, p, w, n, Activated)
    BY <1>1, <1>2, <1>5, NonePassedBegins
  <2>2. /\ Own(w) /\ Reaches(p, w, n)
        /\ w.isReserveBandwidthActive = u.isReserveBandwidthActive
        /\ p \in {"GetDeviceMetaData", "PassComponentTable", "CancelUpdate"}
        /\ Await(p, w, n, Activated)
    BY <1>1, <1>2, <2>1, BeginsReaches
  <2> QED
    BY <1>3, <2>2
<1> QED
  BY <1>4, <1>5 DEF Delayed

LEMMA ServeArrives ==
    ASSUME Types, NEW cmd, NEW p \in Sends, NEW v, Own(v),
           v.isReserveBandwidthActive = u.isReserveBandwidthActive,
           BelievedAt(p, v), CountsAt(p, l),
           p \in Completing => pc \in Completing \/ ~v.fdReqMatched,
           p = "sendApplyComplete" =>
              cmd = "ApplyComplete" /\ pc = "apply" /\ u.fdReqMatched,
           Serve(cmd, p, v)
    PROVE  Arrived
<1>1. PICK d \in Decoded(cmd) : Await(p, v, [l EXCEPT !.result = d], chain)
  BY DEF Serve
<1>2. /\ d \in {"good", "bad", "undecodable"}
      /\ cmd = "ApplyComplete" /\ d # "undecodable" => u.fdReq.cmd = "ApplyComplete"
  BY <1>1 DEF Decoded
<1> DEFINE n == [l EXCEPT !.result = d]
<1>3. l \in Locals
  BY Between
<1>4. n \in Locals /\ n.left = l.left /\ n.got = l.got /\ n.result = d
  <2>1. n \in Locals
    BY <1>2, <1>3, LocalsStay
  <2>2. n.left = l.left /\ n.got = l.got /\ n.result = d
    BY <1>3 DEF Locals
  <2> QED
    BY <2>1, <2>2
<1>5. Await(p, v, n, chain)
  BY <1>1
<1> HIDE DEF n
<1>6. CountsAt(p, n)
  BY <1>4 DEF CountsAt
<1>7. Reaches(p, v, n)
  BY <1>2, <1>4, <1>6 DEF Reaches, Busy, Sends
<1> QED
  BY <1>5, <1>7, WaitArrives DEF Releasing, Sends

LEMMA CommandNames ==
    /\ "GetPackageData" \in FdCommands \cup {"none"}
    /\ "RequestFirmwareData" \in FdCommands \cup {"none"}
    /\ "TransferComplete" \in FdCommands \cup {"none"}
    /\ "GetMetaData" \in FdCommands \cup {"none"}
    /\ "none" \in FdCommands \cup {"none"}
BY DEF FdCommands

\* Fields that a step sets without losing track of the run.
Same(v, w) ==
    /\ Own(w) /\ w.fdState = v.fdState /\ w.updateMode = v.updateMode
    /\ w.isReserveBandwidthActive = v.isReserveBandwidthActive

LEMMA ExpectedSame ==
    ASSUME NEW v, Own(v), NEW cmd \in FdCommands \cup {"none"}
    PROVE  /\ Same(v, [v EXCEPT !.expectedCmd = cmd])
           /\ [v EXCEPT !.expectedCmd = cmd].expectedCmd = cmd
           /\ [v EXCEPT !.expectedCmd = cmd].fdReqMatched = v.fdReqMatched
BY DEF Same, Own, FWUpdate

LEMMA TakenSame ==
    ASSUME NEW v, Own(v)
    PROVE  /\ Same(v, [v EXCEPT !.fdReqMatched = FALSE])
           /\ ~[v EXCEPT !.fdReqMatched = FALSE].fdReqMatched
BY DEF Same, Own, FWUpdate

LEMMA ServedSame ==
    ASSUME NEW v, Own(v)
    PROVE  /\ Same(v, Served(v))
           /\ Served(v).fdReqMatched = v.fdReqMatched
           /\ Served(v).expectedCmd = v.expectedCmd
<1> DEFINE r == IF v.fdReq = Empty THEN Empty ELSE Cleared
<1>1. Served(v) = [v EXCEPT !.fdReq = r]
  BY DEF Served, Own, FWUpdate
<1>2. r \in {v.fdReq, Cleared} /\ r \in Request \cup {Empty, Cleared}
  BY DEF Own
<1> HIDE DEF r
<1> QED
  BY <1>1, <1>2 DEF Same, Own, FWUpdate

LEMMA PackageDataAwaitedArrives ==
    ASSUME Types, Believed, PackageDataAwaited
    PROVE  Arrived
<1>1. u \in FWUpdate /\ l \in Locals /\ Own(u) /\ u.tid \in Termini
  BY Between DEF PackageDataAwaited, Busy, Waits
<1>2. pc = "packageData" /\ u.updateMode /\ u.fdState = "LEARN_COMPONENTS"
  BY DEF Believed, BelievedAt, PackageDataAwaited, Early
<1>3. CASE u.fdReqMatched
  <2>1. Serve("GetPackageData", "sendPackageData", u)
    BY <1>3 DEF PackageDataAwaited
  <2>2. CountsAt("sendPackageData", l)
    BY <1>2 DEF Types, CountsAt
  <2> QED
    BY <1>1, <1>2, <2>1, <2>2, ServeArrives DEF BelievedAt, Sends, Completing
<1>4. CASE ~u.fdReqMatched
  <2> DEFINE v == [u EXCEPT !.expectedCmd = "none"]
             n == [l EXCEPT !.retVal = "success"]
  <2>1. GetDeviceMetaData(v, n, chain)
    BY <1>4 DEF PackageDataAwaited
  <2>2. Same(u, v)
    BY <1>1, ExpectedSame
  <2>3. n \in Locals
    BY <1>1, LocalsStay
  <2> HIDE DEF v, n
  <2>4. \E p, w, m : Begins(v, p, w, m, chain)
    BY <1>1, <1>2, <2>1, <2>2, <2>3, NonePassedBegins DEF Own, Same
  <2> QED
    BY <1>1, <1>2, <2>2, <2>4, BeginsArrives DEF Same
<1> QED
  BY <1>3, <1>4

\* A part has been sent and another one is awaited.
LEMMA PartSent ==
    ASSUME Types, pc \in {"sendPackageData", "sendMetaData"},
           NEW new \in {0, 1}
    PROVE  LET m == [l EXCEPT !.got = @ + new, !.left = @ - 1,
                              !.retVal = "success"]
           IN  /\ m \in Locals
               /\ ~ (m.got = Parts \/ m.left = 0) => m.got < Parts /\ m.left >= 1
<1> DEFINE m == [l EXCEPT !.got = @ + new, !.left = @ - 1, !.retVal = "success"]
<1>1. l \in Locals
  BY Between
<1>2. l.left \in 0 .. Bound /\ l.got \in 0 .. Parts /\ l.left >= 1 /\ l.got < Parts
  BY <1>1, LocalsStay DEF Types, CountsAt
<1>3. l.left - 1 \in 0 .. Bound /\ l.got + new \in 0 .. Parts
  BY <1>2, BoundFacts
<1>4. m.left = l.left - 1 /\ m.got = l.got + new
  BY <1>1 DEF Locals
<1>5. m \in Locals
  BY <1>1, <1>3 DEF Locals, Bound
<1> HIDE DEF m
<1>7. m.left \in 0 .. Bound /\ m.got \in 0 .. Parts
  BY <1>3, <1>4
<1>6. ~ (m.got = Parts \/ m.left = 0) => m.got < Parts /\ m.left >= 1
  BY <1>7, BoundFacts
<1> QED
  BY <1>5, <1>6 DEF m

LEMMA PackageDataSentArrives ==
    ASSUME Types, Believed, PackageDataSent
    PROVE  Arrived
<1> DEFINE v == [Served(u) EXCEPT !.fdReqMatched = FALSE]
           done == [v EXCEPT !.expectedCmd = "none"]
           again == [v EXCEPT !.expectedCmd = "GetPackageData"]
           ends == [Served(u) EXCEPT !.expectedCmd = "none"]
           m(new) == [l EXCEPT !.got = @ + new, !.left = @ - 1,
                               !.retVal = "success"]
<1>1. u \in FWUpdate /\ l \in Locals /\ Own(u) /\ u.tid \in Termini
  BY Between DEF PackageDataSent, Busy, Sends
<1>2. pc = "sendPackageData" /\ u.updateMode /\ u.fdState = "LEARN_COMPONENTS"
  BY DEF Believed, BelievedAt, PackageDataSent, Early
<1>3. \/ \E new \in {0, 1} :
            IF m(new).got = Parts \/ m(new).left = 0
            THEN GetDeviceMetaData(done, m(new), chain)
            ELSE Await("packageData", again, m(new), chain)
      \/ Terminate(ends, l, chain)
  BY DEF PackageDataSent
<1>4. Same(u, done) /\ Same(u, again) /\ Same(u, ends)
  <2>1. Same(u, Served(u))
    BY <1>1, ServedSame
  <2>2. Same(u, v)
    BY <2>1, TakenSame DEF Same
  <2> HIDE DEF v
  <2>3. Same(u, done) /\ Same(u, again)
    BY <2>2, ExpectedSame, CommandNames DEF Same
  <2>4. Same(u, ends)
    BY <2>1, ExpectedSame DEF Same
  <2> QED
    BY <2>3, <2>4
<1> HIDE DEF v, done, again, ends
<1>5. ASSUME NEW w, Same(u, w), NEW n \in Locals,
             GetDeviceMetaData(w, n, chain) \/ Terminate(w, n, chain)
      PROVE  Arrived
  <2>1. \E p, x, y : Begins(w, p, x, y, chain)
    BY <1>1, <1>2, <1>5, NonePassedBegins DEF Own, Same
  <2> QED
    BY <1>1, <1>2, <1>5, <2>1, BeginsArrives DEF Same
<1>6. ASSUME NEW new \in {0, 1},
             IF m(new).got = Parts \/ m(new).left = 0
             THEN GetDeviceMetaData(done, m(new), chain)
             ELSE Await("packageData", again, m(new), chain)
      PROVE  Arrived
  <2>1. /\ m(new) \in Locals
        /\ ~ (m(new).got = Parts \/ m(new).left = 0) =>
              m(new).got < Parts /\ m(new).left >= 1
    BY <1>2, PartSent
  <2> HIDE DEF m
  <2>2. CASE m(new).got = Parts \/ m(new).left = 0
    BY <1>4, <1>5, <1>6, <2>1, <2>2
  <2>3. CASE ~ (m(new).got = Parts \/ m(new).left = 0)
    <3>1. Reaches("packageData", again, m(new))
      BY <1>2, <1>4, <2>1, <2>3
      DEF Reaches, CountsAt, BelievedAt, Busy, Waits, Completing, Same
    <3> QED
      BY <1>4, <1>6, <2>3, <3>1, WaitArrives DEF Releasing, Same
  <2> QED
    BY <2>2, <2>3
<1> QED
  BY <1>1, <1>3, <1>4, <1>5, <1>6

LEMMA GoesOnArrives ==
    ASSUME NEW v, Own(v),
           v.isReserveBandwidthActive = u.isReserveBandwidthActive,
           NEW m \in Locals,
           \/ NextComponent(v, m, chain) \/ Release(v, m, chain)
           \/ Terminate(v, m, chain) \/ Unreserve(v, m, chain)
    PROVE  Arrived
<1>1. v \in FWUpdate
  BY DEF Own
<1>2. Onward(v, chain)
  BY <1>1, NextComponentLeads, ReleaseLeads, TerminateLeads, UnreserveLeads
<1> QED
  BY <1>2, OnwardArrives

LEMMA DeviceMetaDataArrives ==
    ASSUME Types, Believed, DeviceMetaDataAnswered
    PROVE  Arrived
<1>1. u \in FWUpdate /\ l \in Locals /\ Own(u) /\ u.tid \in Termini
  BY Between DEF DeviceMetaDataAnswered, Busy, Commands
<1>2. pc = "GetDeviceMetaData" /\ u.updateMode /\ u.fdState = "LEARN_COMPONENTS"
  BY DEF Believed, BelievedAt, DeviceMetaDataAnswered, Early
<1>3. CASE PassComponents(0, u, [l EXCEPT !.some = FALSE], chain)
  <2>1. \E p, w, n : Begins(u, p, w, n, chain)
    BY <1>1, <1>2, <1>3, NonePassedBegins
  <2> QED
    BY <1>1, <1>2, <2>1, BeginsArrives
<1>4. CASE l.left > 1 /\ Await(pc, u, [l EXCEPT !.left = @ - 1], chain)
  <2> DEFINE n == [l EXCEPT !.left = @ - 1]
  <2>1. l.left - 1 \in 0 .. Bound
    <3>1. l.left \in 0 .. Bound
      BY <1>1, LocalsStay
    <3> QED
      BY <1>4, <3>1, BoundFacts
  <2>2. n \in Locals
    BY <1>1, <2>1, LocalsStay
  <2>3. Await(pc, u, n, chain)
    BY <1>4
  <2> HIDE DEF n
  <2>4. Reaches(pc, u, n)
    BY <1>2, <2>2 DEF Reaches, CountsAt, BelievedAt, Busy, Commands, Completing, Early
  <2> QED
    BY <1>1, <1>2, <2>3, <2>4, WaitArrives DEF Releasing
<1>5. CASE Terminate(u, l, chain)
  BY <1>1, <1>5, GoesOnArrives
<1> QED
  BY <1>3, <1>4, <1>5 DEF DeviceMetaDataAnswered

LEMMA ComponentPassedArrives ==
    ASSUME Types, Believed, ComponentPassed
    PROVE  Arrived
<1>1. u \in FWUpdate /\ l \in Locals /\ Own(u) /\ u.tid \in Termini
  BY Between DEF ComponentPassed, Busy, Commands
<1>2. pc = "PassComponentTable" /\ u.updateMode /\ u.fdState = "LEARN_COMPONENTS"
  BY DEF Believed, BelievedAt, ComponentPassed, Early
<1>3. PICK b \in BOOLEAN :
         PassComponents(u.currentComp + 1, u, [l EXCEPT !.some = b], chain)
  <2>1. PICK a \in {"success", "refused", "none"} :
           PassComponents(u.currentComp + 1, u,
                          [l EXCEPT !.some = @ \/ a = "success"], chain)
    BY DEF ComponentPassed
  <2>2. [l EXCEPT !.some = @ \/ a = "success"]
        = [l EXCEPT !.some = (l.some \/ a = "success")]
    BY <1>1 DEF Locals
  <2>3. (l.some \/ a = "success") \in BOOLEAN
    OBVIOUS
  <2> QED
    BY <2>1, <2>2, <2>3
<1> DEFINE n == [l EXCEPT !.some = b]
           i == u.currentComp + 1
<1>4. n \in Locals /\ i \in Nat
  <2>1. n \in Locals
    BY <1>1, LocalsStay
  <2>2. u.currentComp \in Comp
    BY <1>1 DEF FWUpdate
  <2> QED
    BY <2>1, <2>2, BoundFacts DEF Comp
<1>5. PassComponents(i, u, n, chain)
  BY <1>3
<1> HIDE DEF n, i
<1>6. \/ \E k \in Applicable[u.tid] :
            /\ k >= i /\ k \in Comp
            /\ Await("PassComponentTable", [u EXCEPT !.currentComp = k], n, chain)
      \/ Onward([u EXCEPT !.fdState = "READY_XFER"], chain)
      \/ Terminate(u, n, chain)
  BY <1>1, <1>4, <1>5, PassComponentsLeads
<1>7. ASSUME NEW k \in Applicable[u.tid], k \in Comp,
             Await("PassComponentTable", [u EXCEPT !.currentComp = k], n, chain)
      PROVE  Arrived
  <2> DEFINE w == [u EXCEPT !.currentComp = k]
  <2>1. /\ Own(w) /\ w.currentComp = k /\ w.tid = u.tid
        /\ w.fdState = u.fdState /\ w.updateMode = u.updateMode
        /\ w.isReserveBandwidthActive = u.isReserveBandwidthActive
    BY <1>1, <1>7 DEF Own, FWUpdate
  <2>2. Await("PassComponentTable", w, n, chain)
    BY <1>7
  <2> HIDE DEF w
  <2>3. Reaches("PassComponentTable", w, n)
    BY <1>2, <1>4, <1>7, <2>1
    DEF Reaches, CountsAt, BelievedAt, Busy, Commands, Completing
  <2> QED
    BY <2>1, <2>2, <2>3, WaitArrives DEF Releasing
<1>8. CASE Onward([u EXCEPT !.fdState = "READY_XFER"], chain)
  <2> DEFINE w == [u EXCEPT !.fdState = "READY_XFER"]
  <2>1. Own(w) /\ w.isReserveBandwidthActive = u.isReserveBandwidthActive
    BY <1>1 DEF Own, FWUpdate, FdStates
  <2>2. Onward(w, chain)
    BY <1>8
  <2> HIDE DEF w
  <2> QED
    BY <2>1, <2>2, OnwardArrives
<1>9. CASE Terminate(u, n, chain)
  BY <1>1, <1>4, <1>9, GoesOnArrives
<1> QED
  BY <1>6, <1>7, <1>8, <1>9

LEMMA ProgressReportedArrives ==
    ASSUME Types, Believed, ProgressReported
    PROVE  Arrived
<1>1. l \in Locals /\ Own(u)
  BY Between
<1>2. NextComponent(u, l, chain)
  BY DEF ProgressReported
<1> QED
  BY <1>1, <1>2, GoesOnArrives

LEMMA UpdateComponentArrives ==
    ASSUME Types, Believed, UpdateComponentAnswered
    PROVE  Arrived
<1>1. u \in FWUpdate /\ l \in Locals /\ Own(u)
  BY Between
<1>2. [l EXCEPT !.retVal = "success"] \in Locals /\ [l EXCEPT !.retVal = "error"] \in Locals
  BY <1>1, LocalsStay
<1>3. CASE Await("download", [u EXCEPT !.fdState = "DOWNLOAD",
                                       !.expectedCmd = "RequestFirmwareData"],
                 [l EXCEPT !.left = MaxNumReq - 1, !.retVal = "success"], chain)
  <2> DEFINE w == [u EXCEPT !.fdState = "DOWNLOAD",
                            !.expectedCmd = "RequestFirmwareData"]
             m == [l EXCEPT !.left = MaxNumReq - 1]
             n == [l EXCEPT !.left = MaxNumReq - 1, !.retVal = "success"]
  <2>1. MaxNumReq - 1 \in 0 .. Bound /\ MaxNumReq - 1 >= 1
    BY BoundFacts
  <2>2. m \in Locals
    BY <1>1, <2>1, LocalsStay
  <2>3. n = [m EXCEPT !.retVal = "success"] /\ n.left = MaxNumReq - 1
    BY <1>1 DEF Locals
  <2>4. n \in Locals
    BY <2>2, <2>3, LocalsStay
  <2>5. /\ Own(w) /\ w.fdState = "DOWNLOAD"
        /\ w.isReserveBandwidthActive = u.isReserveBandwidthActive
    BY <1>1 DEF Own, FWUpdate, FdStates, FdCommands
  <2>6. Await("download", w, n, chain)
    BY <1>3
  <2> HIDE DEF w, m, n
  <2>7. Reaches("download", w, n)
    BY <2>1, <2>3, <2>4, <2>5
    DEF Reaches, CountsAt, BelievedAt, Busy, Waits, Completing, Early
  <2> QED
    BY <2>5, <2>6, <2>7, WaitArrives DEF Releasing
<1>4. CASE Await("progress", u, [l EXCEPT !.retVal = "success"], chain)
  <2>1. Reaches("progress", u, [l EXCEPT !.retVal = "success"])
    BY <1>2 DEF Reaches, CountsAt, BelievedAt, Busy, Calls, Completing, Early
  <2> QED
    BY <1>1, <1>4, <2>1, WaitArrives DEF Releasing
<1>5. CASE NextComponent(u, [l EXCEPT !.retVal = "error"], chain)
  BY <1>1, <1>2, <1>5, GoesOnArrives
<1> QED
  BY <1>3, <1>4, <1>5 DEF UpdateComponentAnswered

LEMMA DownloadedArrives ==
    ASSUME Types, Believed, pc = "download", NEW v, Own(v),
           v.fdState = "DOWNLOAD",
           v.isReserveBandwidthActive = u.isReserveBandwidthActive,
           ~v.fdReqMatched, Downloaded(v)
    PROVE  Arrived
<1>1. l \in Locals
  BY Between
<1>2. PICK p \in {"downloaded", "CancelUpdateComponent"} : Await(p, v, l, chain)
  BY DEF Downloaded
<1>3. Reaches(p, v, l)
  BY <1>1, <1>2 DEF Reaches, CountsAt, BelievedAt, Busy, Commands, Calls, Completing, Early
<1> QED
  BY <1>2, <1>3, WaitArrives DEF Releasing

LEMMA DownloadAwaitedArrives ==
    ASSUME Types, Believed, DownloadAwaited
    PROVE  Arrived
<1>1. l \in Locals /\ Own(u) /\ u.fdState = "DOWNLOAD" /\ pc = "download"
  BY Between DEF DownloadAwaited, Believed, BelievedAt
<1>2. Same(u, Taken) /\ ~Taken.fdReqMatched
  BY <1>1, TakenSame DEF Taken
<1>3. CASE ~u.fdReqMatched
  BY <1>1, <1>3, DownloadedArrives DEF DownloadAwaited
<1>4. CASE u.fdReqMatched /\ u.fdTransferCompleted
  <2> DEFINE v == [Taken EXCEPT !.fdTransferCompleted = FALSE]
  <2>1. Same(Taken, v) /\ v.fdReqMatched = Taken.fdReqMatched
    BY <1>2 DEF Same, Own, FWUpdate
  <2>2. Downloaded(v)
    BY <1>4 DEF DownloadAwaited
  <2> HIDE DEF v
  <2> QED
    BY <1>1, <1>2, <2>1, <2>2, DownloadedArrives DEF Same
<1>5. CASE u.fdReqMatched /\ ~u.fdTransferCompleted
  <2>1. Serve("RequestFirmwareData", "sendFirmwareData", Taken)
    BY <1>5 DEF DownloadAwaited
  <2>2. CountsAt("sendFirmwareData", l) /\ BelievedAt("sendFirmwareData", Taken)
    BY <1>1, <1>2 DEF Types, CountsAt, BelievedAt, Same, Early
  <2> QED
    BY <1>2, <2>1, <2>2, ServeArrives DEF Same, Sends, Completing
<1> QED
  BY <1>3, <1>4, <1>5

LEMMA FirmwareDataSentArrives ==
    ASSUME Types, Believed, FirmwareDataSent
    PROVE  Arrived
<1>1. /\ l \in Locals /\ Own(u) /\ u.fdState = "DOWNLOAD"
      /\ pc = "sendFirmwareData"
  BY Between DEF FirmwareDataSent, Believed, BelievedAt
<1>2. l.left \in 0 .. Bound /\ l.left >= 1
  BY <1>1, LocalsStay DEF Types, CountsAt
<1> DEFINE ret(s) == IF s /\ l.result = "good" THEN "success" ELSE "error"
           m(s) == [l EXCEPT !.left = @ - 1, !.retVal = ret(s)]
           v(s) == IF s /\ l.result = "good" THEN Served(u) ELSE u
           n(s) == [m(s) EXCEPT !.retVal = "error"]
<1>3. PICK s \in BOOLEAN :
         IF m(s).left = 0 THEN Await("CancelUpdateComponent", v(s), n(s), chain)
         ELSE Await("download", v(s), m(s), chain)
  BY DEF FirmwareDataSent
<1>4. m(s) \in Locals /\ m(s).left = l.left - 1
  <2>1. l.left - 1 \in 0 .. Bound
    BY <1>2, BoundFacts
  <2>2. [l EXCEPT !.left = l.left - 1] \in Locals
    BY <1>1, <2>1, LocalsStay
  <2>3. [[l EXCEPT !.left = l.left - 1] EXCEPT !.retVal = ret(s)] \in Locals
    BY <2>2, LocalsStay
  <2>4. /\ [[l EXCEPT !.left = l.left - 1] EXCEPT !.retVal = ret(s)] = m(s)
        /\ m(s).left = l.left - 1
    BY <1>1 DEF Locals
  <2> QED
    BY <2>3, <2>4
<1>5. n(s) \in Locals
  <2> HIDE DEF m
  <2> QED
    BY <1>4, LocalsStay
<1>6. Own(v(s)) /\ v(s).fdState = "DOWNLOAD"
      /\ v(s).isReserveBandwidthActive = u.isReserveBandwidthActive
  BY <1>1, ServedSame DEF Same
<1> HIDE DEF m, n, v
<1>7. CASE m(s).left = 0
  <2>1. Reaches("CancelUpdateComponent", v(s), n(s))
    BY <1>5, <1>6 DEF Reaches, CountsAt, BelievedAt, Busy, Commands, Completing, Early
  <2> QED
    BY <1>3, <1>6, <1>7, <2>1, WaitArrives DEF Releasing
<1>8. CASE m(s).left # 0
  <2>1. m(s).left >= 1
    BY <1>2, <1>4, <1>8, BoundFacts
  <2>2. Reaches("download", v(s), m(s))
    BY <1>4, <1>6, <2>1 DEF Reaches, CountsAt, BelievedAt, Busy, Waits, Completing, Early
  <2> QED
    BY <1>3, <1>6, <1>8, <2>2, WaitArrives DEF Releasing
<1> QED
  BY <1>7, <1>8

LEMMA TransferCompleteArrives ==
    ASSUME Types, Believed, TransferCompleteProcessed
    PROVE  Arrived \/ Crashes
<1>1. l \in Locals /\ Own(u) /\ u.fdState = "DOWNLOAD" /\ pc = "downloaded"
  BY Between DEF TransferCompleteProcessed, Believed, BelievedAt
<1>2. CASE u.fdReq = Empty
  BY <1>2 DEF TransferCompleteProcessed, Crashes
<1>3. CASE u.fdReq # Empty
  <2>1. Serve("TransferComplete", "sendTransferComplete", u)
    BY <1>3 DEF TransferCompleteProcessed
  <2>2. CountsAt("sendTransferComplete", l) /\ BelievedAt("sendTransferComplete", u)
    BY <1>1 DEF CountsAt, BelievedAt, Early
  <2> QED
    BY <1>1, <2>1, <2>2, ServeArrives DEF Sends, Completing
<1> QED
  BY <1>2, <1>3

LEMMA CompletionSentArrives ==
    ASSUME Types, Believed,
           \/ TransferCompleteSent
           \/ VerifyCompleteSent
    PROVE  Arrived
<1>1. u \in FWUpdate /\ l \in Locals /\ Own(u)
  BY Between
<1>2. [l EXCEPT !.retVal = "error"] \in Locals
  BY <1>1, LocalsStay
<1>3. /\ pc \in {"sendTransferComplete", "sendVerifyComplete"}
      /\ u.fdState \in {"DOWNLOAD", "VERIFY"}
  BY DEF TransferCompleteSent, VerifyCompleteSent, CompletionSent, Believed, BelievedAt
<1>4. CASE Await("CancelUpdateComponent", u, [l EXCEPT !.retVal = "error"], chain)
  <2>1. Reaches("CancelUpdateComponent", u, [l EXCEPT !.retVal = "error"])
    BY <1>2, <1>3 DEF Reaches, CountsAt, BelievedAt, Busy, Commands, Completing, Early
  <2> QED
    BY <1>1, <1>4, <2>1, WaitArrives DEF Releasing
<1>5. ASSUME NEW p, NEW st, NEW cmd,
             \/ p = "verify" /\ st = "VERIFY" /\ cmd = "VerifyComplete"
             \/ p = "apply" /\ st = "APPLY" /\ cmd = "ApplyComplete",
             Await(p, [u EXCEPT !.fdState = st, !.expectedCmd = cmd], l, chain)
      PROVE  Arrived
  <2> DEFINE w == [u EXCEPT !.fdState = st, !.expectedCmd = cmd]
  <2>1. /\ Own(w) /\ w.fdState = st
        /\ w.isReserveBandwidthActive = u.isReserveBandwidthActive
    BY <1>1, <1>5 DEF Own, FWUpdate, FdStates, FdCommands
  <2>2. Await(p, w, l, chain)
    BY <1>5
  <2> HIDE DEF w
  <2>3. Reaches(p, w, l)
    BY <1>1, <1>3, <1>5, <2>1
    DEF Reaches, CountsAt, BelievedAt, Busy, Waits, Completing, Early
  <2> QED
    BY <1>5, <2>1, <2>2, <2>3, WaitArrives DEF Releasing
<1>6. CASE TransferCompleteSent
  BY <1>4, <1>5, <1>6 DEF TransferCompleteSent, CompletionSent
<1>7. CASE VerifyCompleteSent
  BY <1>4, <1>5, <1>7 DEF VerifyCompleteSent, CompletionSent
<1> QED
  BY <1>6, <1>7

LEMMA AwaitedArrives ==
    ASSUME Types, Believed, VerifyAwaited \/ ApplyAwaited
    PROVE  Arrived
<1>1. l \in Locals /\ Own(u)
  BY Between
<1>2. Same(u, Taken) /\ ~Taken.fdReqMatched
  BY <1>1, TakenSame DEF Taken
<1>3. CASE NextComponent(u, l, chain)
  BY <1>1, <1>3, GoesOnArrives
<1>4. CASE pc = "verify" /\ Serve("VerifyComplete", "sendVerifyComplete", Taken)
  <2>1. CountsAt("sendVerifyComplete", l) /\ BelievedAt("sendVerifyComplete", Taken)
    BY <1>2, <1>4 DEF CountsAt, BelievedAt, Early, Same, Believed
  <2> QED
    BY <1>2, <1>4, <2>1, ServeArrives DEF Same, Sends
<1>5. CASE /\ pc = "apply" /\ u.fdReqMatched
           /\ Serve("ApplyComplete", "sendApplyComplete", Taken)
  <2>1. CountsAt("sendApplyComplete", l) /\ BelievedAt("sendApplyComplete", Taken)
    BY <1>2, <1>5 DEF CountsAt, BelievedAt, Early, Same, Believed
  <2> QED
    BY <1>2, <1>5, <2>1, ServeArrives DEF Same, Sends
<1> QED
  BY <1>3, <1>4, <1>5 DEF VerifyAwaited, ApplyAwaited

LEMMA ApplyCompleteArrives ==
    ASSUME Types, Believed, ApplyCompleteSent
    PROVE  Arrived
<1>1. u \in FWUpdate /\ l \in Locals /\ Own(u) /\ [l EXCEPT !.retVal = "error"] \in Locals
  BY Between, LocalsStay
<1> DEFINE v == [u EXCEPT !.isComponentAvailableForUpdate = TRUE,
                          !.fdState = "READY_XFER"]
<1>2. \/ l.result # "undecodable" /\ NextComponent(v, l, chain)
      \/ NextComponent(u, [l EXCEPT !.retVal = "error"], chain)
  BY DEF ApplyCompleteSent
<1>3. l.result # "undecodable" =>
         Own(v) /\ v.isReserveBandwidthActive = u.isReserveBandwidthActive
  BY <1>1 DEF Own, FWUpdate, FdStates, ApplyCompleteSent
<1> HIDE DEF v
<1> QED
  BY <1>1, <1>2, <1>3, GoesOnArrives

LEMMA CancelledArrives ==
    ASSUME Types, Believed, ComponentCancelled \/ UpdateCancelled
    PROVE  Arrived
<1>1. u \in FWUpdate /\ l \in Locals /\ Own(u)
  BY Between
<1>2. ASSUME NEW st \in {"READY_XFER", "IDLE"}
      PROVE  /\ Own([u EXCEPT !.fdState = st])
             /\ [u EXCEPT !.fdState = st].isReserveBandwidthActive
                = u.isReserveBandwidthActive
  BY <1>1 DEF Own, FWUpdate, FdStates
<1>3. \E v \in {u, [u EXCEPT !.fdState = "READY_XFER"], [u EXCEPT !.fdState = "IDLE"]} :
         NextComponent(v, l, chain) \/ Unreserve(v, l, chain)
  BY DEF ComponentCancelled, UpdateCancelled
<1> QED
  BY <1>1, <1>2, <1>3, GoesOnArrives

LEMMA MetaDataArrives ==
    ASSUME Types, Believed, MetaDataAwaited \/ MetaDataSent
    PROVE  Arrived
<1> DEFINE v == [Served(u) EXCEPT !.fdReqMatched = FALSE]
           done == [v EXCEPT !.expectedCmd = "none"]
           again == [v EXCEPT !.expectedCmd = "GetMetaData"]
           ends == [Served(u) EXCEPT !.expectedCmd = "none"]
           m(new) == [l EXCEPT !.got = @ + new, !.left = @ - 1,
                               !.retVal = "success"]
           n == [l EXCEPT !.retVal = "error"]
<1>1. u \in FWUpdate /\ l \in Locals /\ Own(u) /\ n \in Locals
  BY Between, LocalsStay
<1>2. Same(u, done) /\ Same(u, again) /\ Same(u, ends)
  <2>1. Same(u, Served(u))
    BY <1>1, ServedSame
  <2>2. Same(u, v)
    BY <2>1, TakenSame DEF Same
  <2> HIDE DEF v
  <2>3. Same(u, done) /\ Same(u, again)
    BY <2>2, ExpectedSame, CommandNames DEF Same
  <2>4. Same(u, ends)
    BY <2>1, ExpectedSame DEF Same
  <2> QED
    BY <2>3, <2>4
<1>3. \/ /\ pc = "metaData"
         /\ Serve("GetMetaData", "sendMetaData", u)
      \/ Terminate(ends, n, chain)
      \/ /\ pc = "sendMetaData"
         /\ \E new \in {0, 1} :
               IF m(new).got = Parts \/ m(new).left = 0
               THEN Release(done, m(new), chain)
               ELSE Await("metaData", again, m(new), chain)
  BY DEF MetaDataAwaited, MetaDataSent
<1> HIDE DEF v, done, again, ends, n
<1>4. CASE pc = "metaData" /\ Serve("GetMetaData", "sendMetaData", u)
  <2>1. CountsAt("sendMetaData", l) /\ BelievedAt("sendMetaData", u)
    BY <1>4 DEF Types, CountsAt, BelievedAt, Early
  <2> QED
    BY <1>1, <1>4, <2>1, ServeArrives DEF Sends, Completing
<1>5. CASE Terminate(ends, n, chain)
  BY <1>1, <1>2, <1>5, GoesOnArrives DEF Same
<1>6. ASSUME pc = "sendMetaData", NEW new \in {0, 1},
             IF m(new).got = Parts \/ m(new).left = 0
             THEN Release(done, m(new), chain)
             ELSE Await("metaData", again, m(new), chain)
      PROVE  Arrived
  <2>1. /\ m(new) \in Locals
        /\ ~ (m(new).got = Parts \/ m(new).left = 0) =>
              m(new).got < Parts /\ m(new).left >= 1
    BY <1>6, PartSent
  <2> HIDE DEF m
  <2>2. CASE m(new).got = Parts \/ m(new).left = 0
    BY <1>2, <1>6, <2>1, <2>2, GoesOnArrives DEF Same
  <2>3. CASE ~ (m(new).got = Parts \/ m(new).left = 0)
    <3>1. Reaches("metaData", again, m(new))
      BY <2>1, <2>3 DEF Reaches, CountsAt, BelievedAt, Busy, Waits, Completing, Early
    <3> QED
      BY <1>2, <1>6, <2>3, <3>1, WaitArrives DEF Releasing, Same
  <2> QED
    BY <2>2, <2>3
<1> QED
  BY <1>3, <1>4, <1>5, <1>6

LEMMA OverArrives ==
    ASSUME Types, Believed, pc \in Unreserved, NEW s \in BOOLEAN,
           EndOfRun(u, s, chain)
    PROVE  Arrived
<1>1. l \in Locals /\ Own(u)
  BY Between
<1>2. Reaches("over", u, l)
  BY <1>1 DEF Reaches, CountsAt, BelievedAt, Completing, Early
<1>3. Arrives("over", u, l, chain)
  BY <1>1, <1>2 DEF Arrives, Released, Releasing
<1> QED
  BY <1>3 DEF Arrived

LEMMA BandwidthReleasedArrives ==
    ASSUME Types, Believed, BandwidthReleased
    PROVE  Arrived
<1>1. l \in Locals /\ Own(u) /\ pc \in Unreserved
  BY Between DEF BandwidthReleased, Unreserved
<1>2. \/ \E s \in BOOLEAN : EndOfRun(u, s, chain)
      \/ Terminate(u, l, chain)
      \/ /\ u.isComponentAvailableForUpdate /\ u.fdState = "READY_XFER"
         /\ Await("ActivateFirmware", u, l, chain)
  BY DEF BandwidthReleased, Finish
<1>3. CASE \E s \in BOOLEAN : EndOfRun(u, s, chain)
  BY <1>1, <1>3, OverArrives
<1>4. CASE Terminate(u, l, chain)
  BY <1>1, <1>4, GoesOnArrives
<1>5. CASE /\ u.isComponentAvailableForUpdate /\ u.fdState = "READY_XFER"
           /\ Await("ActivateFirmware", u, l, chain)
  <2>1. Reaches("ActivateFirmware", u, l)
    BY <1>1, <1>5 DEF Reaches, CountsAt, BelievedAt, Busy, Commands, Completing, Early
  <2>2. Arrives("ActivateFirmware", u, l, chain)
    BY <1>1, <1>5, <2>1 DEF Arrives, Released, Releasing
  <2> QED
    BY <2>2 DEF Arrived
<1> QED
  BY <1>2, <1>3, <1>4, <1>5

LEMMA ActivationArrives ==
    ASSUME Types, Believed, FirmwareActivated \/ ActivationAwaited
    PROVE  Arrived
<1>1. u \in FWUpdate /\ l \in Locals /\ Own(u)
  BY Between
<1>2. CASE /\ pc = "ActivateFirmware"
           /\ Await("activated", [u EXCEPT !.fdState = "ACTIVATE"], l, chain)
  <2> DEFINE w == [u EXCEPT !.fdState = "ACTIVATE"]
  <2>1. Own(w) /\ w.isReserveBandwidthActive = u.isReserveBandwidthActive
    BY <1>1 DEF Own, FWUpdate, FdStates
  <2>2. Await("activated", w, l, chain)
    BY <1>2
  <2> HIDE DEF w
  <2>3. Reaches("activated", w, l)
    BY <1>1, <1>2
    DEF Reaches, CountsAt, BelievedAt, Busy, Waits, Completing, Early
  <2> QED
    BY <2>1, <2>2, <2>3, WaitArrives DEF Releasing
<1>3. CASE Terminate(u, l, chain)
  BY <1>1, <1>3, GoesOnArrives
<1>4. CASE ActivationAwaited
  BY <1>4, OverArrives DEF ActivationAwaited, Unreserved
<1> QED
  BY <1>2, <1>3, <1>4 DEF FirmwareActivated

\* Every step of the coroutine takes it to where it waits, to the end of the
\* run, or to the null pointer that processTransferComplete may read through.
LEMMA StepsArrive ==
    ASSUME Types, Believed, RunStep \/ BandwidthReleased
    PROVE  Arrived \/ Crashes
BY RequestUpdateArrives, DelayedArrives, PackageDataAwaitedArrives,
   PackageDataSentArrives, DeviceMetaDataArrives, ComponentPassedArrives,
   ProgressReportedArrives, UpdateComponentArrives, DownloadAwaitedArrives,
   FirmwareDataSentArrives, TransferCompleteArrives, CompletionSentArrives,
   AwaitedArrives, ApplyCompleteArrives, CancelledArrives, MetaDataArrives,
   BandwidthReleasedArrives, ActivationArrives
DEF RunStep

-----------------------------------------------------------------------------
(***************************************************************************)
(* What a step of the coroutine does to the device.                        *)
(***************************************************************************)
\* A command is obeyed, or nothing has changed.
LEMMA AnswerMoves ==
    ASSUME u.tid \in Termini, dev \in [Termini -> Device],
           NEW cmd \in Commands, NEW a, Answer(cmd, a)
    PROVE  /\ dev' \in [Termini -> Device]
           /\ \/ dev' = dev /\ a # "success"
              \/ /\ Obeys(u.tid, cmd)
                 /\ dev'[u.tid].st = Obeying(u.tid, cmd)
                 /\ ~dev'[u.tid].fin
                 /\ dev'[u.tid].applied
                       = (dev[u.tid].applied /\ cmd # "RequestUpdate")
<1> DEFINE b == dev[u.tid].applied /\ cmd # "RequestUpdate"
           d == [st |-> Obeying(u.tid, cmd), fin |-> FALSE, applied |-> b]
<1>1. \/ dev' = dev /\ a # "success"
      \/ Obeys(u.tid, cmd) /\ dev' = [dev EXCEPT ![u.tid] = d]
  BY DEF Answer, Moved
<1>2. Obeying(u.tid, cmd) \in FdStates
  <2>1. dev[u.tid].st \in FdStates
    BY DEF Device
  <2> QED
    BY <2>1 DEF Obeying, Commands, FdStates
<1>3. d \in Device /\ d.st = Obeying(u.tid, cmd) /\ ~d.fin /\ d.applied = b
  BY <1>2 DEF Device
<1> HIDE DEF d, b
<1>4. CASE dev' = dev /\ a # "success"
  BY <1>4
<1>5. CASE Obeys(u.tid, cmd) /\ dev' = [dev EXCEPT ![u.tid] = d]
  <2>1. dev' \in [Termini -> Device] /\ dev'[u.tid] = d
    BY <1>3, <1>5
  <2> QED
    BY <1>3, <1>5, <2>1 DEF b
<1> QED
  BY <1>1, <1>4, <1>5

\* A response that the device takes moves it on from what it has done.
Doing(cmd) == CASE cmd = "TransferComplete" -> "DOWNLOAD"
                [] cmd = "VerifyComplete" -> "VERIFY"
                [] cmd = "ApplyComplete" -> "APPLY"

After(cmd) == CASE cmd = "TransferComplete" -> "VERIFY"
                [] cmd = "VerifyComplete" -> "APPLY"
                [] cmd = "ApplyComplete" -> "READY_XFER"

LEMMA ResponseMoves ==
    ASSUME u.tid \in Termini, dev \in [Termini -> Device],
           NEW cmd \in Completions, Response(cmd, TRUE)
    PROVE  /\ dev' \in [Termini -> Device]
           /\ \/ dev' = dev
              \/ /\ dev[u.tid].fin /\ dev[u.tid].st = Doing(cmd)
                 /\ dev'[u.tid].st = After(cmd)
                 /\ ~dev'[u.tid].fin
                 /\ dev'[u.tid].applied = dev[u.tid].applied
<1> DEFINE d == dev[u.tid]
           e == [dev EXCEPT ![u.tid].st = After(cmd), ![u.tid].fin = FALSE]
<1>1. \/ dev' = dev
      \/ d.fin /\ cmd \in Reports(u.tid) /\ dev' = e
  BY Zenon DEF Response, After
<1>2. d \in Device
  OBVIOUS
<1>3. cmd \in Reports(u.tid) => d.st = Doing(cmd)
  BY <1>2 DEF Reports, Completions, Doing, Device, FdStates
<1>4. After(cmd) \in FdStates
  BY DEF After, Completions, FdStates
<1>5. e \in [Termini -> Device] /\ e[u.tid].st = After(cmd) /\ ~e[u.tid].fin
      /\ e[u.tid].applied = d.applied
  BY <1>4 DEF Device
<1> HIDE DEF e
<1> QED
  BY <1>1, <1>3, <1>5

\* Only RequestUpdate moves an idle device, or makes it forget ApplyComplete.
LEMMA DeviceMoves ==
    ASSUME Types, RunStep \/ BandwidthReleased
    PROVE  /\ u.tid \in Termini
           /\ dev' \in [Termini -> Device]
           /\ \/ dev' = dev \/ pc = "RequestUpdate"
              \/ /\ dev[u.tid].st # "IDLE"
                 /\ dev'[u.tid].applied = dev[u.tid].applied
<1>1. u.tid \in Termini /\ dev \in [Termini -> Device]
  <2>1. pc \in Busy
    BY DEF RunStep, BandwidthReleased, RequestUpdateAnswered, Delayed,
       PackageDataAwaited, PackageDataSent, DeviceMetaDataAnswered,
       ComponentPassed, ProgressReported, UpdateComponentAnswered,
       DownloadAwaited, FirmwareDataSent, TransferCompleteProcessed,
       TransferCompleteSent, VerifyAwaited, VerifyCompleteSent, ApplyAwaited,
       ApplyCompleteSent, ComponentCancelled, MetaDataAwaited, MetaDataSent,
       FirmwareActivated, ActivationAwaited, UpdateCancelled, CompletionSent,
       Busy, Commands, Waits, Sends, Calls
  <2> QED
    BY <2>1 DEF Types, TypeOK, Running
<1> DEFINE Claim == /\ dev' \in [Termini -> Device]
                    /\ \/ dev' = dev \/ pc = "RequestUpdate"
                       \/ /\ dev[u.tid].st # "IDLE"
                          /\ dev'[u.tid].applied = dev[u.tid].applied
<1>2. ASSUME NEW cmd \in Commands, pc = cmd, NEW a, Answer(cmd, a)
      PROVE  Claim
  <2>1. cmd # "RequestUpdate" /\ Obeys(u.tid, cmd) => dev[u.tid].st # "IDLE"
    BY DEF Obeys, Commands
  <2>2. dev \in [Termini -> Device] /\ dev[u.tid].applied \in BOOLEAN
    BY <1>1 DEF Device
  <2> QED
    BY <1>1, <1>2, <2>1, <2>2, AnswerMoves
<1>3. ASSUME NEW cmd \in Completions, Response(cmd, TRUE)
      PROVE  Claim
  <2>1. Doing(cmd) # "IDLE"
    BY DEF Doing, Completions
  <2> QED
    BY <1>1, <1>3, <2>1, ResponseMoves
<1>4. CASE dev' = dev
  BY <1>1, <1>4
<1>5. CASE RequestUpdateAnswered
  <2>1. \/ dev' = dev
        \/ \E a : Answer("RequestUpdate", a)
    BY <1>5 DEF RequestUpdateAnswered
  <2> QED
    BY <1>1, <1>2, <1>4, <1>5, <2>1 DEF RequestUpdateAnswered, Commands
<1>6. CASE UpdateComponentAnswered
  <2>1. \/ dev' = dev
        \/ \E a : Answer("UpdateComponent", a)
    BY <1>6 DEF UpdateComponentAnswered
  <2> QED
    BY <1>1, <1>2, <1>4, <1>6, <2>1 DEF UpdateComponentAnswered, Commands
<1>7. CASE FirmwareActivated
  <2>1. \E a : Answer("ActivateFirmware", a)
    BY <1>7 DEF FirmwareActivated
  <2> QED
    BY <1>1, <1>2, <1>7, <2>1 DEF FirmwareActivated, Commands
<1>8. CASE ComponentPassed \/ ComponentCancelled \/ UpdateCancelled
  BY <1>1, <1>2, <1>8
  DEF ComponentPassed, ComponentCancelled, UpdateCancelled, Commands
<1>9. CASE TransferCompleteSent \/ VerifyCompleteSent \/ ApplyCompleteSent
  BY <1>1, <1>3, <1>4, <1>9
  DEF TransferCompleteSent, VerifyCompleteSent, ApplyCompleteSent,
      CompletionSent, Completions
<1>10. \/ RequestUpdateAnswered \/ UpdateComponentAnswered \/ FirmwareActivated
       \/ ComponentPassed \/ ComponentCancelled \/ UpdateCancelled
       \/ TransferCompleteSent \/ VerifyCompleteSent \/ ApplyCompleteSent
       \/ dev' = dev
  BY DEF RunStep, BandwidthReleased, Delayed, PackageDataAwaited,
     PackageDataSent, DeviceMetaDataAnswered, ProgressReported,
     DownloadAwaited, FirmwareDataSent, TransferCompleteProcessed,
     VerifyAwaited, ApplyAwaited, MetaDataAwaited, MetaDataSent,
     ActivationAwaited
<1> HIDE DEF Claim
<1> QED
  BY <1>4, <1>5, <1>6, <1>7, <1>8, <1>9, <1>10

-----------------------------------------------------------------------------
(***************************************************************************)
(* The types.                                                              *)
(***************************************************************************)
\* What a step of the coroutine sets.
CoroutineTypes ==
    /\ pc \in Busy \cup {"report", "idle", "crashed"}
    /\ queue \in Seq(Termini)
    /\ u \in FWUpdate
    /\ l \in Locals
    /\ failed \in BOOLEAN
    /\ chain \in Chains
    /\ dangling \in SUBSET Termini
    /\ polling \in BOOLEAN
    /\ CountsAt(pc, l)
    /\ Running => u.tid \in Termini /\ queue # <<>>
    /\ chain # "none" => u.tid \in Termini

OtherTypes ==
    /\ pldmImg \in BOOLEAN
    /\ reservedTID \in Termini \cup {NoTid}
    /\ {unreleased, astray} \subseteq BOOLEAN
    /\ dev \in [Termini -> Device]
    /\ mapped \in [Termini -> BOOLEAN]
    /\ terminusFwuProperties \in SUBSET Termini
    /\ initializing \in Termini \cup {NoTid}
    /\ setTid \in BOOLEAN
    /\ activation \in {"none", "Active", "Failed"}
    /\ events \in 0 .. MaxEvents

LEMMA TypesSplit ==
    Types <=> CoroutineTypes /\ OtherTypes
<1>1. Busy \cup {"report", "idle", "crashed"}
      = Commands \cup Waits \cup Sends \cup Calls \cup {"idle", "crashed"}
  BY DEF Busy, Calls
<1> QED
  BY <1>1, Zenon DEF Types, TypeOK, CoroutineTypes, OtherTypes, Chains

LEMMA InScopeStays ==
    ASSUME NEW p, NEW m \in Locals
    PROVE  /\ InScope(p, m) \in Locals
           /\ CountsAt(p, m) => CountsAt(p, InScope(p, m))
           /\ InScope(p, m).result = IF p \in Sends THEN m.result ELSE "good"
<1> DEFINE transfers == {"packageData", "sendPackageData", "metaData",
                         "sendMetaData"}
           loops == {"RequestUpdate", "GetDeviceMetaData", "download",
                     "sendFirmwareData"} \cup transfers
           a == IF p \in loops THEN m.left ELSE 0
           b == IF p \in transfers THEN m.got ELSE 0
           s == m.some /\ p = "PassComponentTable"
           r == IF p \in Sends THEN m.result ELSE "good"
           i == [m EXCEPT !.left = a, !.got = b, !.some = s, !.result = r]
<1>1. InScope(p, m) = i
  BY DEF InScope, Locals
<1>2. /\ m.left \in 0 .. Bound /\ m.got \in 0 .. Parts /\ m.some \in BOOLEAN
      /\ m.result \in {"good", "bad", "undecodable"}
      /\ m.retVal \in {"success", "error"}
  BY LocalsStay DEF Locals
<1>3. a \in 0 .. Bound
  BY <1>2, BoundFacts
<1>4. b \in 0 .. Parts
  BY <1>2, BoundFacts
<1>5. s \in BOOLEAN /\ r \in {"good", "bad", "undecodable"}
  BY <1>2
<1>6. CountsAt(p, m) => /\ p \in {"packageData", "sendPackageData", "download",
                                   "sendFirmwareData", "metaData",
                                   "sendMetaData"} => a >= 1
                        /\ p \in {"packageData", "sendPackageData", "metaData",
                                   "sendMetaData"} => b < Parts
  BY DEF CountsAt
<1> HIDE DEF a, b, s
<1>7. i.left = a /\ i.got = b /\ i.result = r
  BY DEF Locals
<1>8. i \in Locals
  BY <1>2, <1>3, <1>4, <1>5 DEF Locals, Bound
<1> HIDE DEF i, r
<1> QED
  BY <1>1, <1>6, <1>7, <1>8 DEF CountsAt, r

LEMMA NoLocalsFit ==
    /\ NoLocals \in Locals
    /\ CountsAt("report", NoLocals) /\ CountsAt("RequestUpdate", NoLocals)
<1>1. 0 \in 0 .. Bound /\ 0 \in 0 .. Parts
  BY BoundFacts
<1> QED
  BY <1>1 DEF NoLocals, Locals, Bound, CountsAt

\* After a run nothing is left that could be out of range.
LEMMA OverTypes ==
    ASSUME Types, NEW v \in FWUpdate, NEW ch \in Chains,
           ch # "none" => v.tid \in Termini,
           Over(v, ch), l' = NoLocals, failed' \in BOOLEAN
    PROVE  CoroutineTypes' /\ Believed'
<1>1. /\ polling \in BOOLEAN /\ pldmImg \in BOOLEAN /\ dangling \in SUBSET Termini
  BY DEF Types, TypeOK
<1>2. <<>> \in Seq(Termini)
  BY EmptySeq
<1>3. /\ pc' \in {"report", "RequestUpdate"} /\ queue' \in Seq(Termini)
      /\ polling' \in BOOLEAN /\ dangling' \in SUBSET Termini
  BY <1>1, <1>2 DEF Over
<1>4. /\ u' \in FWUpdate
      /\ chain' \in Chains
      /\ chain' # "none" => u'.tid \in Termini
      /\ pc' = "RequestUpdate" =>
            u'.tid \in Termini /\ u'.fdState = "IDLE" /\ queue' # <<>>
  <2>1. ASSUME NEW t \in Termini, NEW cmd \in Garbage
        PROVE  /\ NewFWUpdate(t, cmd) \in FWUpdate
               /\ NewFWUpdate(t, cmd).tid = t
               /\ NewFWUpdate(t, cmd).fdState = "IDLE"
    BY NewFWUpdateIsSound DEF NewFWUpdate
  <2> QED
    BY <2>1 DEF Over, Chains
<1>5. l' \in Locals /\ CountsAt(pc', l')
  BY <1>3, NoLocalsFit
<1>6. BelievedAt(pc', u')
  BY <1>3, <1>4 DEF BelievedAt, Early
<1>7. "report" \notin Busy /\ "RequestUpdate" \in Busy
  BY DEF Busy, Commands, Waits, Sends, Calls
<1> QED
  BY <1>3, <1>4, <1>5, <1>6, <1>7 DEF CoroutineTypes, Believed, Running

LEMMA ArrivedTypes ==
    ASSUME Types, u.tid \in Termini, queue # <<>>, Arrived
    PROVE  CoroutineTypes' /\ Believed'
<1>1. PICK p, w, n, c : Arrives(p, w, n, c)
  BY DEF Arrived
<1>2. /\ w \in FWUpdate /\ w.tid \in Termini /\ n \in Locals /\ CountsAt(p, n)
      /\ BelievedAt(p, w) /\ p \in Busy \cup {"over"}
  BY <1>1 DEF Arrives, Own, Reaches
<1>3. c \in Chains
  <2>1. chain \in Chains
    BY DEF Types, TypeOK, Chains
  <2> QED
    BY <1>1, <2>1 DEF Arrives, Released, Activated, TimerCancelled, Chains
<1>4. CASE p = "over"
  <2>1. PICK s \in BOOLEAN : EndOfRun(w, s, c)
    BY <1>1, <1>4 DEF Arrives
  <2>2. Over(w, c) /\ l' = NoLocals /\ failed' \in BOOLEAN
    BY <2>1, EndOfRunIsOver DEF Types, TypeOK
  <2> QED
    BY <1>2, <1>3, <2>2, OverTypes
<1>5. CASE p # "over"
  <2>1. /\ pc' = p /\ u' = w /\ l' = InScope(p, n) /\ chain' = c
        /\ queue' = queue /\ failed' = failed /\ polling' = polling
        /\ dangling' = dangling
    BY <1>1, <1>5 DEF Arrives, Await
  <2>2. InScope(p, n) \in Locals /\ CountsAt(p, InScope(p, n))
    BY <1>2, InScopeStays
  <2>3. CoroutineTypes
    BY TypesSplit
  <2>4. CoroutineTypes'
    BY <1>2, <1>3, <1>5, <2>1, <2>2, <2>3 DEF CoroutineTypes, Running
  <2> QED
    BY <1>2, <2>1, <2>4 DEF Believed
<1> QED
  BY <1>4, <1>5

-----------------------------------------------------------------------------
(***************************************************************************)
(* What the rest of the daemon does meanwhile.                             *)
(***************************************************************************)
Aside ==
    \/ ReserveEnds \/ ReserveTimerExpires \/ Reactivate
    \/ SetTidSent \/ DeviceMapped \/ DeviceInitialized
    \/ \E t \in Termini : \/ DeviceRequest(t) \/ DeviceReset(t)
                          \/ DeviceRemoved(t) \/ DeviceAdded(t)
                          \/ DanglingStep(t)

\* What none of it touches.
Untouched ==
    /\ pc' \in {pc, "crashed"}
    /\ UNCHANGED <<queue, l, failed, unreleased, astray, imgVars>>
    /\ u'.tid = u.tid /\ u'.updateMode = u.updateMode
    /\ u'.fdState = u.fdState /\ u'.currentComp = u.currentComp
    /\ u'.isComponentAvailableForUpdate = u.isComponentAvailableForUpdate

\* A request of a device sets fdReq only where it is for the run and expected.
LEMMA ReceiveKeeps ==
    ASSUME u \in FWUpdate, NEW t, NEW r \in Request, Receive(t, r)
    PROVE  /\ u' \in FWUpdate
           /\ u'.tid = u.tid /\ u'.updateMode = u.updateMode
           /\ u'.fdState = u.fdState /\ u'.currentComp = u.currentComp
           /\ u'.isComponentAvailableForUpdate = u.isComponentAvailableForUpdate
           /\ u'.isReserveBandwidthActive = u.isReserveBandwidthActive
           /\ \/ /\ u'.expectedCmd = u.expectedCmd
                 /\ u'.fdTransferCompleted = u.fdTransferCompleted
              \/ /\ u.expectedCmd = "RequestFirmwareData"
                 /\ u'.expectedCmd = "TransferComplete"
                 /\ u'.fdTransferCompleted
           /\ \/ u'.fdReqMatched = u.fdReqMatched /\ u'.fdReq = u.fdReq
              \/ /\ t = u.tid /\ u'.fdReqMatched /\ u'.fdReq = r
                 /\ r.cmd = u'.expectedCmd
<1> DEFINE ends == /\ u.expectedCmd = "RequestFirmwareData"
                   /\ r.cmd = "TransferComplete"
           v == IF ends THEN [u EXCEPT !.expectedCmd = "TransferComplete",
                                       !.fdTransferCompleted = TRUE]
                ELSE u
           w == [v EXCEPT !.fdReqMatched = TRUE, !.fdReq = r]
<1>1. /\ v \in FWUpdate
      /\ v.tid = u.tid /\ v.updateMode = u.updateMode
      /\ v.fdState = u.fdState /\ v.currentComp = u.currentComp
      /\ v.isComponentAvailableForUpdate = u.isComponentAvailableForUpdate
      /\ v.isReserveBandwidthActive = u.isReserveBandwidthActive
      /\ v.fdReqMatched = u.fdReqMatched /\ v.fdReq = u.fdReq
      /\ \/ /\ v.expectedCmd = u.expectedCmd
            /\ v.fdTransferCompleted = u.fdTransferCompleted
         \/ /\ u.expectedCmd = "RequestFirmwareData"
            /\ v.expectedCmd = "TransferComplete"
            /\ v.fdTransferCompleted
  <2>1. CASE ends
    <3>1. v = [u EXCEPT !.expectedCmd = "TransferComplete",
                        !.fdTransferCompleted = TRUE]
      BY <2>1
    <3>2. u.expectedCmd = "RequestFirmwareData"
      BY <2>1
    <3> HIDE DEF v, ends
    <3> QED
      BY <3>1, <3>2, CommandNames DEF FWUpdate
  <2>2. CASE ~ends
    <3>1. v = u
      BY <2>2
    <3> HIDE DEF v, ends
    <3> QED
      BY <3>1
  <2> QED
    BY <2>1, <2>2
<1>2. u' = IF t = u.tid /\ r.cmd = v.expectedCmd THEN w ELSE v
  BY Zenon DEF Receive
<1> HIDE DEF v
<1>3. /\ w \in FWUpdate
      /\ w.tid = v.tid /\ w.updateMode = v.updateMode
      /\ w.fdState = v.fdState /\ w.currentComp = v.currentComp
      /\ w.isComponentAvailableForUpdate = v.isComponentAvailableForUpdate
      /\ w.isReserveBandwidthActive = v.isReserveBandwidthActive
      /\ w.fdReqMatched /\ w.fdReq = r
      /\ w.expectedCmd = v.expectedCmd
      /\ w.fdTransferCompleted = v.fdTransferCompleted
  BY <1>1 DEF FWUpdate
<1> HIDE DEF w
<1> QED
  BY <1>1, <1>2, <1>3

\* What a device may do by itself: finish what it does and, in the end, have
\* sent ApplyComplete; or be idle again.
Goes(d, e) ==
    \/ e = IdleDevice
    \/ /\ e \in Device /\ e.st = d.st
       /\ d.fin => e.fin
       /\ d.applied => e.applied

LEMMA RequestGoes ==
    ASSUME Types, NEW t \in Termini, DeviceRequest(t)
    PROVE  /\ dev' \in [Termini -> Device]
           /\ \A s \in Termini : Goes(dev[s], dev'[s])
           /\ \E r \in Request :
                 /\ r.cmd \in Reports(t)
                 /\ r.good /\ r.cmd \in Completions => dev'[t].fin
                 /\ r.cmd = "ApplyComplete" => dev'[t].applied
                 /\ Receive(t, r) \/ u' = u
<1>1. PICK r \in [cmd : Reports(t), good : BOOLEAN] :
         /\ dev' = [dev EXCEPT ![t].fin = @ \/ (r.good /\ r.cmd \in Completions),
                               ![t].applied = @ \/ r.cmd = "ApplyComplete"]
         /\ Receive(t, r) \/ u' = u
  BY Zenon DEF DeviceRequest
<1>2. dev \in [Termini -> Device] /\ dev[t].st \in FdStates
  BY DEF Types, TypeOK, Device
<1>3. Reports(t) \subseteq FdCommands
  BY <1>2 DEF Reports, FdCommands, FdStates
<1>4. r \in Request /\ r.cmd \in Reports(t)
  BY <1>3 DEF Request
<1>5. /\ dev' \in [Termini -> Device]
      /\ \A s \in Termini \ {t} : dev'[s] = dev[s]
      /\ dev'[t].st = dev[t].st
      /\ dev'[t].fin = (dev[t].fin \/ (r.good /\ r.cmd \in Completions))
      /\ dev'[t].applied = (dev[t].applied \/ r.cmd = "ApplyComplete")
  BY <1>1, <1>2 DEF Device
<1>6. ASSUME NEW s \in Termini
      PROVE  Goes(dev[s], dev'[s])
  <2>1. dev[s] \in Device /\ dev'[s] \in Device
    BY <1>2, <1>5
  <2> QED
    BY <1>5, <2>1 DEF Goes
<1> QED
  BY <1>1, <1>4, <1>5, <1>6

\* The device has been reset or removed.
LEMMA ResetGoes ==
    ASSUME dev \in [Termini -> Device], NEW t \in Termini,
           dev' = [dev EXCEPT ![t] = IdleDevice]
    PROVE  /\ dev' \in [Termini -> Device]
           /\ \A s \in Termini : Goes(dev[s], dev'[s])
<1>1. IdleDevice \in Device
  BY DEF IdleDevice, Device, FdStates
<1> HIDE DEF IdleDevice
<1> QED
  BY <1>1 DEF Goes, Device

LEMMA StillGoes ==
    ASSUME dev \in [Termini -> Device], dev' = dev
    PROVE  /\ dev' \in [Termini -> Device]
           /\ \A s \in Termini : Goes(dev[s], dev'[s])
BY DEF Goes

LEMMA AsideKeeps ==
    ASSUME Types, Aside
    PROVE  /\ Untouched
           /\ CoroutineTypes' /\ OtherTypes'
           /\ \A t \in Termini : Goes(dev[t], dev'[t])
<1>1. CoroutineTypes /\ OtherTypes
  BY TypesSplit
<1> DEFINE Claim == /\ Untouched
                    /\ CoroutineTypes' /\ OtherTypes'
                    /\ \A t \in Termini : Goes(dev[t], dev'[t])
<1>2. ASSUME UNCHANGED <<queue, l, failed>>, u' \in FWUpdate, u'.tid = u.tid,
             pc' \in {pc, "crashed"}, chain' \in Chains,
             chain' # "none" => u.tid \in Termini,
             dangling' \in SUBSET Termini, polling' \in BOOLEAN
      PROVE  CoroutineTypes'
  <2>1. CountsAt(pc', l)
    BY <1>1, <1>2 DEF CoroutineTypes, CountsAt
  <2>2. "crashed" \notin Busy
    BY DEF Busy, Commands, Waits, Sends, Calls
  <2> QED
    BY <1>1, <1>2, <2>1, <2>2 DEF CoroutineTypes, Running
<1>3. CASE ReserveEnds
  <2>1. /\ u' \in FWUpdate /\ u'.tid = u.tid /\ u'.updateMode = u.updateMode
        /\ u'.fdState = u.fdState /\ u'.currentComp = u.currentComp
        /\ u'.isComponentAvailableForUpdate = u.isComponentAvailableForUpdate
    BY <1>1, <1>3 DEF ReserveEnds, CoroutineTypes, FWUpdate
  <2>2. Untouched
    BY <1>3, <2>1 DEF ReserveEnds, Untouched, imgVars
  <2>3. CoroutineTypes'
    BY <1>1, <1>2, <1>3, <2>1 DEF ReserveEnds, CoroutineTypes, Chains
  <2>4. reservedTID' \in Termini \cup {NoTid}
    BY <1>1, <1>3 DEF ReserveEnds, CoroutineTypes, OtherTypes
  <2>5. OtherTypes'
    BY <1>1, <1>3, <2>4 DEF ReserveEnds, OtherTypes, imgVars, terminusVars
  <2> QED
    BY <1>1, <1>3, <2>2, <2>3, <2>5, StillGoes DEF ReserveEnds, OtherTypes
<1>4. CASE ReserveTimerExpires
  <2>1. Untouched
    BY <1>4 DEF ReserveTimerExpires, Untouched, coVars, imgVars
  <2>2. CoroutineTypes'
    BY <1>1, <1>2, <1>4 DEF ReserveTimerExpires, CoroutineTypes, Chains, coVars
  <2>3. OtherTypes'
    BY <1>1, <1>4 DEF ReserveTimerExpires, OtherTypes, coVars, imgVars, terminusVars
  <2> QED
    BY <1>1, <1>4, <2>1, <2>2, <2>3, StillGoes DEF ReserveTimerExpires, OtherTypes
<1>5. CASE Reactivate
  <2>1. Untouched
    BY <1>5 DEF Reactivate, Untouched, imgVars
  <2>2. CoroutineTypes'
    BY <1>1, <1>2, <1>5 DEF Reactivate, Activated, CoroutineTypes, Chains
  <2>3. OtherTypes'
    BY <1>1, <1>5 DEF Reactivate, OtherTypes, imgVars, terminusVars
  <2> QED
    BY <1>1, <1>5, <2>1, <2>2, <2>3, StillGoes DEF Reactivate, OtherTypes
<1>6. CASE SetTidSent \/ DeviceMapped \/ DeviceInitialized
  <2>1. Untouched
    BY <1>6 DEF SetTidSent, DeviceMapped, DeviceInitialized, Untouched, coVars,
                bwVars, imgVars
  <2>2. CoroutineTypes'
    BY <1>1, <1>2, <1>6
    DEF SetTidSent, DeviceMapped, DeviceInitialized, CoroutineTypes, Chains,
        coVars, bwVars
  <2>3. mapped' \in [Termini -> BOOLEAN] /\ terminusFwuProperties' \in SUBSET Termini
    BY <1>1, <1>6 DEF SetTidSent, DeviceMapped, DeviceInitialized, OtherTypes,
       terminusVars
  <2>4. /\ setTid' \in BOOLEAN /\ initializing' \in Termini \cup {NoTid}
        /\ UNCHANGED <<imgVars, reservedTID, unreleased, astray, dev, events>>
    BY <1>1, <1>6
    DEF SetTidSent, DeviceMapped, DeviceInitialized, OtherTypes, coVars, bwVars
  <2>5. OtherTypes'
    BY <1>1, <2>3, <2>4 DEF OtherTypes, imgVars
  <2> QED
    BY <1>1, <2>1, <2>2, <2>4, <2>5, StillGoes DEF OtherTypes
<1>7. ASSUME NEW t \in Termini, DeviceRequest(t)
      PROVE  Claim
  <2>1. /\ dev' \in [Termini -> Device]
        /\ \A s \in Termini : Goes(dev[s], dev'[s])
        /\ \E r \in Request : Receive(t, r) \/ u' = u
    BY <1>7, RequestGoes
  <2>2. /\ u' \in FWUpdate /\ u'.tid = u.tid /\ u'.updateMode = u.updateMode
        /\ u'.fdState = u.fdState /\ u'.currentComp = u.currentComp
        /\ u'.isComponentAvailableForUpdate = u.isComponentAvailableForUpdate
    BY <1>1, <2>1, ReceiveKeeps DEF CoroutineTypes
  <2>3. Untouched
    BY <1>7, <2>2 DEF DeviceRequest, Untouched, bwVars
  <2>4. CoroutineTypes'
    BY <1>1, <1>2, <1>7, <2>2 DEF DeviceRequest, CoroutineTypes, bwVars
  <2>5. OtherTypes'
    BY <1>1, <1>7, <2>1 DEF DeviceRequest, OtherTypes, bwVars, imgVars, terminusVars
  <2> QED
    BY <2>1, <2>3, <2>4, <2>5
<1>8. ASSUME NEW t \in Termini, DeviceReset(t) \/ DeviceRemoved(t)
      PROVE  Claim
  <2>1. dev' \in [Termini -> Device] /\ \A s \in Termini : Goes(dev[s], dev'[s])
    BY <1>1, <1>8, ResetGoes DEF DeviceReset, DeviceRemoved, OtherTypes
  <2>2. Untouched
    BY <1>8 DEF DeviceReset, DeviceRemoved, Untouched, coVars, bwVars
  <2>3. CoroutineTypes'
    BY <1>1, <1>2, <1>8 DEF DeviceReset, DeviceRemoved, CoroutineTypes, coVars, bwVars
  <2>4. events' \in 0 .. MaxEvents
    <3>1. events \in 0 .. MaxEvents /\ MaxEvents \in Nat
      BY <1>1, FirmwareUpdateAssumption DEF OtherTypes
    <3>2. events < MaxEvents /\ events' = events + 1
      BY <1>8 DEF DeviceReset, DeviceRemoved
    <3> QED
      BY <3>1, <3>2
  <2>5. mapped' \in [Termini -> BOOLEAN] /\ terminusFwuProperties' \in SUBSET Termini
    BY <1>1, <1>8 DEF DeviceReset, DeviceRemoved, OtherTypes, terminusVars
  <2>6. UNCHANGED <<initializing, setTid, imgVars, reservedTID, unreleased, astray>>
    BY <1>8 DEF DeviceReset, DeviceRemoved, coVars, bwVars, terminusVars
  <2>7. OtherTypes'
    BY <1>1, <2>1, <2>4, <2>5, <2>6 DEF OtherTypes, imgVars
  <2> QED
    BY <2>1, <2>2, <2>3, <2>7
<1>9. ASSUME NEW t \in Termini, DeviceAdded(t)
      PROVE  Claim
  <2>1. Untouched
    BY <1>9 DEF DeviceAdded, Untouched, coVars, bwVars
  <2>2. CoroutineTypes'
    BY <1>1, <1>2, <1>9 DEF DeviceAdded, CoroutineTypes, coVars, bwVars
  <2>3. OtherTypes'
    BY <1>1, <1>9 DEF DeviceAdded, OtherTypes, coVars, bwVars, imgVars
  <2> QED
    BY <1>1, <1>9, <2>1, <2>2, <2>3, StillGoes DEF DeviceAdded, OtherTypes
<1>10. ASSUME NEW t \in Termini, DanglingStep(t)
       PROVE  Claim
  <2>1. Untouched
    BY <1>10 DEF DanglingStep, Untouched, imgVars
  <2>2. CoroutineTypes'
    BY <1>1, <1>2, <1>10 DEF DanglingStep, CoroutineTypes
  <2>3. OtherTypes'
    BY <1>1, <1>10 DEF DanglingStep, OtherTypes, imgVars, terminusVars
  <2> QED
    BY <1>1, <1>10, <2>1, <2>2, <2>3, StillGoes DEF DanglingStep, OtherTypes
<1> QED
  BY <1>3, <1>4, <1>5, <1>6, <1>7, <1>8, <1>9, <1>10 DEF Aside

-----------------------------------------------------------------------------
(***************************************************************************)
(* Every step, and the types.                                              *)
(***************************************************************************)
\* A step of the coroutine as it is in Next.
Proceeds ==
    /\ RunStep \/ BandwidthReleased
    /\ RunStep => reservedTID' = reservedTID
    /\ Unreleased /\ Astray
    /\ UNCHANGED <<terminusVars, imgVars, events>>

Starts == StartFWUpdate /\ UNCHANGED <<unreleased, astray>>

ReportsEnd == Report /\ UNCHANGED <<unreleased, astray>>

LEMMA NextKinds ==
    Next => Starts \/ Proceeds \/ ReportsEnd \/ Aside
<1>1. BandwidthReleased => ~RunStep
  BY DEF RunStep, BandwidthReleased, RequestUpdateAnswered, Delayed,
     PackageDataAwaited, PackageDataSent, DeviceMetaDataAnswered,
     ComponentPassed, ProgressReported, UpdateComponentAnswered,
     DownloadAwaited, FirmwareDataSent, TransferCompleteProcessed,
     TransferCompleteSent, VerifyAwaited, VerifyCompleteSent, ApplyAwaited,
     ApplyCompleteSent, ComponentCancelled, MetaDataAwaited, MetaDataSent,
     FirmwareActivated, ActivationAwaited, UpdateCancelled, CompletionSent
<1> QED
  BY <1>1, Zenon DEF Next, InitUpdateStep, Starts, Proceeds, ReportsEnd, Aside

LEMMA RunsWhenItSteps ==
    ASSUME RunStep \/ BandwidthReleased
    PROVE  Running
BY DEF RunStep, BandwidthReleased, RequestUpdateAnswered, Delayed,
   PackageDataAwaited, PackageDataSent, DeviceMetaDataAnswered,
   ComponentPassed, ProgressReported, UpdateComponentAnswered,
   DownloadAwaited, FirmwareDataSent, TransferCompleteProcessed,
   TransferCompleteSent, VerifyAwaited, VerifyCompleteSent, ApplyAwaited,
   ApplyCompleteSent, ComponentCancelled, MetaDataAwaited, MetaDataSent,
   FirmwareActivated, ActivationAwaited, UpdateCancelled, CompletionSent,
   Running, Busy, Commands, Waits, Sends, Calls

LEMMA Settled ==
    ASSUME Types, Believed, Proceeds
    PROVE  /\ CoroutineTypes' /\ OtherTypes' /\ Believed'
           /\ Arrived \/ Crashes
<1>1. CoroutineTypes /\ OtherTypes
  BY TypesSplit
<1>2. Running /\ u.tid \in Termini /\ queue # <<>>
  BY RunsWhenItSteps DEF Proceeds, Types
<1>3. dev' \in [Termini -> Device]
  BY DeviceMoves DEF Proceeds
<1>4. unreleased' \in BOOLEAN
  BY Zenon DEF Proceeds, Unreleased
<1>5. astray' \in BOOLEAN
  BY Zenon DEF Proceeds, Astray
<1>6. reservedTID' \in Termini \cup {NoTid}
  BY <1>1 DEF Proceeds, BandwidthReleased, OtherTypes
<1>7. OtherTypes'
  BY <1>1, <1>3, <1>4, <1>5, <1>6 DEF Proceeds, OtherTypes, terminusVars, imgVars
<1>8. Arrived \/ Crashes
  BY StepsArrive DEF Proceeds
<1>9. CASE Arrived
  BY <1>2, <1>7, <1>9, ArrivedTypes
<1>10. CASE Crashes
  <2>1. CountsAt("crashed", l) /\ BelievedAt("crashed", u)
    BY DEF CountsAt, BelievedAt, Early
  <2>2. "crashed" \notin Busy
    BY DEF Busy, Commands, Waits, Sends, Calls
  <2> QED
    BY <1>1, <1>7, <1>10, <2>1, <2>2 DEF Crashes, CoroutineTypes, Running, Believed
<1> QED
  BY <1>8, <1>9, <1>10

LEMMA Started ==
    ASSUME Types, Starts
    PROVE  /\ CoroutineTypes' /\ OtherTypes' /\ Believed'
           /\ Over(u, chain)
<1>1. CoroutineTypes /\ OtherTypes
  BY TypesSplit
<1>2. PICK q \in SeqOf(terminusFwuProperties, MaxEvents - events) :
         /\ events' = events + Max({1, Len(q)})
         /\ NextTerminus(q, u, chain)
  BY DEF Starts, StartFWUpdate
<1>3. MaxEvents \in Nat /\ events \in 0 .. MaxEvents /\ events < MaxEvents
  BY <1>1, FirmwareUpdateAssumption DEF OtherTypes, Starts, StartFWUpdate
<1>4. PICK k \in 0 .. MaxEvents - events : q \in [1 .. k -> terminusFwuProperties]
  BY <1>2 DEF SeqOf
<1>5. q \in Seq(Termini) /\ Len(q) = k
  <2>1. q \in [1 .. k -> Termini] /\ k \in Nat
    BY <1>1, <1>3, <1>4 DEF OtherTypes
  <2> QED
    BY <2>1, SeqDef, LenProperties
<1>6. Over(u, chain)
  BY <1>2, <1>5, NextTerminusIsOver
<1>7. events' \in 0 .. MaxEvents
  <2> DEFINE S == {1, Len(q)}
  <2>1. \E x \in S : \A y \in S : x >= y
    BY <1>4, <1>5
  <2>2. Max(S) \in S
    BY <2>1, Zenon DEF Max
  <2> QED
    BY <1>2, <1>3, <1>4, <1>5, <2>2
<1>8. CoroutineTypes' /\ Believed'
  <2>1. l' = NoLocals /\ failed' \in BOOLEAN
    BY DEF Starts, StartFWUpdate
  <2>2. u \in FWUpdate /\ chain \in Chains /\ (chain # "none" => u.tid \in Termini)
    BY <1>1 DEF CoroutineTypes
  <2> QED
    BY <1>6, <2>1, <2>2, OverTypes
<1>9. OtherTypes'
  BY <1>1, <1>7 DEF OtherTypes, Starts, StartFWUpdate, terminusVars
<1> QED
  BY <1>6, <1>8, <1>9

LEMMA Idle ==
    ASSUME Types, ReportsEnd
    PROVE  CoroutineTypes' /\ OtherTypes' /\ Believed'
<1>1. CoroutineTypes /\ OtherTypes
  BY TypesSplit
<1>2. pc' = "idle" /\ "idle" \notin Busy
  BY DEF ReportsEnd, Report, Busy, Commands, Waits, Sends, Calls
<1>3. CoroutineTypes'
  BY <1>1, <1>2 DEF CoroutineTypes, ReportsEnd, Report, CountsAt, Running
<1>4. OtherTypes'
  BY <1>1 DEF OtherTypes, ReportsEnd, Report, terminusVars
<1>5. Believed'
  BY <1>2 DEF Believed, BelievedAt, Early
<1> QED
  BY <1>3, <1>4, <1>5

LEMMA TypesStep ==
    ASSUME Types, Believed, [Next]_vars
    PROVE  Types' /\ Believed'
<1>1. ASSUME CoroutineTypes', OtherTypes'
      PROVE  Types'
  <2>1. (CoroutineTypes /\ OtherTypes => Types)'
    BY TypesSplit, PTL
  <2> QED
    BY <1>1, <2>1
<1>2. CASE Starts
  BY <1>1, <1>2, Started
<1>3. CASE Proceeds
  BY <1>1, <1>3, Settled
<1>4. CASE ReportsEnd
  BY <1>1, <1>4, Idle
<1>5. CASE Aside
  <2>1. Untouched /\ CoroutineTypes' /\ OtherTypes'
    BY <1>5, AsideKeeps
  <2>2. Believed'
    BY <2>1 DEF Untouched, Believed, BelievedAt, Early
  <2> QED
    BY <1>1, <2>1, <2>2
<1>6. CASE UNCHANGED vars
  <2>1. Types'
    BY <1>6 DEF vars, coVars, bwVars, terminusVars, imgVars, Types, TypeOK,
       CountsAt, Running
  <2>2. Believed'
    BY <1>6 DEF vars, coVars, Believed, BelievedAt
  <2> QED
    BY <2>1, <2>2
<1> QED
  BY <1>2, <1>3, <1>4, <1>5, <1>6, NextKinds

LEMMA TypesInit ==
    Init => Types /\ Believed
<1> SUFFICES ASSUME Init
             PROVE  Types /\ Believed
  OBVIOUS
<1>1. NewFWUpdate(NoTid, "none") \in FWUpdate
  BY NewFWUpdateIsSound
<1>2. <<>> \in Seq(Termini) /\ NoLocals \in Locals
  BY EmptySeq, NoLocalsFit
<1>3. dev \in [Termini -> Device]
  BY DEF Init, IdleDevice, Device, FdStates
<1>4. 0 \in 0 .. MaxEvents
  BY FirmwareUpdateAssumption
<1>5. pc = "idle" /\ "idle" \notin Busy
  BY DEF Init, Busy, Commands, Waits, Sends, Calls
<1>6. CoroutineTypes
  BY <1>1, <1>2, <1>5 DEF CoroutineTypes, Init, Chains, CountsAt, Running
<1>7. OtherTypes
  BY <1>3, <1>4 DEF OtherTypes, Init
<1>8. Believed
  BY <1>5 DEF Believed, BelievedAt, Early
<1> QED
  BY <1>6, <1>7, <1>8, TypesSplit

\* Every variable stays in its type, and fdState is where the coroutine waits
\* what the code has set on every way to it.
THEOREM TypeCorrect == Spec => [](TypeOK /\ Believed)
<1>1. Init => Types /\ Believed
  BY TypesInit
<1>2. Types /\ Believed /\ [Next]_vars => Types' /\ Believed'
  BY TypesStep
<1>3. Types => TypeOK
  BY DEF Types
<1> QED
  BY <1>1, <1>2, <1>3, PTL DEF Spec

-----------------------------------------------------------------------------
(***************************************************************************)
(* The polling of the sensors.                                             *)
(***************************************************************************)
\* Where a step has arrived, or that the run is over.
LEMMA ArrivedOrOver ==
    ASSUME Types, Believed, Proceeds, Arrived
    PROVE  \E p, w, n, c :
              /\ Arrives(p, w, n, c)
              /\ \/ /\ p # "over" /\ pc' = p /\ u' = w /\ l' = InScope(p, n)
                    /\ chain' = c
                    /\ UNCHANGED <<queue, failed, polling, dangling>>
                 \/ p = "over" /\ Over(w, c)
<1>1. PICK p, w, n, c : Arrives(p, w, n, c)
  BY DEF Arrived
<1>2. CASE p = "over"
  <2>1. queue \in Seq(Termini) /\ queue # <<>> /\ failed \in BOOLEAN
    BY RunsWhenItSteps DEF Proceeds, Types, TypeOK
  <2>2. PICK s \in BOOLEAN : EndOfRun(w, s, c)
    BY <1>1, <1>2 DEF Arrives
  <2>3. Over(w, c)
    BY <2>1, <2>2, EndOfRunIsOver
  <2> QED
    BY <1>1, <1>2, <2>3
<1>3. CASE p # "over"
  <2>1. Await(p, w, n, c)
    BY <1>1, <1>3 DEF Arrives
  <2>2. /\ pc' = p /\ u' = w /\ l' = InScope(p, n) /\ chain' = c
        /\ UNCHANGED <<queue, failed, polling, dangling>>
    BY <2>1 DEF Await
  <2> QED
    BY <1>1, <1>3, <2>2
<1> QED
  BY <1>2, <1>3

LEMMA Places ==
    /\ {"report", "idle", "crashed", "over"} \cap Busy = {}
    /\ "RequestUpdate" \in Busy
BY DEF Busy, Commands, Waits, Sends, Calls

LEMMA PollingStep ==
    ASSUME Types, Believed, PollingKept, [Next]_vars
    PROVE  PollingKept'
<1>1. ASSUME NEW v, NEW ch, Over(v, ch), pldmImg',
             pldmImg \/ polling \/ initializing' # NoTid
      PROVE  PollingKept'
  BY <1>1, Places DEF Over, PollingKept, Running
<1>2. CASE Starts
  <2>1. /\ Over(u, chain) /\ pldmImg' /\ ~pldmImg
        /\ initializing' = initializing
    BY <1>2, Started DEF Starts, StartFWUpdate, terminusVars
  <2> QED
    BY <1>1, <2>1 DEF PollingKept
<1>3. CASE Proceeds
  <2>1. pldmImg /\ pldmImg' = pldmImg /\ initializing' = initializing
    BY <1>3, RunsWhenItSteps DEF PollingKept, Proceeds, imgVars, terminusVars
  <2>2. CASE Arrived
    <3>1. \/ pc' \in Busy
          \/ \E w, c : Over(w, c)
      BY <1>3, <2>2, ArrivedOrOver DEF Arrives, Reaches
    <3>2. CASE pc' \in Busy
      BY <2>1, <3>2, Places DEF PollingKept, Running
    <3> QED
      BY <1>1, <2>1, <3>1, <3>2
  <2>3. CASE Crashes
    BY <2>1, <2>3, Places DEF Crashes, PollingKept, Running
  <2> QED
    BY <1>3, <2>2, <2>3, Settled
<1>4. CASE ReportsEnd
  BY <1>4, Places DEF ReportsEnd, Report, PollingKept, Running, terminusVars
<1>5. CASE Aside
  <2>1. Untouched
    BY <1>5, AsideKeeps
  <2>2. /\ Running' => Running
        /\ pc' = "report" => pc = "report"
        /\ pc' = "idle" => pc = "idle"
        /\ pldmImg' = pldmImg
    BY <2>1, Places DEF Untouched, Running, imgVars
  <2>3. ASSUME initializing' = NoTid
        PROVE  polling' \/ (polling' = polling /\ initializing = NoTid)
    <3>1. NoTid \notin Termini
      BY FirmwareUpdateAssumption
    <3> QED
      BY <1>5, <2>3, <3>1
      DEF Aside, ReserveEnds, ReserveTimerExpires, Reactivate, SetTidSent,
          DeviceMapped, DeviceInitialized, DeviceRequest, DeviceReset,
          DeviceRemoved, DeviceAdded, DanglingStep, terminusVars
  <2> QED
    BY <2>2, <2>3 DEF PollingKept
<1>6. CASE UNCHANGED vars
  BY <1>6 DEF vars, coVars, terminusVars, imgVars, PollingKept, Running
<1> QED
  BY <1>2, <1>3, <1>4, <1>5, <1>6, NextKinds

\* The polling that an update or an initialisation has paused is resumed:
\* every end of initUpdate passes the line that does it.
THEOREM PollingIsResumed == Spec => []PollingResumes
<1>1. Init => Types /\ Believed /\ PollingKept
  <2>1. Init => PollingKept
    BY Places DEF Init, PollingKept, Running
  <2> QED
    BY <2>1, TypesInit
<1>2. Types /\ Believed /\ PollingKept /\ [Next]_vars
      => Types' /\ Believed' /\ PollingKept'
  BY TypesStep, PollingStep
<1>3. PollingKept => PollingResumes
  BY DEF PollingKept, PollingResumes
<1> QED
  BY <1>1, <1>2, <1>3, PTL DEF Spec
-----------------------------------------------------------------------------
(***************************************************************************)
(* The bandwidth.                                                          *)
(***************************************************************************)
\* A step of the coroutine that has been heard leaves it reserved by the run
\* that goes on, or by none.
LEMMA ArrivedReserved ==
    ASSUME Types, Believed, Proceeds, Arrived, Reserved, ~unreleased'
    PROVE  Reserved'
<1>1. PICK p, w, n, c :
         /\ Arrives(p, w, n, c)
         /\ \/ /\ p # "over" /\ pc' = p /\ u' = w /\ l' = InScope(p, n)
               /\ chain' = c
               /\ UNCHANGED <<queue, failed, polling, dangling>>
            \/ p = "over" /\ Over(w, c)
  BY ArrivedOrOver
<1>2. Running /\ pc \in Busy
  BY RunsWhenItSteps DEF Proceeds, Running
<1>3. u \in FWUpdate /\ w \in FWUpdate /\ w.tid = u.tid /\ u.tid \in Termini
  BY <1>1, <1>2 DEF Types, TypeOK, Arrives, Own
<1>4. ASSUME NEW t, NEW cmd
      PROVE  ~NewFWUpdate(t, cmd).isReserveBandwidthActive
  BY DEF NewFWUpdate
<1>5. /\ pc \in Releasing => reservedTID' = NoTid
      /\ u.isReserveBandwidthActive /\ ~u'.isReserveBandwidthActive =>
            mapped[u.tid]
      /\ pc' \in Releasing \cup {"ActivateFirmware", "RequestUpdate", "report"} =>
            chain \notin {"reserving", "fired"}
  BY DEF Proceeds, Unreleased, Releasing
<1>6. pc \notin Releasing => reservedTID' = reservedTID
  BY DEF Proceeds, BandwidthReleased, Releasing
<1>7. /\ reservedTID \in {NoTid, u.tid} /\ dangling = {}
      /\ pc \notin Releasing =>
            (u.isReserveBandwidthActive <=> reservedTID # NoTid)
      /\ pc \in Unreserved => ~u.isReserveBandwidthActive /\ chain = "none"
      /\ chain \in {"armed", "fired"} => u.isReserveBandwidthActive
  BY DEF Reserved, Releasing
<1>8. /\ Releasing \subseteq Unreserved
      /\ p \in Unreserved =>
            p \in Releasing \cup {"ActivateFirmware", "RequestUpdate", "delay",
                                  "activated", "report", "idle"}
      /\ {"report", "idle"} \cap Busy = {}
      /\ {"RequestUpdate", "delay", "ActivateFirmware"} \subseteq Unreserved
  BY DEF Releasing, Unreserved, Busy, Commands, Waits, Sends, Calls
<1>9. /\ p \in {"over", "ActivateFirmware"} => ~w.isReserveBandwidthActive
      /\ p = "delay" => pc = "RequestUpdate"
      /\ p = "RequestUpdate" => pc = "RequestUpdate"
      /\ p = "activated" => pc = "ActivateFirmware"
      /\ p \in Busy \cup {"over"}
  BY <1>1, <1>7 DEF Arrives, Reaches
<1>10. chain \in Chains
  BY DEF Types, TypeOK, Chains
<1>11. p = "over" => ~u'.isReserveBandwidthActive
                     /\ pc' \in {"report", "RequestUpdate"}
  BY <1>1, <1>4, <1>9 DEF Over
<1>12. ASSUME ~w.isReserveBandwidthActive, reservedTID' = NoTid, c = "none"
       PROVE  Reserved'
  <2>1. dangling' = {} /\ chain' = "none" /\ ~u'.isReserveBandwidthActive
    BY <1>1, <1>4, <1>7, <1>12 DEF Over
  <2> QED
    BY <1>12, <2>1 DEF Reserved
<1>13. CASE /\ w.isReserveBandwidthActive = u.isReserveBandwidthActive
            /\ c = chain /\ p \notin Releasing
  <2>1. CASE pc \in Unreserved
    <3>1. ~w.isReserveBandwidthActive /\ c = "none"
      BY <1>7, <1>13, <2>1
    <3>2. reservedTID' = NoTid
      BY <1>5, <1>6, <1>7, <2>1
    <3> QED
      BY <1>12, <3>1, <3>2
  <2>2. CASE pc \notin Unreserved
    <3>1. pc \notin Releasing /\ reservedTID' = reservedTID
      BY <1>6, <1>8, <2>2
    <3>2. CASE p \in {"over", "ActivateFirmware"}
      <4>1. ~u.isReserveBandwidthActive /\ reservedTID' = NoTid
        BY <1>7, <1>9, <1>13, <3>1, <3>2
      <4>2. chain \notin {"reserving", "fired"}
        BY <1>1, <1>5, <1>11, <3>2
      <4>3. c = "none"
        BY <1>7, <1>10, <1>13, <4>1, <4>2 DEF Chains
      <4> QED
        BY <1>9, <1>12, <3>2, <4>1, <4>3
    <3>3. CASE p \notin {"over", "ActivateFirmware"}
      <4>1. p \notin Unreserved
        BY <1>8, <1>9, <1>13, <2>2, <3>3
      <4>2. /\ pc' = p /\ u' = w /\ chain' = chain /\ dangling' = dangling
        BY <1>1, <1>13, <3>3
      <4> QED
        BY <1>3, <1>7, <1>13, <3>1, <4>1, <4>2 DEF Reserved, Releasing
    <3> QED
      BY <3>2, <3>3
  <2> QED
    BY <2>1, <2>2
<1>14. CASE /\ u.isReserveBandwidthActive /\ ~w.isReserveBandwidthActive
            /\ c = TimerCancelled(chain)
            /\ p \in Releasing <=> Releases(u)
  <2>1. pc \notin Releasing /\ reservedTID' = reservedTID /\ reservedTID = u.tid
    BY <1>6, <1>7, <1>8, <1>14
  <2>2. ~u'.isReserveBandwidthActive
    BY <1>1, <1>11, <1>14
  <2>3. p \in Releasing
    BY <1>5, <1>14, <2>1, <2>2 DEF Releases
  <2>4. /\ pc' = p /\ u' = w /\ chain' = c /\ dangling' = dangling
    BY <1>1, <2>3 DEF Releasing
  <2>5. c = "none"
    BY <1>5, <1>10, <1>14, <2>3, <2>4 DEF TimerCancelled, Chains
  <2> QED
    BY <1>3, <1>7, <2>1, <2>2, <2>3, <2>4, <2>5 DEF Reserved, Releasing
<1>15. CASE /\ pc = "delay" /\ c = Activated
            /\ w.isReserveBandwidthActive = u.isReserveBandwidthActive
            /\ p \in {"packageData", "CancelUpdate", "GetDeviceMetaData",
                      "PassComponentTable"}
  <2>1. ~u.isReserveBandwidthActive /\ reservedTID' = NoTid
    BY <1>6, <1>7, <1>8, <1>15 DEF Releasing
  <2>2. c \in {"none", "reserving"}
    BY <1>15 DEF Activated
  <2>3. pc' = p /\ u' = w /\ chain' = c /\ dangling' = dangling
    BY <1>1, <1>15
  <2> QED
    BY <1>7, <1>15, <2>1, <2>2, <2>3 DEF Reserved, Unreserved
<1> QED
  BY <1>1, <1>13, <1>14, <1>15 DEF Arrives, Released

LEMMA BandwidthStep ==
    ASSUME Types, Believed, BandwidthKept, [Next]_vars
    PROVE  BandwidthKept'
<1>1. CASE unreleased' \/ pc' = "crashed"
  BY <1>1 DEF BandwidthKept
<1> SUFFICES ASSUME ~unreleased', pc' # "crashed"
             PROVE  BandwidthKept'
  BY <1>1
<1>2. CASE Starts
  <2>1. Over(u, chain) /\ reservedTID' = reservedTID
    BY <1>2, Started DEF Starts, StartFWUpdate
  <2>2. Reserved /\ pc = "idle"
    BY <1>2 DEF Starts, StartFWUpdate, BandwidthKept
  <2>3. /\ reservedTID = NoTid /\ chain = "none" /\ dangling = {}
        /\ ~u.isReserveBandwidthActive
    BY <2>2 DEF Reserved, Unreserved
  <2>4. ASSUME NEW t, NEW cmd
        PROVE  ~NewFWUpdate(t, cmd).isReserveBandwidthActive
    BY DEF NewFWUpdate
  <2>5. dangling' = {} /\ chain' = "none" /\ ~u'.isReserveBandwidthActive
    BY <2>1, <2>3, <2>4 DEF Over
  <2> QED
    BY <2>1, <2>3, <2>5 DEF BandwidthKept, Reserved
<1>3. CASE Proceeds
  <2>1. ~Crashes /\ ~unreleased
    BY <1>3 DEF Crashes, Proceeds, Unreleased
  <2>2. pc # "crashed"
    BY <1>3, RunsWhenItSteps, Places DEF Proceeds, Running
  <2>3. Reserved /\ Arrived
    BY <1>3, <2>1, <2>2, Settled DEF BandwidthKept
  <2> QED
    BY <1>3, <2>3, ArrivedReserved DEF BandwidthKept
<1>4. CASE ReportsEnd
  <2>1. Reserved /\ pc' = "idle" /\ pc = "report"
    BY <1>4 DEF ReportsEnd, Report, BandwidthKept
  <2>2. UNCHANGED <<u, chain, dangling, reservedTID>>
    BY <1>4 DEF ReportsEnd, Report
  <2> QED
    BY <2>1, <2>2 DEF BandwidthKept, Reserved, Unreserved
<1>5. CASE Aside
  <2>1. Untouched
    BY <1>5, AsideKeeps
  <2>2. u'.tid = u.tid /\ pc' = pc /\ ~unreleased
    BY <2>1 DEF Untouched
  <2>3. Reserved
    BY <2>2 DEF BandwidthKept
  <2>4. u \in FWUpdate
    BY DEF Types, TypeOK
  <2>5. CASE ReserveEnds
    <3>1. pc \notin Unreserved /\ chain = "reserving" /\ dangling' = dangling
      BY <2>3, <2>5 DEF Reserved, ReserveEnds
    <3>2. CASE /\ reservedTID' = u.tid /\ chain' = "armed"
               /\ u' = [u EXCEPT !.isReserveBandwidthActive = TRUE]
      <4>1. u'.isReserveBandwidthActive /\ u.tid # NoTid
        BY <2>4, <3>1, <3>2, FirmwareUpdateAssumption DEF FWUpdate, Types
      <4> QED
        BY <2>2, <2>3, <3>1, <3>2, <4>1 DEF BandwidthKept, Reserved
    <3>3. CASE chain' = "none" /\ UNCHANGED <<reservedTID, u>>
      BY <2>2, <2>3, <3>1, <3>3 DEF BandwidthKept, Reserved
    <3> QED
      BY <2>5, <3>2, <3>3 DEF ReserveEnds
  <2>6. CASE ReserveTimerExpires
    BY <2>2, <2>3, <2>6 DEF BandwidthKept, Reserved, ReserveTimerExpires, coVars
  <2>7. CASE Reactivate
    BY <2>2, <2>3, <2>7 DEF BandwidthKept, Reserved, Reactivate, Activated
  <2>8. ASSUME NEW t \in Termini, DanglingStep(t)
        PROVE  FALSE
    BY <2>3, <2>8 DEF Reserved, DanglingStep
  <2>9. CASE \E t \in Termini : DeviceRequest(t)
    <3>1. PICK t \in Termini : DeviceRequest(t)
      BY <2>9
    <3>2. \E r \in Request : Receive(t, r) \/ u' = u
      BY <3>1, RequestGoes
    <3>3. u'.isReserveBandwidthActive = u.isReserveBandwidthActive
      BY <2>4, <3>2, ReceiveKeeps
    <3>4. UNCHANGED <<chain, dangling, reservedTID>>
      BY <3>1 DEF DeviceRequest, bwVars
    <3> QED
      BY <2>2, <2>3, <3>3, <3>4 DEF BandwidthKept, Reserved
  <2>10. CASE \/ SetTidSent \/ DeviceMapped \/ DeviceInitialized
              \/ \E t \in Termini : \/ DeviceReset(t) \/ DeviceRemoved(t)
                                    \/ DeviceAdded(t)
    <3>1. UNCHANGED <<u, chain, dangling, reservedTID>>
      BY <2>10 DEF SetTidSent, DeviceMapped, DeviceInitialized, DeviceReset,
         DeviceRemoved, DeviceAdded, coVars, bwVars
    <3> QED
      BY <2>2, <2>3, <3>1 DEF BandwidthKept, Reserved
  <2> QED
    BY <1>5, <2>5, <2>6, <2>7, <2>8, <2>9, <2>10 DEF Aside
<1>6. CASE UNCHANGED vars
  BY <1>6 DEF vars, coVars, bwVars, BandwidthKept, Reserved
<1> QED
  BY <1>2, <1>3, <1>4, <1>5, <1>6, NextKinds

\* Where mctpd has heard every release, and none was said while a reservation
\* was under way, only the terminus that is updated has the bandwidth, and
\* nobody has it between two runs.
THEOREM BandwidthComesBack == Spec => []BandwidthReturned
<1>1. Init => Types /\ Believed /\ BandwidthKept
  <2>1. Init => BandwidthKept
    BY DEF Init, BandwidthKept, Reserved, NewFWUpdate
  <2> QED
    BY <2>1, TypesInit
<1>2. Types /\ Believed /\ BandwidthKept /\ [Next]_vars
      => Types' /\ Believed' /\ BandwidthKept'
  BY TypesStep, BandwidthStep
<1>3. BandwidthKept => BandwidthReturned
  BY DEF BandwidthKept, Reserved, BandwidthReturned, Unreserved
<1> QED
  BY <1>1, <1>2, <1>3, PTL DEF Spec
-----------------------------------------------------------------------------
(***************************************************************************)
(* What counts as applied.                                                 *)
(***************************************************************************)
\* Outside the coroutine fdReq is set by the request of a device that has
\* something to report, and is otherwise left alone.
Quiet ==
    /\ u'.expectedCmd = u.expectedCmd
    /\ u'.fdTransferCompleted = u.fdTransferCompleted
    /\ u'.fdReqMatched = u.fdReqMatched /\ u'.fdReq = u.fdReq

\* The command that the device is to report, the success of which it means.
Heard ==
    /\ u.tid \in Termini
    /\ u'.fdReqMatched /\ u'.fdReq.cmd = u'.expectedCmd
    /\ u'.fdReq.cmd = "ApplyComplete" => dev'[u.tid].applied
    /\ u'.fdReq.cmd \in Completions /\ u'.fdReq.good =>
          \/ dev'[u.tid].st = "IDLE"
          \/ dev'[u.tid].fin /\ dev'[u.tid].st = Doing(u'.fdReq.cmd)

LEMMA AsideHears ==
    ASSUME Types, Aside
    PROVE  \/ Quiet
           \/ /\ \/ /\ u'.expectedCmd = u.expectedCmd
                    /\ u'.fdTransferCompleted = u.fdTransferCompleted
                 \/ /\ u.expectedCmd = "RequestFirmwareData"
                    /\ u'.expectedCmd = "TransferComplete"
                    /\ u'.fdTransferCompleted
              /\ \/ u'.fdReqMatched = u.fdReqMatched /\ u'.fdReq = u.fdReq
                 \/ Heard
<1>1. u \in FWUpdate
  BY DEF Types, TypeOK
<1>2. CASE \E t \in Termini : DeviceRequest(t)
  <2>1. PICK t \in Termini : DeviceRequest(t)
    BY <1>2
  <2>2. PICK r \in Request :
           /\ r.cmd \in Reports(t)
           /\ r.good /\ r.cmd \in Completions => dev'[t].fin
           /\ r.cmd = "ApplyComplete" => dev'[t].applied
           /\ Receive(t, r) \/ u' = u
    BY <2>1, RequestGoes
  <2>3. CASE u' = u
    BY <2>3 DEF Quiet
  <2>4. CASE Receive(t, r)
    <3>1. /\ \/ /\ u'.expectedCmd = u.expectedCmd
                /\ u'.fdTransferCompleted = u.fdTransferCompleted
             \/ /\ u.expectedCmd = "RequestFirmwareData"
                /\ u'.expectedCmd = "TransferComplete"
                /\ u'.fdTransferCompleted
          /\ \/ u'.fdReqMatched = u.fdReqMatched /\ u'.fdReq = u.fdReq
             \/ /\ t = u.tid /\ u'.fdReqMatched /\ u'.fdReq = r
                /\ r.cmd = u'.expectedCmd
      BY <1>1, <2>4, ReceiveKeeps
    <3>2. ASSUME t = u.tid, u'.fdReqMatched, u'.fdReq = r,
                 r.cmd = u'.expectedCmd
          PROVE  Heard
      <4>1. dev[t].st \in FdStates
        BY DEF Types, TypeOK, Device
      <4>2. r.cmd \in Completions => dev[t].st = Doing(r.cmd)
        BY <2>2, <4>1 DEF Reports, Completions, Doing, FdStates
      <4>3. dev'[t].st \in {dev[t].st, "IDLE"}
        BY <2>1, RequestGoes DEF Goes, IdleDevice
      <4> QED
        BY <2>2, <3>2, <4>2, <4>3 DEF Heard
    <3> QED
      BY <3>1, <3>2
  <2> QED
    BY <2>2, <2>3, <2>4
<1>3. CASE ReserveEnds
  BY <1>1, <1>3 DEF ReserveEnds, Quiet, FWUpdate
<1>4. CASE \/ ReserveTimerExpires \/ Reactivate
           \/ SetTidSent \/ DeviceMapped \/ DeviceInitialized
           \/ \E t \in Termini : \/ DeviceReset(t) \/ DeviceRemoved(t)
                                 \/ DeviceAdded(t) \/ DanglingStep(t)
  <2>1. u' = u
    BY <1>4 DEF ReserveTimerExpires, Reactivate, SetTidSent, DeviceMapped,
       DeviceInitialized, DeviceReset, DeviceRemoved, DeviceAdded,
       DanglingStep, coVars
  <2> QED
    BY <2>1 DEF Quiet
<1> QED
  BY <1>2, <1>3, <1>4 DEF Aside

LEMMA AppliedProceeds ==
    ASSUME Types, Believed, OnlyApplied, Proceeds
    PROVE  OnlyApplied'
<1>1. /\ u.tid \in Termini /\ dev \in [Termini -> Device]
      /\ \/ dev' = dev \/ pc = "RequestUpdate"
         \/ /\ dev[u.tid].st # "IDLE"
            /\ dev'[u.tid].applied = dev[u.tid].applied
  BY DeviceMoves DEF Proceeds, Types, TypeOK
<1>2. ASSUME Applied, pc # "RequestUpdate"
      PROVE  dev'[u.tid].st = "IDLE" \/ dev'[u.tid].applied
  BY <1>1, <1>2 DEF Applied
<1>3. CASE Crashes
  BY <1>2, <1>3 DEF Crashes, OnlyApplied, Applied, Completing
<1>4. CASE Arrived
  <2>1. PICK p, w, n, c :
           /\ Arrives(p, w, n, c)
           /\ \/ /\ p # "over" /\ pc' = p /\ u' = w /\ l' = InScope(p, n)
                 /\ chain' = c
                 /\ UNCHANGED <<queue, failed, polling, dangling>>
              \/ p = "over" /\ Over(w, c)
    BY <1>4, ArrivedOrOver
  <2>2. w.isComponentAvailableForUpdate =>
           /\ pc # "RequestUpdate" /\ w.tid \in Termini
           /\ dev'[w.tid].st = "IDLE" \/ dev'[w.tid].applied
    BY <1>1, <1>2, <2>1 DEF Arrives, Own, OnlyApplied
  <2>3. CASE p = "over"
    <3>1. pc' \in {"report", "RequestUpdate"}
      BY <2>1, <2>3 DEF Over
    <3>2. \/ pc' = "report" /\ u' = w
          \/ ~u'.isComponentAvailableForUpdate
      BY <2>1, <2>3 DEF Over, NewFWUpdate
    <3> QED
      BY <2>2, <3>1, <3>2 DEF OnlyApplied, Applied, Completing
  <2>4. CASE p # "over"
    <3>1. pc' = p /\ u' = w /\ l' = InScope(p, n) /\ n \in Locals
      BY <2>1, <2>4 DEF Arrives, Reaches
    <3>2. p = "RequestUpdate" => pc = "RequestUpdate"
      BY <2>1 DEF Arrives, Reaches
    <3>3. p = "ActivateFirmware" => w.isComponentAvailableForUpdate
      BY <2>1 DEF Arrives, Reaches
    <3>4. ASSUME p \in Completing, w.fdReqMatched, w.fdReq.cmd = "ApplyComplete"
          PROVE  dev'[w.tid].st = "IDLE" \/ dev'[w.tid].applied
      <4>1. /\ pc \in Completing /\ u.fdReqMatched /\ w.tid = u.tid
            /\ w.fdReq \in {u.fdReq, Cleared}
        BY <2>1, <3>4 DEF Arrives, Reaches, Own
      <4>2. u.fdReq.cmd = "ApplyComplete"
        BY <3>4, <4>1 DEF Cleared
      <4> QED
        BY <1>2, <4>1, <4>2 DEF OnlyApplied, Completing
    <3>5. ASSUME p = "sendApplyComplete", l'.result # "undecodable"
          PROVE  dev'[w.tid].st = "IDLE" \/ dev'[w.tid].applied
      <4>1. n.result # "undecodable"
        BY <3>1, <3>5, InScopeStays DEF Sends
      <4>2. /\ pc = "apply" /\ u.fdReqMatched /\ u.fdReq.cmd = "ApplyComplete"
            /\ w.tid = u.tid
        BY <2>1, <3>5, <4>1 DEF Arrives, Reaches, Own
      <4> QED
        BY <1>2, <4>2 DEF OnlyApplied, Completing
    <3> QED
      BY <2>2, <3>1, <3>2, <3>3, <3>4, <3>5 DEF OnlyApplied, Applied
  <2> QED
    BY <2>3, <2>4
<1> QED
  BY <1>3, <1>4, Settled

LEMMA AppliedStep ==
    ASSUME Types, Believed, OnlyApplied, [Next]_vars
    PROVE  OnlyApplied'
<1>1. CASE Starts
  <2>1. Over(u, chain) /\ dev' = dev
    BY <1>1, Started DEF Starts, StartFWUpdate
  <2>2. pc' \in {"report", "RequestUpdate"}
    BY <2>1 DEF Over
  <2>3. \/ pc' = "report" /\ u' = u
        \/ ~u'.isComponentAvailableForUpdate
    BY <2>1 DEF Over, NewFWUpdate
  <2> QED
    BY <2>1, <2>2, <2>3 DEF OnlyApplied, Applied, Completing
<1>2. CASE Proceeds
  BY <1>2, AppliedProceeds
<1>3. CASE ReportsEnd
  BY <1>3 DEF ReportsEnd, Report, OnlyApplied, Applied, Completing
<1>4. CASE Aside
  <2>1. Untouched /\ \A t \in Termini : Goes(dev[t], dev'[t])
    BY <1>4, AsideKeeps
  <2>2. u.tid \in Termini /\ Applied => Applied'
    BY <2>1 DEF Untouched, Applied, Goes, IdleDevice
  <2>3. Running => u.tid \in Termini
    BY DEF Types
  <2>4. Completing \cup {"sendApplyComplete"} \subseteq Busy
    BY DEF Completing, Busy, Waits, Sends, Calls
  <2>5. /\ u'.isComponentAvailableForUpdate = u.isComponentAvailableForUpdate
        /\ pc' \in {pc, "crashed"} /\ l' = l /\ u'.tid = u.tid
    BY <2>1 DEF Untouched
  <2>6. /\ u'.isComponentAvailableForUpdate =>
              u'.tid \in Termini /\ pc' # "RequestUpdate" /\ Applied'
        /\ pc' = "ActivateFirmware" => u'.isComponentAvailableForUpdate
        /\ pc' = "sendApplyComplete" /\ l'.result # "undecodable" => Applied'
    BY <2>2, <2>3, <2>4, <2>5 DEF OnlyApplied, Running
  <2>7. ASSUME pc' \in Completing, u'.fdReqMatched, u'.fdReq.cmd = "ApplyComplete"
        PROVE  Applied'
    <3>1. pc \in Completing /\ u.tid \in Termini
      BY <2>3, <2>4, <2>5, <2>7 DEF Completing, Running
    <3>2. \/ u'.fdReqMatched = u.fdReqMatched /\ u'.fdReq = u.fdReq
          \/ Heard
      BY <1>4, AsideHears DEF Quiet
    <3>3. CASE u'.fdReqMatched = u.fdReqMatched /\ u'.fdReq = u.fdReq
      BY <2>2, <2>7, <3>1, <3>3 DEF OnlyApplied
    <3>4. CASE Heard
      BY <2>5, <2>7, <3>4 DEF Heard, Applied
    <3> QED
      BY <3>2, <3>3, <3>4
  <2> QED
    BY <2>6, <2>7 DEF OnlyApplied
<1>5. CASE UNCHANGED vars
  BY <1>5 DEF vars, coVars, OnlyApplied, Applied
<1> QED
  BY <1>1, <1>2, <1>3, <1>4, <1>5, NextKinds

\* ActivateFirmware goes only to a device that has sent ApplyComplete in this
\* update, whatever requests came late, twice, or in an earlier run.
THEOREM ActivatedAfterApplied == Spec => []ActivatedOnlyIfApplied
<1>1. Init => Types /\ Believed /\ OnlyApplied
  <2>1. Init => OnlyApplied
    BY DEF Init, OnlyApplied, NewFWUpdate, Completing
  <2> QED
    BY <2>1, TypesInit
<1>2. Types /\ Believed /\ OnlyApplied /\ [Next]_vars
      => Types' /\ Believed' /\ OnlyApplied'
  BY TypesStep, AppliedStep
<1>3. OnlyApplied => ActivatedOnlyIfApplied
  BY DEF OnlyApplied, Applied, ActivatedOnlyIfApplied
<1> QED
  BY <1>1, <1>2, <1>3, PTL DEF Spec

-----------------------------------------------------------------------------
(***************************************************************************)
(* The device.                                                             *)
(***************************************************************************)
\* A step within the run, which has not gone astray.
Following ==
    /\ Types /\ Believed /\ Running /\ FollowsClosely
    /\ Astray /\ ~astray'
    /\ dev' \in [Termini -> Device]
    /\ pc' \in Busy \ {"RequestUpdate"}

LEMMA FollowingFacts ==
    ASSUME Following
    PROVE  /\ u \in FWUpdate /\ l \in Locals /\ u.tid \in Termini
           /\ dev[u.tid] \in Device /\ dev'[u.tid] \in Device
           /\ dev \in [Termini -> Device]
           /\ Follows(u.fdState, dev[u.tid])
           /\ \A v, ch : ~Over(v, ch)
           /\ \A v, s, ch : ~EndOfRun(v, s, ch)
<1>1. /\ u \in FWUpdate /\ l \in Locals /\ u.tid \in Termini
      /\ dev \in [Termini -> Device] /\ dev' \in [Termini -> Device]
      /\ Follows(u.fdState, dev[u.tid])
      /\ queue \in Seq(Termini) /\ queue # <<>> /\ failed \in BOOLEAN
  BY DEF Following, Types, TypeOK, Running, FollowsClosely
<1>2. ASSUME NEW v, NEW ch, Over(v, ch)
      PROVE  FALSE
  BY <1>2, Places DEF Over, Following
<1>3. ASSUME NEW v, NEW s, NEW ch, EndOfRun(v, s, ch)
      PROVE  FALSE
  <2>1. Tail(queue) \in Seq(Termini)
    BY <1>1, QueueFacts
  <2>2. NextTerminus(Tail(queue), v, ch)
    BY <1>3 DEF EndOfRun
  <2>3. Over(v, ch)
    BY <2>1, <2>2, NextTerminusIsOver
  <2> QED
    BY <1>2, <2>3
<1> QED
  BY <1>1, <1>2, <1>3

Closely == Early \cup {"download", "sendFirmwareData", "downloaded",
                       "sendTransferComplete", "verify", "sendVerifyComplete",
                       "apply", "sendApplyComplete"}

\* Where the coroutine waits for nothing that the device is doing, it is
\* enough that fdState follows it.
LEMMA PlainFollows ==
    ASSUME pc' \notin Closely, Follows(u'.fdState, dev'[u'.tid])
    PROVE  FollowsClosely'
BY DEF FollowsClosely, Closely

LEMMA AwaitPlain ==
    ASSUME Following, NEW p, p \notin Closely, NEW v, v.tid = u.tid, NEW m, NEW ch,
           Await(p, v, m, ch), Follows(v.fdState, dev'[u.tid])
    PROVE  FollowsClosely'
BY PlainFollows DEF Await

LEMMA OnwardStays ==
    ASSUME Following, NEW v, v.tid = u.tid, NEW ch, Onward(v, ch)
    PROVE  /\ pc' \in Stops /\ pc' \notin Closely
           /\ u'.fdState = v.fdState /\ u'.tid = u.tid
<1>1. PICK p, w, n, c : Leads(v, ch, p, w, n, c)
  BY DEF Onward
<1>2. p # "over"
  BY <1>1, FollowingFacts DEF Leads
<1>3. /\ pc' = p /\ u' = w /\ p \in Stops
      /\ w.tid = u.tid /\ w.fdState = v.fdState
  BY <1>1, <1>2 DEF Leads, Await, Kept
<1>4. p \notin Closely
  BY <1>3 DEF Stops, Closely, Early
<1> QED
  BY <1>3, <1>4

LEMMA OnwardFollows ==
    ASSUME Following, NEW v, v.tid = u.tid, NEW ch, Onward(v, ch),
           Follows(v.fdState, dev'[u.tid])
    PROVE  FollowsClosely'
BY OnwardStays, PlainFollows

LEMMA GoesOnFollows ==
    ASSUME Following, NEW v \in FWUpdate, v.tid = u.tid, NEW m \in Locals, NEW ch,
           \/ NextComponent(v, m, ch) \/ Release(v, m, ch)
           \/ Terminate(v, m, ch) \/ Unreserve(v, m, ch)
    PROVE  /\ Onward(v, ch)
           /\ Follows(v.fdState, dev'[u.tid]) => FollowsClosely'
<1>1. Onward(v, ch)
  BY NextComponentLeads, ReleaseLeads, TerminateLeads, UnreserveLeads
<1> QED
  BY <1>1, OnwardFollows

\* Before the first component the device waits too.
LEMMA EarlyFollows ==
    ASSUME Following, pc \in Early, dev' = dev, pc' \in Early,
           u'.tid = u.tid, u'.fdState = u.fdState
    PROVE  FollowsClosely'
BY DEF Following, FollowsClosely, Early

LEMMA BeginsFollows ==
    ASSUME Following, pc \in Early, dev' = dev,
           NEW v \in FWUpdate, v.tid = u.tid, v.updateMode = u.updateMode,
           v.fdState = u.fdState, NEW m \in Locals, NEW ch,
           \/ Terminate(v, m, ch)
           \/ PassComponents(0, v, [m EXCEPT !.some = FALSE], ch)
           \/ GetDeviceMetaData(v, m, ch)
    PROVE  FollowsClosely'
<1>1. u.updateMode /\ u.fdState = "LEARN_COMPONENTS" /\ u.tid \in Termini
  BY FollowingFacts DEF Following, Believed, BelievedAt
<1>2. PICK p, w, n : Begins(v, p, w, n, ch)
  BY <1>1, NonePassedBegins
<1>3. /\ pc' = p /\ u' = w /\ w.tid = u.tid /\ w.fdState = u.fdState
      /\ p \in {"GetDeviceMetaData", "PassComponentTable", "CancelUpdate"}
  BY <1>2 DEF Begins, Await, Kept
<1>4. CASE p = "CancelUpdate"
  <2>1. "CancelUpdate" \notin Closely
    BY DEF Closely, Early
  <2> QED
    BY <1>3, <1>4, <2>1, PlainFollows, FollowingFacts
<1>5. CASE p \in {"GetDeviceMetaData", "PassComponentTable"}
  BY <1>3, <1>5, EarlyFollows DEF Early
<1> QED
  BY <1>3, <1>4, <1>5

LEMMA RequestUpdateFollows ==
    ASSUME Following, RequestUpdateAnswered
    PROVE  FollowsClosely'
<1>1. /\ u \in FWUpdate /\ l \in Locals /\ u.tid \in Termini
      /\ dev \in [Termini -> Device] /\ dev'[u.tid] \in Device
  BY FollowingFacts
<1>2. u.fdState = "IDLE"
  BY DEF RequestUpdateAnswered, Following, Believed, BelievedAt
<1>3. CASE /\ Answer("RequestUpdate", "success")
           /\ \E d \in BOOLEAN :
                 Await("delay", [u EXCEPT !.updateMode = TRUE,
                                          !.fdState = "LEARN_COMPONENTS",
                                          !.hasMetaData = d], l, chain)
  <2>1. dev'[u.tid].st = "LEARN_COMPONENTS"
    BY <1>1, <1>3, AnswerMoves DEF Obeying, Commands
  <2>2. /\ pc' = "delay" /\ u'.fdState = "LEARN_COMPONENTS" /\ u'.tid = u.tid
    BY <1>1, <1>3 DEF Await, FWUpdate
  <2> QED
    BY <2>1, <2>2 DEF FollowsClosely, Follows, Behind, FdStates, Early
<1>4. CASE Terminate(u, l, chain)
  <2>1. Follows("IDLE", dev'[u.tid])
    BY <1>1 DEF Follows, Behind, FdStates, Device
  <2> QED
    BY <1>1, <1>2, <1>4, <2>1, GoesOnFollows
<1>5. CASE Await("RequestUpdate", u, [l EXCEPT !.left = @ + 1], chain)
  BY <1>5 DEF Await, Following
<1> QED
  BY <1>3, <1>4, <1>5 DEF RequestUpdateAnswered

LEMMA DelayedFollows ==
    ASSUME Following, Delayed
    PROVE  FollowsClosely'
<1>1. u \in FWUpdate /\ l \in Locals /\ pc \in Early /\ dev' = dev
  BY FollowingFacts DEF Delayed, Early
<1>2. CASE Await("packageData", [u EXCEPT !.expectedCmd = "GetPackageData"],
                 [l EXCEPT !.left = MaxNumReq, !.got = 0], Activated)
  <2>1. /\ pc' = "packageData" /\ u'.tid = u.tid /\ u'.fdState = u.fdState
    BY <1>1, <1>2 DEF Await, FWUpdate
  <2> QED
    BY <1>1, <2>1, EarlyFollows DEF Early
<1>3. CASE Terminate(u, l, Activated) \/ GetDeviceMetaData(u, l, Activated)
  BY <1>1, <1>3, BeginsFollows
<1> QED
  BY <1>2, <1>3 DEF Delayed

\* Serving a request changes neither fdState nor the device.
LEMMA ServeGoes ==
    ASSUME Following, NEW cmd, NEW p \in Sends, NEW v, Serve(cmd, p, v)
    PROVE  /\ pc' = p /\ u' = v
           /\ \E d \in Decoded(cmd) : l'.result = d
<1>1. PICK d \in Decoded(cmd) : Await(p, v, [l EXCEPT !.result = d], chain)
  BY DEF Serve
<1>2. d \in {"good", "bad", "undecodable"}
  BY <1>1 DEF Decoded
<1>3. /\ [l EXCEPT !.result = d] \in Locals
      /\ [l EXCEPT !.result = d].result = d
  BY <1>2, FollowingFacts, LocalsStay DEF Locals
<1>4. InScope(p, [l EXCEPT !.result = d]).result = d
  BY <1>3, InScopeStays
<1> QED
  BY <1>1, <1>4 DEF Await

LEMMA PackageDataFollows ==
    ASSUME Following, PackageDataAwaited \/ PackageDataSent
    PROVE  FollowsClosely'
<1> DEFINE v == [Served(u) EXCEPT !.fdReqMatched = FALSE]
           done == [v EXCEPT !.expectedCmd = "none"]
           again == [v EXCEPT !.expectedCmd = "GetPackageData"]
           ends == [Served(u) EXCEPT !.expectedCmd = "none"]
           none == [u EXCEPT !.expectedCmd = "none"]
           m(new) == [l EXCEPT !.got = @ + new, !.left = @ - 1,
                               !.retVal = "success"]
<1>1. /\ u \in FWUpdate /\ l \in Locals /\ Own(u) /\ dev' = dev
      /\ pc \in Early /\ [l EXCEPT !.retVal = "success"] \in Locals
  BY FollowingFacts, OwnIsOwn, LocalsStay
  DEF PackageDataAwaited, PackageDataSent, Early
<1>2. /\ Same(u, done) /\ Same(u, again) /\ Same(u, ends) /\ Same(u, none)
      /\ again.tid = u.tid
  <2>1. Same(u, Served(u))
    BY <1>1, ServedSame
  <2>2. Same(u, v)
    BY <2>1, TakenSame DEF Same
  <2> HIDE DEF v
  <2>3. Same(u, done) /\ Same(u, again)
    BY <2>2, ExpectedSame, CommandNames DEF Same
  <2>4. Same(u, ends) /\ Same(u, none)
    BY <1>1, <2>1, ExpectedSame DEF Same
  <2> QED
    BY <2>3, <2>4 DEF Same, Own
<1>3. \/ Serve("GetPackageData", "sendPackageData", u)
      \/ GetDeviceMetaData(none, [l EXCEPT !.retVal = "success"], chain)
      \/ Terminate(ends, l, chain)
      \/ /\ pc = "sendPackageData"
         /\ \E new \in {0, 1} :
               \/ GetDeviceMetaData(done, m(new), chain)
               \/ Await("packageData", again, m(new), chain)
  BY DEF PackageDataAwaited, PackageDataSent
<1> HIDE DEF v, done, again, ends, none
<1>4. CASE Serve("GetPackageData", "sendPackageData", u)
  <2>1. pc' = "sendPackageData" /\ u' = u
    BY <1>4, ServeGoes DEF Sends
  <2> QED
    BY <1>1, <2>1, EarlyFollows DEF Early
<1>5. ASSUME NEW w, Same(u, w), NEW n \in Locals,
             GetDeviceMetaData(w, n, chain) \/ Terminate(w, n, chain)
      PROVE  FollowsClosely'
  BY <1>1, <1>5, BeginsFollows DEF Same, Own
<1>6. ASSUME NEW new \in {0, 1}, pc = "sendPackageData",
             \/ GetDeviceMetaData(done, m(new), chain)
             \/ Await("packageData", again, m(new), chain)
      PROVE  FollowsClosely'
  <2>1. m(new) \in Locals
    BY <1>6, PartSent DEF Following
  <2> HIDE DEF m
  <2>2. CASE GetDeviceMetaData(done, m(new), chain)
    BY <1>2, <1>5, <2>1, <2>2
  <2>3. CASE Await("packageData", again, m(new), chain)
    <3>1. pc' = "packageData" /\ u' = again
      BY <2>3 DEF Await
    <3> QED
      BY <1>1, <1>2, <3>1, EarlyFollows DEF Early, Same
  <2> QED
    BY <1>6, <2>2, <2>3
<1> QED
  BY <1>1, <1>2, <1>3, <1>4, <1>5, <1>6

LEMMA DeviceMetaDataFollows ==
    ASSUME Following, DeviceMetaDataAnswered
    PROVE  FollowsClosely'
<1>1. u \in FWUpdate /\ l \in Locals /\ pc \in Early /\ dev' = dev
  BY FollowingFacts DEF DeviceMetaDataAnswered, Early
<1>2. CASE \/ PassComponents(0, u, [l EXCEPT !.some = FALSE], chain)
           \/ Terminate(u, l, chain)
  BY <1>1, <1>2, BeginsFollows
<1>3. CASE Await(pc, u, [l EXCEPT !.left = @ - 1], chain)
  BY <1>1, <1>3, EarlyFollows DEF Await
<1> QED
  BY <1>2, <1>3 DEF DeviceMetaDataAnswered

\* The last one of a set of components is the greatest.
LEMMA Greatest ==
    ASSUME NEW S, S \subseteq Comp, NEW c \in S, \A k \in S : ~ (k >= c + 1)
    PROVE  Max(S) = c
<1>1. Comp \subseteq Nat
  BY BoundFacts DEF Comp
<1>2. \A k \in S : c >= k
  BY <1>1
<1>3. \E x \in S : \A y \in S : x >= y
  BY <1>2
<1>4. Max(S) \in S /\ \A y \in S : Max(S) >= y
  BY <1>3, Zenon DEF Max
<1>5. Max(S) >= c /\ c >= Max(S) /\ Max(S) \in Nat /\ c \in Nat
  BY <1>1, <1>2, <1>4
<1> QED
  BY <1>5

\* ... and one that another follows is not.
LEMMA NotGreatest ==
    ASSUME NEW S, S \subseteq Comp, NEW c \in S, NEW k \in S, k >= c + 1
    PROVE  Max(S) # c
<1>1. S \subseteq Nat /\ NComp \in Nat /\ \A x \in S : x <= NComp
  BY BoundFacts DEF Comp
<1> DEFINE T == {NComp - x : x \in S}
<1>2. T \subseteq Nat /\ T # {}
  BY <1>1
<1>3. PICK m \in T : \A y \in T : m <= y
  BY <1>2, Least
<1>4. PICK x \in S : m = NComp - x
  BY <1>3
<1>5. \A y \in S : x >= y
  <2>1. \A y \in S : NComp - x <= NComp - y
    BY <1>3, <1>4
  <2> QED
    BY <1>1, <2>1
<1>6. Max(S) \in S /\ \A y \in S : Max(S) >= y
  BY <1>5, Zenon DEF Max
<1>7. Max(S) >= k /\ Max(S) \in Nat /\ k \in Nat /\ c \in Nat
  BY <1>1, <1>6
<1> QED
  BY <1>7

LEMMA PassedFollows ==
    ASSUME Following, ComponentPassed
    PROVE  FollowsClosely'
<1>1. /\ u \in FWUpdate /\ l \in Locals /\ Own(u) /\ u.tid \in Termini
      /\ dev \in [Termini -> Device] /\ dev[u.tid] \in Device
      /\ dev'[u.tid] \in Device
  BY FollowingFacts, OwnIsOwn
<1>2. /\ u.fdState = "LEARN_COMPONENTS" /\ u.updateMode
      /\ u.currentComp \in Applicable[u.tid]
      /\ dev[u.tid].st \in {"IDLE", "LEARN_COMPONENTS"}
      /\ pc = "PassComponentTable"
  BY DEF ComponentPassed, Following, Believed, BelievedAt, Early, FollowsClosely
<1>3. Applicable[u.tid] \subseteq Comp
  <2>1. Applicable[u.tid] \in SUBSET (0 .. NComp - 1)
    BY <1>1, FirmwareUpdateAssumption
  <2> QED
    BY <2>1 DEF Comp
<1>4. PICK a \in {"success", "refused", "none"} :
         /\ Answer("PassComponentTable", a)
         /\ PassComponents(u.currentComp + 1, u,
                           [l EXCEPT !.some = @ \/ a = "success"], chain)
  BY DEF ComponentPassed
<1> DEFINE n == [l EXCEPT !.some = @ \/ a = "success"]
           i == u.currentComp + 1
<1>5. n \in Locals
  <2>1. n = [l EXCEPT !.some = (l.some \/ a = "success")]
    BY <1>1 DEF Locals
  <2>2. (l.some \/ a = "success") \in BOOLEAN
    OBVIOUS
  <2> QED
    BY <1>1, <2>1, <2>2, LocalsStay
<1>6. i \in Nat
  BY <1>1, BoundFacts DEF FWUpdate, Comp
<1>7. PassComponents(i, u, n, chain)
  BY <1>4
<1> HIDE DEF n
<1>8. \/ dev' = dev
      \/ /\ dev[u.tid].st = "LEARN_COMPONENTS"
         /\ dev'[u.tid].st = IF u.currentComp = LastApplicable(u.tid)
                             THEN "READY_XFER" ELSE dev[u.tid].st
  BY <1>1, <1>4, AnswerMoves DEF Obeys, Obeying, Commands
<1>9. \/ \E k \in Applicable[u.tid] :
            /\ k >= i /\ k \in Comp
            /\ Await("PassComponentTable", [u EXCEPT !.currentComp = k], n, chain)
      \/ /\ \A k \in Applicable[u.tid] : ~ (k >= i)
         /\ \/ Onward([u EXCEPT !.fdState = "READY_XFER"], chain)
            \/ Terminate(u, n, chain)
  BY <1>1, <1>5, <1>6, <1>7, PassComponentsLeads
<1>10. ASSUME NEW k \in Applicable[u.tid], k >= i,
              Await("PassComponentTable", [u EXCEPT !.currentComp = k], n, chain)
       PROVE  FollowsClosely'
  <2>1. u.currentComp # LastApplicable(u.tid)
    BY <1>2, <1>3, <1>10, NotGreatest DEF LastApplicable
  <2>2. dev'[u.tid].st \in {"IDLE", "LEARN_COMPONENTS"}
    BY <1>2, <1>8, <2>1
  <2>3. /\ pc' = "PassComponentTable" /\ u'.tid = u.tid
        /\ u'.fdState = "LEARN_COMPONENTS"
    BY <1>1, <1>2, <1>10 DEF Await, FWUpdate
  <2> QED
    BY <2>2, <2>3 DEF FollowsClosely, Follows, Behind, FdStates, Early
<1>11. ASSUME \A k \in Applicable[u.tid] : ~ (k >= i)
       PROVE  dev'[u.tid].st = "READY_XFER"
  <2>1. u.currentComp = LastApplicable(u.tid)
    BY <1>2, <1>3, <1>11, Greatest DEF LastApplicable
  <2>2. dev' # dev
    BY <1>2, <2>1, Places DEF Following, Astray
  <2> QED
    BY <1>8, <2>1, <2>2
<1>12. CASE /\ \A k \in Applicable[u.tid] : ~ (k >= i)
            /\ Onward([u EXCEPT !.fdState = "READY_XFER"], chain)
  <2> DEFINE v == [u EXCEPT !.fdState = "READY_XFER"]
  <2>1. v.tid = u.tid /\ v.fdState = "READY_XFER"
    BY <1>1 DEF FWUpdate
  <2>2. Onward(v, chain)
    BY <1>12
  <2> HIDE DEF v
  <2>3. Follows("READY_XFER", dev'[u.tid])
    BY <1>11, <1>12 DEF Follows, Behind, FdStates
  <2> QED
    BY <2>1, <2>2, <2>3, OnwardFollows
<1>13. CASE /\ \A k \in Applicable[u.tid] : ~ (k >= i)
            /\ Terminate(u, n, chain)
  <2>1. Follows("LEARN_COMPONENTS", dev'[u.tid])
    BY <1>11, <1>13 DEF Follows, Behind, FdStates
  <2> QED
    BY <1>1, <1>2, <1>5, <1>13, <2>1, GoesOnFollows
<1> QED
  BY <1>9, <1>10, <1>12, <1>13

LEMMA ProgressFollows ==
    ASSUME Following, ProgressReported
    PROVE  FollowsClosely'
BY FollowingFacts, GoesOnFollows DEF ProgressReported

LEMMA UpdateComponentFollows ==
    ASSUME Following, UpdateComponentAnswered
    PROVE  FollowsClosely'
<1>1. /\ u \in FWUpdate /\ l \in Locals /\ u.tid \in Termini
      /\ dev \in [Termini -> Device] /\ dev'[u.tid] \in Device
      /\ Follows(u.fdState, dev[u.tid])
      /\ [l EXCEPT !.retVal = "error"] \in Locals
  BY FollowingFacts, LocalsStay
<1>2. pc = "UpdateComponent"
  BY DEF UpdateComponentAnswered
<1>3. CASE /\ Answer("UpdateComponent", "success")
           /\ Await("download", [u EXCEPT !.fdState = "DOWNLOAD",
                                          !.expectedCmd = "RequestFirmwareData"],
                    [l EXCEPT !.left = MaxNumReq - 1, !.retVal = "success"],
                    chain)
  <2>1. dev'[u.tid].st = "DOWNLOAD"
    BY <1>1, <1>3, AnswerMoves DEF Obeying, Commands
  <2>2. /\ pc' = "download" /\ u'.fdState = "DOWNLOAD" /\ u'.tid = u.tid
        /\ u'.expectedCmd = "RequestFirmwareData"
        /\ u'.fdReqMatched = u.fdReqMatched
        /\ u'.fdTransferCompleted = u.fdTransferCompleted
    BY <1>1, <1>3 DEF Await, FWUpdate
  <2>3. ~u.fdReqMatched /\ ~u.fdTransferCompleted
    BY <1>2, <2>2, Places DEF Following, Astray
  <2> QED
    BY <2>1, <2>2, <2>3
    DEF FollowsClosely, Follows, Behind, FdStates, Early, Reported
<1>4. CASE dev' = dev /\ Await("progress", u, [l EXCEPT !.retVal = "success"], chain)
  BY <1>1, <1>4, AwaitPlain DEF Closely, Early
<1>5. CASE NextComponent(u, [l EXCEPT !.retVal = "error"], chain)
  <2>1. Onward(u, chain)
    BY <1>1, <1>5, GoesOnFollows
  <2>2. pc' # "download"
    BY <2>1, OnwardStays DEF Stops
  <2>3. dev' = dev
    BY <1>2, <2>2, Places DEF Following, Astray
  <2> QED
    BY <1>1, <1>5, <2>3, GoesOnFollows
<1> QED
  BY <1>3, <1>4, <1>5 DEF UpdateComponentAnswered

LEMMA DownloadFollows ==
    ASSUME Following, DownloadAwaited
    PROVE  FollowsClosely'
<1>1. /\ u \in FWUpdate /\ l \in Locals /\ u.fdState = "DOWNLOAD"
      /\ Follows(u.fdState, dev[u.tid])
      /\ pc = "download" /\ dev' = dev
  BY FollowingFacts DEF DownloadAwaited, Following, Believed, BelievedAt
<1>2. /\ dev[u.tid].st \in {"IDLE", "DOWNLOAD"}
      /\ u.expectedCmd \in {"RequestFirmwareData", "TransferComplete"}
      /\ u.fdTransferCompleted => u.expectedCmd = "TransferComplete"
      /\ Reported("TransferComplete", "DOWNLOAD")
  BY <1>1 DEF Following, FollowsClosely
<1>3. ASSUME pc' = "downloaded", u'.tid = u.tid, u'.fdState = u.fdState,
             u'.expectedCmd = u.expectedCmd, u'.fdReq = u.fdReq,
             u.expectedCmd = "TransferComplete"
      PROVE  FollowsClosely'
  <2>1. u.fdReqMatched /\ u.fdReq.cmd = "TransferComplete"
    BY <1>1, <1>3, Places DEF Following, Astray
  <2>2. u'.fdReq.good => Done("DOWNLOAD")'
    BY <1>1, <1>2, <1>3, <2>1 DEF Reported, Done
  <2> QED
    BY <1>1, <1>2, <1>3, <2>1, <2>2 DEF FollowsClosely, Early
<1>4. ASSUME NEW v, v.tid = u.tid, v.fdState = u.fdState,
             Await("CancelUpdateComponent", v, l, chain)
      PROVE  FollowsClosely'
  BY <1>1, <1>4, AwaitPlain DEF Closely, Early
<1>5. CASE ~u.fdReqMatched
  <2>1. \/ Await("downloaded", u, l, chain)
        \/ Await("CancelUpdateComponent", u, l, chain)
    BY <1>5 DEF DownloadAwaited, Downloaded
  <2>2. CASE Await("downloaded", u, l, chain)
    <3>1. pc' = "downloaded"
      BY <2>2 DEF Await
    <3> QED
      BY <1>1, <1>5, <3>1, Places DEF Following, Astray
  <2> QED
    BY <1>4, <2>1, <2>2
<1>6. CASE u.fdReqMatched /\ u.fdTransferCompleted
  <2> DEFINE v == [Taken EXCEPT !.fdTransferCompleted = FALSE]
  <2>1. /\ v.tid = u.tid /\ v.fdState = u.fdState
        /\ v.expectedCmd = u.expectedCmd /\ v.fdReq = u.fdReq
    BY <1>1 DEF Taken, FWUpdate
  <2>2. \/ Await("downloaded", v, l, chain)
        \/ Await("CancelUpdateComponent", v, l, chain)
    BY <1>6 DEF DownloadAwaited, Downloaded
  <2> HIDE DEF v
  <2>3. CASE Await("downloaded", v, l, chain)
    BY <1>2, <1>3, <1>6, <2>1, <2>3 DEF Await
  <2> QED
    BY <1>4, <2>1, <2>2, <2>3
<1>7. CASE u.fdReqMatched /\ ~u.fdTransferCompleted
  <2>1. Serve("RequestFirmwareData", "sendFirmwareData", Taken)
    BY <1>7 DEF DownloadAwaited
  <2>2. pc' = "sendFirmwareData" /\ u' = Taken
    BY <2>1, ServeGoes DEF Sends
  <2>3. /\ Taken.tid = u.tid /\ Taken.fdState = u.fdState
        /\ Taken.expectedCmd = u.expectedCmd /\ ~Taken.fdReqMatched
        /\ Taken.fdTransferCompleted = u.fdTransferCompleted
    BY <1>1 DEF Taken, FWUpdate
  <2> QED
    BY <1>1, <1>2, <2>2, <2>3 DEF FollowsClosely, Early, Reported
<1> QED
  BY <1>5, <1>6, <1>7

LEMMA FirmwareDataFollows ==
    ASSUME Following, FirmwareDataSent
    PROVE  FollowsClosely'
<1>1. /\ u \in FWUpdate /\ l \in Locals /\ u.fdState = "DOWNLOAD"
      /\ Follows(u.fdState, dev[u.tid])
      /\ pc = "sendFirmwareData" /\ dev' = dev
  BY FollowingFacts DEF FirmwareDataSent, Following, Believed, BelievedAt
<1>2. /\ dev[u.tid].st \in {"IDLE", "DOWNLOAD"}
      /\ u.expectedCmd \in {"RequestFirmwareData", "TransferComplete"}
      /\ u.fdTransferCompleted => u.expectedCmd = "TransferComplete"
      /\ Reported("TransferComplete", "DOWNLOAD")
  BY <1>1 DEF Following, FollowsClosely
<1>3. PICK v \in {u, Served(u)}, p \in {"download", "CancelUpdateComponent"} :
         \E m : Await(p, v, m, chain)
  <2>1. PICK sent \in BOOLEAN :
           LET served == sent /\ l.result = "good"
               m == [l EXCEPT !.left = @ - 1,
                              !.retVal = IF served THEN "success" ELSE "error"]
           IN  IF m.left = 0
               THEN Await("CancelUpdateComponent",
                          IF served THEN Served(u) ELSE u,
                          [m EXCEPT !.retVal = "error"], chain)
               ELSE Await("download", IF served THEN Served(u) ELSE u, m, chain)
    BY DEF FirmwareDataSent
  <2> QED
    BY <2>1
<1>4. /\ v.tid = u.tid /\ v.fdState = u.fdState
      /\ v.expectedCmd = u.expectedCmd
      /\ v.fdTransferCompleted = u.fdTransferCompleted
      /\ v.fdReqMatched = u.fdReqMatched
      /\ v.fdReq = u.fdReq \/ v.fdReq.cmd # "TransferComplete"
  BY <1>1 DEF Served, FWUpdate, Empty, Cleared
<1>5. pc' = p /\ u' = v
  BY <1>3 DEF Await
<1>6. CASE p = "CancelUpdateComponent"
  BY <1>1, <1>4, <1>5, <1>6, PlainFollows DEF Closely, Early
<1>7. CASE p = "download"
  <2>1. Reported("TransferComplete", "DOWNLOAD")'
    BY <1>1, <1>2, <1>4, <1>5 DEF Reported, Done
  <2> QED
    BY <1>1, <1>2, <1>4, <1>5, <1>7, <2>1 DEF FollowsClosely, Early
<1> QED
  BY <1>6, <1>7

LEMMA TransferCompleteFollows ==
    ASSUME Following, TransferCompleteProcessed
    PROVE  FollowsClosely'
<1>1. /\ u.fdState = "DOWNLOAD" /\ Follows(u.fdState, dev[u.tid])
      /\ pc = "downloaded" /\ dev' = dev
  BY FollowingFacts DEF TransferCompleteProcessed, Following, Believed, BelievedAt
<1>2. /\ dev[u.tid].st \in {"IDLE", "DOWNLOAD"}
      /\ u.expectedCmd = "TransferComplete"
      /\ u.fdReq.cmd = "TransferComplete"
      /\ u.fdReq.good => Done("DOWNLOAD")
  BY <1>1 DEF Following, FollowsClosely
<1>3. Serve("TransferComplete", "sendTransferComplete", u)
  BY Places DEF TransferCompleteProcessed, Following
<1>4. /\ pc' = "sendTransferComplete" /\ u' = u
      /\ l'.result = IF u.fdReq.good THEN "good" ELSE "bad"
  BY <1>2, <1>3, ServeGoes DEF Sends, Decoded
<1>5. l'.result = "good" => Done("DOWNLOAD")'
  BY <1>1, <1>2, <1>4 DEF Done
<1> QED
  BY <1>1, <1>2, <1>4, <1>5 DEF FollowsClosely, Early

\* A component is cancelled because a completion was not good or not answered.
LEMMA CancelsFollows ==
    ASSUME Following, dev' = dev, NEW m,
           Await("CancelUpdateComponent", u, m, chain)
    PROVE  FollowsClosely'
BY FollowingFacts, AwaitPlain DEF Closely, Early

LEMMA TransferCompleteSentFollows ==
    ASSUME Following, TransferCompleteSent
    PROVE  FollowsClosely'
<1>1. /\ u \in FWUpdate /\ u.tid \in Termini /\ dev \in [Termini -> Device]
      /\ dev[u.tid] \in Device /\ pc = "sendTransferComplete"
  BY FollowingFacts DEF TransferCompleteSent, CompletionSent
<1>2. /\ u.fdReqMatched => u.fdReq.cmd = "TransferComplete"
      /\ l.result = "good" => Done("DOWNLOAD")
  BY <1>1 DEF Following, FollowsClosely
<1>3. CASE dev' = dev /\ Await("CancelUpdateComponent", u,
                               [l EXCEPT !.retVal = "error"], chain)
  BY <1>3, CancelsFollows
<1>4. CASE /\ l.result = "good" /\ Response("TransferComplete", TRUE)
           /\ Await("verify", [u EXCEPT !.fdState = "VERIFY",
                                        !.expectedCmd = "VerifyComplete"], l, chain)
  <2>1. /\ pc' = "verify" /\ u'.tid = u.tid /\ u'.fdState = "VERIFY"
        /\ u'.expectedCmd = "VerifyComplete"
        /\ u'.fdReqMatched = u.fdReqMatched /\ u'.fdReq = u.fdReq
    BY <1>1, <1>4 DEF Await, FWUpdate
  <2>2. \/ dev' = dev
        \/ dev'[u.tid].st = "VERIFY"
    BY <1>1, <1>4, ResponseMoves DEF After, Completions
  <2>3. /\ dev'[u.tid].st \in {"IDLE", "DOWNLOAD", "VERIFY"}
        /\ dev'[u.tid].st = "DOWNLOAD" => dev'[u.tid].fin
    BY <1>2, <1>4, <2>2 DEF Done
  <2>4. Follows("VERIFY", dev'[u.tid])
    BY <2>3 DEF Follows, Behind, FdStates
  <2> QED
    BY <1>2, <2>1, <2>3, <2>4 DEF FollowsClosely, Early, Reported
<1> QED
  BY <1>3, <1>4 DEF TransferCompleteSent, CompletionSent

LEMMA VerifyFollows ==
    ASSUME Following, VerifyAwaited
    PROVE  FollowsClosely'
<1>1. /\ u \in FWUpdate /\ l \in Locals /\ u.fdState = "VERIFY"
      /\ Follows(u.fdState, dev[u.tid])
      /\ pc = "verify" /\ dev' = dev
  BY FollowingFacts DEF VerifyAwaited, Following, Believed, BelievedAt
<1>2. /\ dev[u.tid].st \in {"IDLE", "DOWNLOAD", "VERIFY"}
      /\ u.expectedCmd = "VerifyComplete"
      /\ Reported("VerifyComplete", "VERIFY")
  BY <1>1 DEF Following, FollowsClosely
<1>3. CASE NextComponent(u, l, chain)
  BY <1>1, <1>3, GoesOnFollows
<1>4. CASE u.fdReqMatched /\ Serve("VerifyComplete", "sendVerifyComplete", Taken)
  <2>1. pc' = "sendVerifyComplete" /\ u' = Taken
    BY <1>4, ServeGoes DEF Sends
  <2>2. u.fdReq.cmd = "VerifyComplete"
    BY <1>1, <2>1, Places DEF Following, Astray
  <2>3. l'.result = IF u.fdReq.good THEN "good" ELSE "bad"
    BY <1>4, <2>2, ServeGoes DEF Sends, Decoded
  <2>4. /\ Taken.tid = u.tid /\ Taken.fdState = u.fdState
        /\ Taken.expectedCmd = u.expectedCmd /\ ~Taken.fdReqMatched
    BY <1>1 DEF Taken, FWUpdate
  <2>5. l'.result = "good" => Done("VERIFY")'
    BY <1>1, <1>2, <1>4, <2>1, <2>2, <2>3, <2>4 DEF Reported, Done
  <2> QED
    BY <1>1, <1>2, <2>1, <2>4, <2>5 DEF FollowsClosely, Early
<1> QED
  BY <1>3, <1>4 DEF VerifyAwaited

LEMMA VerifyCompleteSentFollows ==
    ASSUME Following, VerifyCompleteSent
    PROVE  FollowsClosely'
<1>1. /\ u \in FWUpdate /\ u.tid \in Termini /\ dev \in [Termini -> Device]
      /\ dev[u.tid] \in Device /\ pc = "sendVerifyComplete"
  BY FollowingFacts DEF VerifyCompleteSent, CompletionSent
<1>2. /\ u.fdReqMatched => u.fdReq.cmd = "VerifyComplete"
      /\ l.result = "good" => Done("VERIFY")
  BY <1>1 DEF Following, FollowsClosely
<1>3. CASE dev' = dev /\ Await("CancelUpdateComponent", u,
                               [l EXCEPT !.retVal = "error"], chain)
  BY <1>3, CancelsFollows
<1>4. CASE /\ l.result = "good" /\ Response("VerifyComplete", TRUE)
           /\ Await("apply", [u EXCEPT !.fdState = "APPLY",
                                       !.expectedCmd = "ApplyComplete"], l, chain)
  <2>1. /\ pc' = "apply" /\ u'.tid = u.tid /\ u'.fdState = "APPLY"
        /\ u'.expectedCmd = "ApplyComplete"
        /\ u'.fdReqMatched = u.fdReqMatched /\ u'.fdReq = u.fdReq
    BY <1>1, <1>4 DEF Await, FWUpdate
  <2>2. \/ dev' = dev
        \/ dev'[u.tid].st = "APPLY"
    BY <1>1, <1>4, ResponseMoves DEF After, Completions
  <2>3. /\ dev'[u.tid].st \in {"IDLE", "VERIFY", "APPLY"}
        /\ dev'[u.tid].st = "VERIFY" => dev'[u.tid].fin
    BY <1>2, <1>4, <2>2 DEF Done
  <2>4. Follows("APPLY", dev'[u.tid])
    BY <2>3 DEF Follows, Behind, FdStates
  <2> QED
    BY <1>2, <2>1, <2>3, <2>4 DEF FollowsClosely, Early, Reported
<1> QED
  BY <1>3, <1>4 DEF VerifyCompleteSent, CompletionSent

LEMMA ApplyFollows ==
    ASSUME Following, ApplyAwaited
    PROVE  FollowsClosely'
<1>1. /\ u \in FWUpdate /\ l \in Locals /\ u.fdState = "APPLY"
      /\ Follows(u.fdState, dev[u.tid])
      /\ pc = "apply" /\ dev' = dev
  BY FollowingFacts DEF ApplyAwaited, Following, Believed, BelievedAt
<1>2. /\ dev[u.tid].st \in {"IDLE", "VERIFY", "APPLY"}
      /\ Reported("ApplyComplete", "APPLY")
  BY <1>1 DEF Following, FollowsClosely
<1>3. CASE NextComponent(u, l, chain)
  BY <1>1, <1>3, GoesOnFollows
<1>4. CASE u.fdReqMatched /\ Serve("ApplyComplete", "sendApplyComplete", Taken)
  <2>1. /\ pc' = "sendApplyComplete" /\ u' = Taken
        /\ l'.result \in Decoded("ApplyComplete")
    BY <1>4, ServeGoes DEF Sends
  <2>2. l'.result = "good" => u.fdReq.cmd = "ApplyComplete" /\ u.fdReq.good
    BY <2>1 DEF Decoded
  <2>3. /\ Taken.tid = u.tid /\ Taken.fdState = u.fdState
    BY <1>1 DEF Taken, FWUpdate
  <2>4. l'.result = "good" => Done("APPLY")'
    BY <1>1, <1>2, <1>4, <2>1, <2>2, <2>3 DEF Reported, Done
  <2> QED
    BY <1>1, <1>2, <2>1, <2>3, <2>4 DEF FollowsClosely, Early
<1> QED
  BY <1>3, <1>4 DEF ApplyAwaited

LEMMA ApplyCompleteFollows ==
    ASSUME Following, ApplyCompleteSent
    PROVE  FollowsClosely'
<1>1. /\ u \in FWUpdate /\ l \in Locals /\ u.tid \in Termini
      /\ dev \in [Termini -> Device] /\ dev[u.tid] \in Device
      /\ Follows(u.fdState, dev[u.tid])
      /\ [l EXCEPT !.retVal = "error"] \in Locals
      /\ pc = "sendApplyComplete"
  BY FollowingFacts, LocalsStay DEF ApplyCompleteSent
<1>2. l.result = "good" => Done("APPLY")
  BY <1>1 DEF Following, FollowsClosely
<1> DEFINE v == [u EXCEPT !.isComponentAvailableForUpdate = TRUE,
                          !.fdState = "READY_XFER"]
<1>3. v \in FWUpdate /\ v.tid = u.tid /\ v.fdState = "READY_XFER"
  BY <1>1 DEF FWUpdate, FdStates
<1>4. \/ /\ l.result # "undecodable"
         /\ l.result = "good" => Response("ApplyComplete", TRUE)
         /\ NextComponent(v, l, chain)
      \/ dev' = dev /\ NextComponent(u, [l EXCEPT !.retVal = "error"], chain)
  BY DEF ApplyCompleteSent
<1> HIDE DEF v
<1>5. CASE /\ l.result # "undecodable"
           /\ l.result = "good" => Response("ApplyComplete", TRUE)
           /\ NextComponent(v, l, chain)
  <2>1. Onward(v, chain)
    BY <1>1, <1>3, <1>5, GoesOnFollows
  <2>2. u'.fdState = "READY_XFER"
    BY <1>3, <2>1, OnwardStays
  <2>3. l.result # "bad"
    BY <1>1, <2>2, Places DEF Following, Astray
  <2>4. l.result = "good"
    BY <1>1, <1>5, <2>3 DEF Locals
  <2>5. \/ dev' = dev
        \/ dev'[u.tid].st = "READY_XFER"
    BY <1>1, <1>5, <2>4, ResponseMoves DEF After, Completions
  <2>6. Follows("READY_XFER", dev'[u.tid])
    BY <1>2, <2>4, <2>5 DEF Done, Follows, Behind, FdStates
  <2> QED
    BY <1>3, <2>1, <2>6, OnwardFollows
<1>6. CASE dev' = dev /\ NextComponent(u, [l EXCEPT !.retVal = "error"], chain)
  BY <1>1, <1>6, GoesOnFollows
<1> QED
  BY <1>4, <1>5, <1>6

LEMMA CancelledFollows ==
    ASSUME Following, ComponentCancelled
    PROVE  FollowsClosely'
<1>1. /\ u \in FWUpdate /\ l \in Locals /\ u.tid \in Termini
      /\ dev \in [Termini -> Device]
      /\ Follows(u.fdState, dev[u.tid])
      /\ u.fdState \in {"DOWNLOAD", "VERIFY"}
      /\ pc = "CancelUpdateComponent"
  BY FollowingFacts DEF ComponentCancelled, Following, Believed, BelievedAt
<1>2. PICK a \in {"success", "refused", "none"} :
         /\ Answer("CancelUpdateComponent", a)
         /\ NextComponent(IF a = "none" THEN u
                          ELSE [u EXCEPT !.fdState = "READY_XFER"], l, chain)
  BY DEF ComponentCancelled
<1>3. \/ dev' = dev
      \/ dev'[u.tid].st = "READY_XFER"
  BY <1>1, <1>2, AnswerMoves DEF Obeying, Commands
<1>4. CASE a = "none"
  <2>1. Follows(u.fdState, dev'[u.tid])
    BY <1>1, <1>3 DEF Follows, Behind, FdStates
  <2> QED
    BY <1>1, <1>2, <1>4, <2>1, GoesOnFollows
<1>5. CASE a # "none"
  <2> DEFINE v == [u EXCEPT !.fdState = "READY_XFER"]
  <2>1. v \in FWUpdate /\ v.tid = u.tid /\ v.fdState = "READY_XFER"
    BY <1>1 DEF FWUpdate, FdStates
  <2>2. NextComponent(v, l, chain)
    BY <1>2, <1>5
  <2> HIDE DEF v
  <2>3. Onward(v, chain)
    BY <1>1, <2>1, <2>2, GoesOnFollows
  <2>4. dev' # dev
    BY <1>1, <2>1, <2>3, OnwardStays, Places DEF Following, Astray
  <2>5. Follows("READY_XFER", dev'[u.tid])
    BY <1>3, <2>4 DEF Follows, Behind, FdStates
  <2> QED
    BY <2>1, <2>3, <2>5, OnwardFollows
<1> QED
  BY <1>4, <1>5

LEMMA MetaDataFollows ==
    ASSUME Following, MetaDataAwaited \/ MetaDataSent
    PROVE  FollowsClosely'
<1> DEFINE v == [Served(u) EXCEPT !.fdReqMatched = FALSE]
           done == [v EXCEPT !.expectedCmd = "none"]
           again == [v EXCEPT !.expectedCmd = "GetMetaData"]
           ends == [Served(u) EXCEPT !.expectedCmd = "none"]
           m(new) == [l EXCEPT !.got = @ + new, !.left = @ - 1,
                               !.retVal = "success"]
           n == [l EXCEPT !.retVal = "error"]
<1>1. /\ u \in FWUpdate /\ l \in Locals /\ Own(u) /\ n \in Locals
      /\ Follows(u.fdState, dev'[u.tid])
  <2>1. dev' = dev
    BY DEF MetaDataAwaited, MetaDataSent
  <2> QED
    BY <2>1, FollowingFacts, OwnIsOwn, LocalsStay
<1>2. Same(u, done) /\ Same(u, again) /\ Same(u, ends)
  <2>1. Same(u, Served(u))
    BY <1>1, ServedSame
  <2>2. Same(u, v)
    BY <2>1, TakenSame DEF Same
  <2> HIDE DEF v
  <2>3. Same(u, done) /\ Same(u, again)
    BY <2>2, ExpectedSame, CommandNames DEF Same
  <2>4. Same(u, ends)
    BY <2>1, ExpectedSame DEF Same
  <2> QED
    BY <2>3, <2>4
<1>3. \/ Serve("GetMetaData", "sendMetaData", u)
      \/ Terminate(ends, n, chain)
      \/ /\ pc = "sendMetaData"
         /\ \E new \in {0, 1} :
               \/ Release(done, m(new), chain)
               \/ Await("metaData", again, m(new), chain)
  BY DEF MetaDataAwaited, MetaDataSent
<1> HIDE DEF v, done, again, ends, n
<1>4. CASE Serve("GetMetaData", "sendMetaData", u)
  <2>1. pc' = "sendMetaData" /\ u' = u
    BY <1>4, ServeGoes DEF Sends
  <2> QED
    BY <1>1, <2>1, PlainFollows DEF Closely, Early
<1>5. CASE Terminate(ends, n, chain)
  BY <1>1, <1>2, <1>5, GoesOnFollows DEF Same, Own
<1>6. ASSUME NEW new \in {0, 1}, pc = "sendMetaData",
             \/ Release(done, m(new), chain)
             \/ Await("metaData", again, m(new), chain)
      PROVE  FollowsClosely'
  <2>1. m(new) \in Locals
    BY <1>6, PartSent DEF Following
  <2> HIDE DEF m
  <2>2. CASE Release(done, m(new), chain)
    BY <1>1, <1>2, <2>1, <2>2, GoesOnFollows DEF Same, Own
  <2>3. CASE Await("metaData", again, m(new), chain)
    BY <1>1, <1>2, <2>3, AwaitPlain DEF Closely, Early, Same, Own
  <2> QED
    BY <1>6, <2>2, <2>3
<1> QED
  BY <1>3, <1>4, <1>5, <1>6

LEMMA ActivationFollows ==
    ASSUME Following, FirmwareActivated \/ ActivationAwaited
    PROVE  FollowsClosely'
<1>1. /\ u \in FWUpdate /\ l \in Locals /\ u.tid \in Termini
      /\ dev \in [Termini -> Device] /\ Follows(u.fdState, dev[u.tid])
  BY FollowingFacts
<1>2. ~ActivationAwaited
  BY FollowingFacts DEF ActivationAwaited
<1>3. FirmwareActivated /\ u.fdState = "READY_XFER"
  BY <1>2 DEF FirmwareActivated, Following, Believed, BelievedAt
<1>4. CASE /\ Answer("ActivateFirmware", "success")
           /\ Await("activated", [u EXCEPT !.fdState = "ACTIVATE"], l, chain)
  <2> DEFINE v == [u EXCEPT !.fdState = "ACTIVATE"]
  <2>1. v.tid = u.tid /\ v.fdState = "ACTIVATE"
    BY <1>1 DEF FWUpdate
  <2>2. Await("activated", v, l, chain)
    BY <1>4
  <2> HIDE DEF v
  <2>3. dev'[u.tid].st = "ACTIVATE"
    BY <1>1, <1>4, AnswerMoves DEF Obeying, Commands
  <2>4. Follows("ACTIVATE", dev'[u.tid])
    BY <2>3 DEF Follows, Behind, FdStates
  <2> QED
    BY <2>1, <2>2, <2>4, AwaitPlain DEF Closely, Early
<1>5. CASE /\ \E a \in {"refused", "none"} : Answer("ActivateFirmware", a)
           /\ Terminate(u, l, chain)
  <2>1. dev' = dev \/ dev'[u.tid].st = "ACTIVATE"
    BY <1>1, <1>5, AnswerMoves DEF Obeying, Commands
  <2>2. Follows(u.fdState, dev'[u.tid])
    BY <1>1, <1>3, <2>1 DEF Follows, Behind, FdStates
  <2> QED
    BY <1>1, <1>5, <2>2, GoesOnFollows
<1> QED
  BY <1>3, <1>4, <1>5 DEF FirmwareActivated

LEMMA UpdateCancelledFollows ==
    ASSUME Following, UpdateCancelled
    PROVE  FollowsClosely'
<1>1. /\ u \in FWUpdate /\ l \in Locals /\ u.tid \in Termini
      /\ dev \in [Termini -> Device] /\ dev'[u.tid] \in Device
      /\ Follows(u.fdState, dev[u.tid])
  BY FollowingFacts
<1>2. PICK a \in {"success", "refused", "none"} :
         /\ Answer("CancelUpdate", a)
         /\ Unreserve(IF a = "success" THEN [u EXCEPT !.fdState = "IDLE"] ELSE u,
                      l, chain)
  BY DEF UpdateCancelled
<1>3. dev' = dev \/ dev'[u.tid].st = "IDLE"
  BY <1>1, <1>2, AnswerMoves DEF Obeying, Commands
<1>4. CASE a = "success"
  <2> DEFINE v == [u EXCEPT !.fdState = "IDLE"]
  <2>1. v \in FWUpdate /\ v.tid = u.tid /\ v.fdState = "IDLE"
    BY <1>1 DEF FWUpdate, FdStates
  <2>2. Unreserve(v, l, chain)
    BY <1>2, <1>4
  <2> HIDE DEF v
  <2>3. Follows("IDLE", dev'[u.tid])
    BY <1>1 DEF Follows, Behind, FdStates, Device
  <2> QED
    BY <1>1, <2>1, <2>2, <2>3, GoesOnFollows
<1>5. CASE a # "success"
  <2>1. Follows(u.fdState, dev'[u.tid])
    BY <1>1, <1>3 DEF Follows
  <2> QED
    BY <1>1, <1>2, <1>5, <2>1, GoesOnFollows
<1> QED
  BY <1>4, <1>5

LEMMA ReleasedFollows ==
    ASSUME Following, BandwidthReleased
    PROVE  FollowsClosely'
<1>1. /\ u \in FWUpdate /\ l \in Locals /\ Follows(u.fdState, dev'[u.tid])
  BY FollowingFacts DEF BandwidthReleased
<1>2. \/ \E s \in BOOLEAN : EndOfRun(u, s, chain)
      \/ Terminate(u, l, chain)
      \/ Await("ActivateFirmware", u, l, chain)
  BY DEF BandwidthReleased, Finish
<1>3. CASE Terminate(u, l, chain)
  BY <1>1, <1>3, GoesOnFollows
<1>4. CASE Await("ActivateFirmware", u, l, chain)
  BY <1>1, <1>4, AwaitPlain DEF Closely, Early
<1> QED
  BY <1>2, <1>3, <1>4, FollowingFacts

LEMMA FollowedProceeds ==
    ASSUME Types, Believed, DeviceFollowed, Proceeds
    PROVE  DeviceFollowed'
<1>1. SUFFICES ASSUME Running', ~astray'
               PROVE  FollowsClosely'
  BY DEF DeviceFollowed
<1>2. CASE pc' = "RequestUpdate"
  <2>1. CoroutineTypes' /\ OtherTypes' /\ Believed'
    BY Settled
  <2>2. u'.fdState = "IDLE" /\ u'.tid \in Termini /\ dev' \in [Termini -> Device]
    BY <1>1, <1>2, <2>1 DEF Believed, BelievedAt, CoroutineTypes, OtherTypes
  <2>3. Follows(u'.fdState, dev'[u'.tid])
    BY <2>2 DEF Follows, Behind, FdStates, Device
  <2> QED
    BY <1>2, <2>3, PlainFollows DEF Closely, Early
<1>3. CASE pc' # "RequestUpdate"
  <2>1. pc' \in Busy \ {"RequestUpdate"} /\ pc' # "report"
    BY <1>1, <1>3, Places DEF Running
  <2>2. Running /\ dev' \in [Termini -> Device] /\ Astray
    BY RunsWhenItSteps, DeviceMoves DEF Proceeds
  <2>3. ~astray
    BY <1>1, <2>1, <2>2 DEF Astray
  <2>4. Following
    BY <1>1, <2>1, <2>2, <2>3 DEF Following, DeviceFollowed
  <2> QED
    BY <2>4, RequestUpdateFollows, DelayedFollows, PackageDataFollows,
       DeviceMetaDataFollows, PassedFollows, ProgressFollows,
       UpdateComponentFollows, DownloadFollows, FirmwareDataFollows,
       TransferCompleteFollows, TransferCompleteSentFollows, VerifyFollows,
       VerifyCompleteSentFollows, ApplyFollows, ApplyCompleteFollows,
       CancelledFollows, MetaDataFollows, ActivationFollows,
       UpdateCancelledFollows, ReleasedFollows
    DEF Proceeds, RunStep
<1> QED
  BY <1>2, <1>3

\* What is known of the device stays true when it reports, or is reset.
LEMMA AsideFollows ==
    ASSUME Types, Running, FollowsClosely, Aside, pc' = pc
    PROVE  FollowsClosely'
<1> DEFINE d == dev[u.tid]
           e == dev'[u.tid]
<1>1. u.tid \in Termini /\ u \in FWUpdate
  BY DEF Types, TypeOK
<1>2. Untouched /\ Goes(d, e)
  BY <1>1, AsideKeeps
<1>3. u'.tid = u.tid /\ u'.fdState = u.fdState /\ l' = l
  BY <1>2 DEF Untouched
<1>4. /\ e.st \in {d.st, "IDLE"}
      /\ e.st # "IDLE" => e.st = d.st /\ (d.fin => e.fin)
  BY <1>2 DEF Goes, IdleDevice
<1>5. ASSUME NEW s, Done(s)
      PROVE  e.st = "IDLE" \/ (e.st = s /\ e.fin)
  BY <1>4, <1>5 DEF Done
<1>6. Follows(u.fdState, e)
  BY <1>4 DEF FollowsClosely, Follows
<1>7. ASSUME Heard, u'.fdReq.cmd \in Completions, u'.fdReq.good
      PROVE  e.st = "IDLE" \/ (e.st = Doing(u'.fdReq.cmd) /\ e.fin)
  BY <1>7 DEF Heard
<1>8. /\ Doing("TransferComplete") = "DOWNLOAD" /\ Doing("VerifyComplete") = "VERIFY"
      /\ Doing("ApplyComplete") = "APPLY"
      /\ Completions = {"TransferComplete", "VerifyComplete", "ApplyComplete"}
  BY DEF Doing, Completions
<1> HIDE DEF d, e
<1>9. /\ \/ /\ u'.expectedCmd = u.expectedCmd
            /\ u'.fdTransferCompleted = u.fdTransferCompleted
         \/ /\ u.expectedCmd = "RequestFirmwareData"
            /\ u'.expectedCmd = "TransferComplete"
            /\ u'.fdTransferCompleted
      /\ \/ u'.fdReqMatched = u.fdReqMatched /\ u'.fdReq = u.fdReq
         \/ Heard
  BY AsideHears DEF Quiet
<1>10. Heard => u'.fdReqMatched /\ u'.fdReq.cmd = u'.expectedCmd
  BY DEF Heard
<1>11. ASSUME NEW cmd \in Completions, Reported(cmd, Doing(cmd)),
              u'.fdReqMatched, u'.fdReq.cmd = cmd, u'.fdReq.good
       PROVE  e.st = "IDLE" \/ (e.st = Doing(cmd) /\ e.fin)
  BY <1>5, <1>7, <1>9, <1>11 DEF Reported
<1>12. /\ pc \in Early => e.st \in {"IDLE", "LEARN_COMPONENTS"}
       /\ pc \in {"download", "sendFirmwareData", "downloaded",
                  "sendTransferComplete"} => e.st \in {"IDLE", "DOWNLOAD"}
       /\ pc \in {"verify", "sendVerifyComplete"} =>
             e.st \in {"IDLE", "DOWNLOAD", "VERIFY"}
       /\ pc \in {"apply", "sendApplyComplete"} =>
             e.st \in {"IDLE", "VERIFY", "APPLY"}
  BY <1>4 DEF FollowsClosely, d
<1>13. ASSUME pc \in {"download", "sendFirmwareData"}
       PROVE  /\ u'.expectedCmd \in {"RequestFirmwareData", "TransferComplete"}
              /\ u'.fdTransferCompleted => u'.expectedCmd = "TransferComplete"
              /\ /\ u'.fdReqMatched /\ u'.fdReq.cmd = "TransferComplete"
                 /\ u'.fdReq.good
                 => e.st = "IDLE" \/ (e.st = "DOWNLOAD" /\ e.fin)
  <2>1. /\ u.expectedCmd \in {"RequestFirmwareData", "TransferComplete"}
        /\ u.fdTransferCompleted => u.expectedCmd = "TransferComplete"
        /\ Reported("TransferComplete", "DOWNLOAD")
    BY <1>13 DEF FollowsClosely
  <2> QED
    BY <1>8, <1>9, <1>11, <2>1
<1>14. ASSUME pc = "downloaded"
       PROVE  /\ u'.expectedCmd = "TransferComplete"
              /\ u'.fdReq.cmd = "TransferComplete"
              /\ u'.fdReq.good => e.st = "IDLE" \/ (e.st = "DOWNLOAD" /\ e.fin)
  <2>1. /\ u.expectedCmd = "TransferComplete"
        /\ u.fdReq.cmd = "TransferComplete"
        /\ u.fdReq.good => Done("DOWNLOAD")
    BY <1>14 DEF FollowsClosely
  <2> QED
    BY <1>5, <1>7, <1>8, <1>9, <1>10, <2>1
<1>15. ASSUME pc = "sendTransferComplete"
       PROVE  /\ u'.expectedCmd = "TransferComplete"
              /\ u'.fdReqMatched => u'.fdReq.cmd = "TransferComplete"
              /\ l.result = "good" => e.st = "IDLE" \/ (e.st = "DOWNLOAD" /\ e.fin)
  <2>1. /\ u.expectedCmd = "TransferComplete"
        /\ u.fdReqMatched => u.fdReq.cmd = "TransferComplete"
        /\ l.result = "good" => Done("DOWNLOAD")
    BY <1>15 DEF FollowsClosely
  <2> QED
    BY <1>5, <1>9, <1>10, <2>1
<1>16. ASSUME pc = "verify"
       PROVE  /\ u'.expectedCmd = "VerifyComplete"
              /\ u'.fdReqMatched =>
                    u'.fdReq.cmd \in {"TransferComplete", "VerifyComplete"}
              /\ /\ u'.fdReqMatched /\ u'.fdReq.cmd = "VerifyComplete"
                 /\ u'.fdReq.good
                 => e.st = "IDLE" \/ (e.st = "VERIFY" /\ e.fin)
  <2>1. /\ u.expectedCmd = "VerifyComplete"
        /\ u.fdReqMatched =>
              u.fdReq.cmd \in {"TransferComplete", "VerifyComplete"}
        /\ Reported("VerifyComplete", "VERIFY")
    BY <1>16 DEF FollowsClosely
  <2> QED
    BY <1>8, <1>9, <1>10, <1>11, <2>1
<1>17. ASSUME pc = "sendVerifyComplete"
       PROVE  /\ u'.expectedCmd = "VerifyComplete"
              /\ u'.fdReqMatched => u'.fdReq.cmd = "VerifyComplete"
              /\ l.result = "good" => e.st = "IDLE" \/ (e.st = "VERIFY" /\ e.fin)
  <2>1. /\ u.expectedCmd = "VerifyComplete"
        /\ u.fdReqMatched => u.fdReq.cmd = "VerifyComplete"
        /\ l.result = "good" => Done("VERIFY")
    BY <1>17 DEF FollowsClosely
  <2> QED
    BY <1>5, <1>9, <1>10, <2>1
<1>18. ASSUME pc = "apply"
       PROVE  /\ u'.expectedCmd = "ApplyComplete"
              /\ /\ u'.fdReqMatched /\ u'.fdReq.cmd = "ApplyComplete"
                 /\ u'.fdReq.good
                 => e.st = "IDLE" \/ (e.st = "APPLY" /\ e.fin)
  <2>1. /\ u.expectedCmd = "ApplyComplete"
        /\ Reported("ApplyComplete", "APPLY")
    BY <1>18 DEF FollowsClosely
  <2> QED
    BY <1>8, <1>9, <1>11, <2>1
<1>19. ASSUME pc = "sendApplyComplete", l.result = "good"
       PROVE  e.st = "IDLE" \/ (e.st = "APPLY" /\ e.fin)
  BY <1>5, <1>19 DEF FollowsClosely
<1>20. e = dev'[u'.tid]
  BY <1>3 DEF e
<1> QED
  BY <1>3, <1>6, <1>12, <1>13, <1>14, <1>15, <1>16, <1>17, <1>18, <1>19, <1>20
  DEF FollowsClosely, Reported, Done

LEMMA FollowedStep ==
    ASSUME Types, Believed, DeviceFollowed, [Next]_vars
    PROVE  DeviceFollowed'
<1>1. CASE Starts
  <2>1. /\ CoroutineTypes' /\ OtherTypes' /\ Believed'
        /\ pc' \in {"report", "RequestUpdate"}
    BY <1>1, Started DEF Over
  <2>2. ASSUME pc' = "RequestUpdate"
        PROVE  FollowsClosely'
    <3>1. /\ u'.fdState = "IDLE" /\ u'.tid \in Termini
          /\ dev' \in [Termini -> Device]
      BY <2>1, <2>2, Places
      DEF Believed, BelievedAt, CoroutineTypes, OtherTypes, Running
    <3>2. Follows(u'.fdState, dev'[u'.tid])
      BY <3>1 DEF Follows, Behind, FdStates, Device
    <3> QED
      BY <2>2, <3>2, PlainFollows DEF Closely, Early
  <2> QED
    BY <2>1, <2>2, Places DEF DeviceFollowed, Running
<1>2. CASE Proceeds
  BY <1>2, FollowedProceeds
<1>3. CASE ReportsEnd
  BY <1>3, Places DEF ReportsEnd, Report, DeviceFollowed, Running
<1>4. CASE Aside
  <2>1. pc' \in {pc, "crashed"} /\ astray' = astray
    BY <1>4, AsideKeeps DEF Untouched
  <2> QED
    BY <1>4, <2>1, AsideFollows, Places DEF DeviceFollowed, Running
<1>5. CASE UNCHANGED vars
  BY <1>5 DEF vars, coVars, DeviceFollowed, Running, FollowsClosely, Reported, Done
<1> QED
  BY <1>1, <1>2, <1>3, <1>4, <1>5, NextKinds

\* While the run has not lost track of its device in one of the ways that
\* Astray names, fdState follows the device: it is ahead of it only when the
\* device has reported that it is done, and otherwise behind it only by the
\* command that is on its way.
THEOREM DeviceIsFollowed == Spec => []FdStateIsDevices
<1>1. Init => Types /\ Believed /\ DeviceFollowed
  <2>1. Init => DeviceFollowed
    BY Places DEF Init, DeviceFollowed, Running
  <2> QED
    BY <2>1, TypesInit
<1>2. Types /\ Believed /\ DeviceFollowed /\ [Next]_vars
      => Types' /\ Believed' /\ DeviceFollowed'
  BY TypesStep, FollowedStep
<1>3. Types /\ DeviceFollowed => FdStateIsDevices
  <2>1. Busy \cup {"idle", "report", "crashed"}
        = Commands \cup Waits \cup Sends \cup Calls \cup {"idle", "crashed"}
    BY DEF Busy, Calls
  <2>2. Types => pc \in Busy \cup {"idle", "report", "crashed"}
    BY <2>1 DEF Types, TypeOK
  <2> QED
    BY <2>2 DEF DeviceFollowed, Running, FollowsClosely, Follows, FdStateIsDevices
<1> QED
  BY <1>1, <1>2, <1>3, PTL DEF Spec

=============================================================================
