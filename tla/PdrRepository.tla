--------------------------- MODULE PdrRepository ---------------------------
(***************************************************************************)
(* How pldmd reads the descriptor records of a terminus into a repository  *)
(* of its own: PDRManager (pdr_manager.cpp) and the list of records of     *)
(* libpldm_intel (pdr.c).                                                  *)
(*                                                                         *)
(* A record comes in one part or in several, each on a request of its own, *)
(* and the device may change its records between any two requests.  Every  *)
(* change of a record changes its number, and leaves what it is about.  A  *)
(* part is the record's handle, number and number of parts with its own    *)
(* position; the checksum of a record fits no other sequence of parts.     *)
(***************************************************************************)
EXTENDS Naturals, Sequences, FiniteSets, SequencesExt

CONSTANTS Repositories, \* what a device may have: handle -> content of the record
          Calm,         \* a bound: those of devices that are proper, whose records
                        \* have one part and do not change
          Manners,      \* how the others may answer, of AllManners
          MaxParts,     \* a bound on the parts of a record
          MaxChanges,   \* a bound on the changes the device makes
          PartLimit,    \* multipartTransferLimit
          None          \* no container id

\* A proper device refuses to go on with a record that is another by now, a
\* lax one goes on.  The others send a record that never ends, a list of
\* records that begins again after the last, or nothing in place of a record.
AllManners == {"proper", "lax", "endless", "cyclic", "empty"}

ASSUME PdrAssumption ==
  /\ \A r \in Repositories : DOMAIN r \subseteq Nat \ {0} /\ IsFiniteSet(DOMAIN r)
  /\ Calm \subseteq Repositories /\ Manners \subseteq AllManners
  /\ MaxParts \in Nat \ {0} /\ PartLimit \in Nat \ {0} /\ MaxChanges \in Nat

VARIABLES
  contents,    \* what is in the device's records
  manner,      \* how it answers
  device,      \* the records it has now: handle -> number and parts
  changes,     \* how often it has changed them
  pc,          \* where pdrManagerInit is
  pdrRepoInfo, \* the answer to GetPDRRepositoryInfo, and the changes until then
  tries,       \* noOfCommandTries
  began,       \* the changes until this try began
  recordCount, \* the records still to ask for in this try
  transfer,    \* the record being read
  devicePDRs,  \* the records read in this try, by the handle in their header
  _pdrRepo,    \* the repository
  _containerID \* the container of the terminus, from its locator

deviceVars == <<contents, manner, device, changes>>
readVars   == <<pdrRepoInfo, tries, began, recordCount, transfer, devicePDRs, _pdrRepo, _containerID>>
pdrVars    == <<deviceVars, pc, readVars>>

Tries == 3

\* constructPDRRepo has returned true: the records are looked at next.
Constructed == "constructed"

-----------------------------------------------------------------------------
(***************************************************************************)
(* The device.                                                             *)
(***************************************************************************)
Handles == DOMAIN device

FirstHandle == CHOOSE h \in Handles : \A g \in Handles : h <= g

After(h) == {g \in Handles : g > h}

NextHandle(h) ==
  IF After(h) # {} THEN CHOOSE g \in After(h) : \A f \in After(h) : g <= f
  ELSE IF manner = "cyclic" THEN FirstHandle ELSE 0

\* The whole record with handle h
Whole(h) ==
  [k \in 1 .. device[h].parts |->
     [handle |-> h, number |-> device[h].number, part |-> k, of |-> device[h].parts]]

NoRecord == [handle |-> 0, op |-> "first", dataTransferHandle |-> 0, changeNumber |-> 0,
             limit |-> PartLimit, pdrRecord |-> <<>>]

\* The record a request is about
Asked == IF transfer.handle = 0 THEN FirstHandle ELSE transfer.handle

Part(h, k, flag) ==
  [next |-> NextHandle(h), dataTransferHandle |-> k + 1, flag |-> flag,
   data |-> <<Whole(h)[k]>>, crc |-> Whole(h)]

FirstPart(h) ==
  IF manner = "empty" THEN [Part(h, 1, "startAndEnd") EXCEPT !.data = <<>>]
  ELSE Part(h, 1, IF device[h].parts = 1 THEN "startAndEnd" ELSE "start")

NextPart(h, k) ==
  IF manner = "endless" THEN [Part(h, 1, "middle") EXCEPT !.data = <<>>, !.dataTransferHandle = 5 - k]
  ELSE Part(h, k, IF k < device[h].parts THEN "middle" ELSE "end")

\* The device goes on with part k of the record, which may be another by now.
Continues(h, k) ==
  \/ manner = "endless"
  \/ k <= device[h].parts /\ (manner = "lax" \/ device[h].number = transfer.changeNumber)

\* What the device may answer to the request that is on its way.
Answers ==
  IF Handles = {} \/ Asked \notin Handles THEN {}
  ELSE IF transfer.op = "first" THEN {FirstPart(Asked)}
  ELSE IF Continues(Asked, transfer.dataTransferHandle)
       THEN {NextPart(Asked, transfer.dataTransferHandle)} ELSE {}

Change(d) ==
  /\ changes < MaxChanges /\ contents \notin Calm
  /\ pc \in {"info", "record"}
  /\ device' = d
  /\ changes' = changes + 1
  /\ UNCHANGED <<contents, manner, pc, readVars>>

\* The device changes a record,
ChangeRecord ==
  \E h \in Handles, n \in 1 .. MaxParts :
    Change([device EXCEPT ![h] = [number |-> @.number + 1, parts |-> n]])

\* drops one,
DropRecord == \E h \in Handles : Change([g \in Handles \ {h} |-> device[g]])

\* or has one again.
AddBack ==
  \E h \in DOMAIN contents \ Handles, n \in 1 .. MaxParts :
    Change([g \in Handles \cup {h} |->
              IF g = h THEN [number |-> changes + 1, parts |-> n] ELSE device[g]])

-----------------------------------------------------------------------------
(***************************************************************************)
(* GetPDRRepositoryInfo.                                                   *)
(***************************************************************************)
NoInfo == [record_count |-> 0, largest_record_size |-> 0, seen |-> 0]

Largest ==
  IF Handles = {} THEN 0
  ELSE CHOOSE n \in 1 .. MaxParts :
         /\ \E h \in Handles : device[h].parts = n
         /\ \A h \in Handles : device[h].parts <= n

\* Broken variant: what was read in a try that failed is kept.
Kept(pdrs) == pdrs

\* devicePDRs.clear()
Cleared(pdrs) == <<>>

\* getDevicePDRRepo begins, with nothing read.
BeginTry(count) ==
  /\ pc' = "record"
  /\ recordCount' = count
  /\ transfer' = NoRecord
  /\ devicePDRs' = Cleared(devicePDRs)
  /\ began' = changes

getPDRRepositoryInfo ==
  /\ pc = "info"
  /\ pdrRepoInfo' = [record_count |-> Cardinality(Handles), largest_record_size |-> Largest,
                     seen |-> changes]
  /\ _pdrRepo' = <<>>
  /\ tries' = Tries - 1
  /\ UNCHANGED <<deviceVars, _containerID>>
  /\ \/ Handles # {} /\ BeginTry(Cardinality(Handles))
     \/ \* no records, or the repository is not available now
        pc' = "failed" /\ UNCHANGED <<recordCount, transfer, devicePDRs, began>>

InfoFails ==
  /\ pc = "info"
  /\ pc' = "failed"
  /\ UNCHANGED <<deviceVars, readVars>>

-----------------------------------------------------------------------------
(***************************************************************************)
(* GetPDR.                                                                 *)
(***************************************************************************)
\* The try has failed: constructPDRRepo tries again, with nothing kept.
TryFails ==
  /\ UNCHANGED <<deviceVars, pdrRepoInfo, _pdrRepo, _containerID>>
  /\ IF tries # 0
     THEN tries' = tries - 1 /\ BeginTry(pdrRepoInfo.record_count)
     ELSE pc' = "failed" /\ UNCHANGED <<tries, recordCount, transfer, devicePDRs, began>>

\* A record is kept under the handle in its header, unless that is taken.
Emplaced(r) ==
  IF r = <<>> \/ r[1].handle \in DOMAIN devicePDRs THEN devicePDRs
  ELSE [h \in DOMAIN devicePDRs \cup {r[1].handle} |->
          IF h = r[1].handle THEN r ELSE devicePDRs[h]]

\* getDevicePDRRepo has record r.
RecordRead(r, next) ==
  /\ devicePDRs' = Emplaced(r)
  /\ recordCount' = IF next # 0 THEN recordCount - 1 ELSE recordCount
  /\ IF next # 0 /\ recordCount' # 0
     THEN transfer' = [NoRecord EXCEPT !.handle = next] /\ UNCHANGED pc
     ELSE pc' = "adding" /\ transfer' = NoRecord
  /\ UNCHANGED <<deviceVars, pdrRepoInfo, tries, began, _pdrRepo, _containerID>>

Complete(a) == a.flag \in {"end", "startAndEnd"}

\* handleGetPDRResp finds nothing wrong with the answer.
Sound(a, record) == a.flag = "end" => record = a.crc

\* The record is larger than any was, or this was the last part that is taken.
PastLimit(record) ==
  Len(record) > pdrRepoInfo.largest_record_size \/ transfer.limit = 1

\* Broken variant: the parts are not counted.
Uncounted(limit) == limit

Counted(limit) == limit - 1

handleGetPDRResp ==
  /\ pc = "record"
  /\ \E a \in Answers :
       LET record == transfer.pdrRecord \o a.data
       IN  IF ~Sound(a, record) \/ PastLimit(record) THEN TryFails
           ELSE IF Complete(a) THEN RecordRead(record, a.next)
           ELSE /\ transfer' = [transfer EXCEPT
                     !.pdrRecord = record, !.op = "next", !.limit = Counted(@),
                     !.dataTransferHandle = a.dataTransferHandle,
                     !.changeNumber = IF a.flag = "start" THEN record[1].number ELSE @]
                /\ UNCHANGED <<deviceVars, pc, pdrRepoInfo, tries, began, recordCount, devicePDRs,
                               _pdrRepo, _containerID>>

\* No answer, or an error.
GetPDRFails == pc = "record" /\ TryFails

-----------------------------------------------------------------------------
(***************************************************************************)
(* The repository.  devicePDRs is a map without an order.                  *)
(***************************************************************************)
pldm_pdr_add(repo, record) == Append(repo, record)

pldm_pdr_get_record_count(repo) == Len(repo)

Added == {_pdrRepo[i][1].handle : i \in DOMAIN _pdrRepo}

IsLocator(h) == contents[h].type = "locator" /\ contents[h].valid

\* A second locator ends it; what is in the repository by then stays.
addDevicePDRToRepo ==
  /\ pc = "adding"
  /\ \E h \in DOMAIN devicePDRs \ Added :
       /\ IF IsLocator(h) /\ \E g \in Added : IsLocator(g)
          THEN pc' = "failed" /\ UNCHANGED <<_pdrRepo, _containerID>>
          ELSE /\ _pdrRepo' = pldm_pdr_add(_pdrRepo, devicePDRs[h])
               /\ _containerID' = IF IsLocator(h) THEN contents[h].container ELSE _containerID
               /\ UNCHANGED pc
  /\ UNCHANGED <<deviceVars, pdrRepoInfo, tries, began, recordCount, transfer, devicePDRs>>

\* constructPDRRepo compares the number of records.
CountRecords ==
  /\ pc = "adding" /\ DOMAIN devicePDRs \subseteq Added
  /\ pc' = IF pldm_pdr_get_record_count(_pdrRepo) = pdrRepoInfo.record_count
           THEN Constructed ELSE "failed"
  /\ UNCHANGED <<deviceVars, readVars>>

-----------------------------------------------------------------------------
\* A PDRManager that has not read anything
NewManager ==
  /\ pdrRepoInfo = NoInfo
  /\ tries = Tries
  /\ began = 0
  /\ recordCount = 0
  /\ transfer = NoRecord
  /\ devicePDRs = <<>>
  /\ _pdrRepo = <<>>
  /\ _containerID = None

RenewManager ==
  /\ pdrRepoInfo' = NoInfo
  /\ tries' = Tries
  /\ began' = 0
  /\ recordCount' = 0
  /\ transfer' = NoRecord
  /\ devicePDRs' = <<>>
  /\ _pdrRepo' = <<>>
  /\ _containerID' = None

PdrInit ==
  /\ contents \in Repositories
  /\ manner \in IF contents \in Calm THEN {"proper"} ELSE Manners
  /\ device \in [DOMAIN contents ->
                   [number : {0}, parts : 1 .. IF contents \in Calm THEN 1 ELSE MaxParts]]
  /\ changes = 0
  /\ pc = "info"
  /\ NewManager

\* The steps of pdrManagerInit up to the end of constructPDRRepo
Construct ==
  \/ getPDRRepositoryInfo
  \/ InfoFails
  \/ handleGetPDRResp
  \/ GetPDRFails
  \/ addDevicePDRToRepo
  \/ CountRecords

DeviceStep == ChangeRecord \/ DropRecord \/ AddBack

-----------------------------------------------------------------------------
\* Record r is whole, and of one version.
IsWhole(r) ==
  /\ r # <<>>
  /\ \A k \in DOMAIN r : r[k] = [r[1] EXCEPT !.part = k]
  /\ Len(r) = r[1].of

Records == {_pdrRepo[i] : i \in DOMAIN _pdrRepo}

(***************************************************************************)
(* A repository that is constructed comes from one reading: its records    *)
(* are whole and of one version each, none is there twice, and when the    *)
(* device has not changed since the try that succeeded began they are its  *)
(* records - all of them when it has not changed since it was asked how    *)
(* many there are.                                                         *)
(***************************************************************************)
OneReading ==
  pc = Constructed =>
    /\ \A r \in Records : IsWhole(r)
    /\ Cardinality(Added) = Len(_pdrRepo)
    /\ changes = began => Records \subseteq {Whole(h) : h \in Handles}
    /\ changes = pdrRepoInfo.seen => Records = {Whole(h) : h \in Handles}
=============================================================================
