-------------------------- MODULE PdrManagerProofs --------------------------
(***************************************************************************)
(* What pldmd makes of the records of a terminus, for any repositories,    *)
(* any number of parts and changes, and every manner of answering.         *)
(*                                                                         *)
(* First: a repository that is constructed is one reading.  Parts of two   *)
(* versions may well be spliced while a record is read; that they are not  *)
(* kept follows at the last part, from the checksum.  From then on the     *)
(* records read stay whole, and are the device's for as long as it has not *)
(* changed since the try began (RecordsRead).  The repository is a part of *)
(* them, without repetition (RecordsAdded), and when their number is the   *)
(* one asked for before any change (Counts), nothing is missing.           *)
(*                                                                         *)
(* Then: the hierarchy is what containment leads to.  While the tree grows *)
(* its nodes are containments the records tell of (ContainTree), what is   *)
(* in an entity is in the tree or its association is still in the list,    *)
(* and an entity of the tree is no more containments away than there are   *)
(* associations taken from the list (TreeStage).  A pass that takes none   *)
(* leaves a tree nothing can be added to (Closed); that is a set closed    *)
(* under containment, and the bound on the distance says that everything   *)
(* in it is reached.                                                       *)
(*                                                                         *)
(* Last: the objects follow the entities, record by record (Published).    *)
(*                                                                         *)
(* Both rest on what the folds of the model do, element by element         *)
(* (IsRun), and on the order of the ways to the nodes of a tree, in which  *)
(* of any nodes one is the first (FirstOf).                                *)
(***************************************************************************)
EXTENDS PdrManager, FiniteSetTheorems, SequenceTheorems, WellFoundedInduction, TLAPS

Parts == [handle : Nat, number : Nat, part : Nat, of : Nat]

DeviceTypes ==
  /\ contents \in Repositories
  /\ DOMAIN device \subseteq DOMAIN contents
  /\ device \in [DOMAIN device -> [number : Nat, parts : Nat \ {0}]]
  /\ changes \in Nat /\ began \in 0 .. changes /\ pdrRepoInfo.seen \in Nat

\* The stages of the reading after the repository information is there
Reading == pc \in {"record", "adding", Constructed}

\* What the transfer of a record needs: nothing is there before the first part.
TransferBegins ==
  /\ {"op", "pdrRecord"} \subseteq DOMAIN transfer
  /\ transfer.op = "first" => transfer.pdrRecord = <<>>

\* Record r is whole and filed under h, and is the device's of now when that
\* has not changed since the try began.
ReadAs(r, h) ==
  /\ r \in Seq(Parts) /\ IsWhole(r) /\ r[1].handle = h
  /\ changes = began => h \in Handles /\ r = Whole(h)

RecordsRead == \A h \in DOMAIN devicePDRs : ReadAs(devicePDRs[h], h)

RecordsAdded ==
  /\ _pdrRepo \in Seq(Seq(Parts))
  /\ pc \in {"info", "record"} => _pdrRepo = <<>>
  /\ pc \in {"adding", Constructed} =>
       /\ \A i \in DOMAIN _pdrRepo : \E h \in DOMAIN devicePDRs : _pdrRepo[i] = devicePDRs[h]
       /\ \A i, j \in DOMAIN _pdrRepo : _pdrRepo[i][1].handle = _pdrRepo[j][1].handle => i = j

Counts ==
  Reading =>
    /\ pdrRepoInfo.seen <= began /\ began <= changes
    /\ changes = pdrRepoInfo.seen => pdrRepoInfo.record_count = Cardinality(Handles)
    /\ pc = Constructed => Len(_pdrRepo) = pdrRepoInfo.record_count

PdrInv == DeviceTypes /\ TransferBegins /\ RecordsRead /\ RecordsAdded /\ Counts

-----------------------------------------------------------------------------
(***************************************************************************)
(* Facts about what a device sends.                                        *)
(***************************************************************************)
\* An empty sequence has no positions.
LEMMA NothingThere == DOMAIN <<>> = {} /\ \A S : <<>> \in Seq(S) /\ Len(<<>>) = 0
<1>1. \A S : <<>> \in Seq(S) /\ Len(<<>>) = 0
  BY EmptySeq
<1>2. DOMAIN <<>> = 1 .. Len(<<>>)
  BY <1>1, LenProperties
<1> QED
  BY <1>1, <1>2

\* A device has finitely many records.
LEMMA HandlesFinite ==
    ASSUME DeviceTypes
    PROVE  Handles \subseteq Nat /\ IsFiniteSet(Handles) /\ Cardinality(Handles) \in Nat
<1>1. DOMAIN contents \subseteq Nat /\ IsFiniteSet(DOMAIN contents)
  BY PdrAssumption DEF DeviceTypes
<1>2. Handles \in SUBSET DOMAIN contents
  BY DEF DeviceTypes, Handles
<1> QED
  BY <1>1, <1>2, FS_Subset, FS_CardinalityType

\* What a device holds under a handle is a whole record of that handle.
LEMMA WholeFacts ==
    ASSUME DeviceTypes, NEW h \in Handles
    PROVE  /\ Whole(h) \in Seq(Parts) /\ Len(Whole(h)) = device[h].parts
           /\ IsWhole(Whole(h)) /\ Whole(h)[1].handle = h
<1> DEFINE n == device[h].parts
           p(k) == [handle |-> h, number |-> device[h].number, part |-> k, of |-> n]
<1>1. h \in Nat /\ n \in Nat \ {0} /\ device[h].number \in Nat
  BY HandlesFinite DEF DeviceTypes, Handles
<1>2. \A k \in 1 .. n : p(k) \in Parts
  BY <1>1 DEF Parts
<1>3. Whole(h) = [k \in 1 .. n |-> p(k)]
  BY DEF Whole
<1>4. Whole(h) \in Seq(Parts)
  <2> HIDE DEF n, p
  <2>1. [k \in 1 .. n |-> p(k)] \in Seq(Parts)
    BY <1>1, <1>2, IsASeq
  <2> QED
    BY <1>3, <2>1
<1>5. Len(Whole(h)) = n
  BY <1>1, <1>3, <1>4, LenProperties
<1>6. Whole(h)[1] = p(1)
  BY <1>1, <1>3
<1>7. IsWhole(Whole(h))
  <2>1. Whole(h) # <<>>
    BY <1>1, <1>5, NothingThere
  <2>2. \A k \in DOMAIN Whole(h) : Whole(h)[k] = [p(1) EXCEPT !.part = k]
    BY <1>3
  <2>3. p(1).of = n
    OBVIOUS
  <2> QED
    BY <1>5, <1>6, <2>1, <2>2, <2>3 DEF IsWhole
<1> QED
  BY <1>4, <1>5, <1>6, <1>7

\* A complete answer that is sound makes a whole record of now, or nothing.
LEMMA Completed ==
    ASSUME DeviceTypes, TransferBegins, NEW a \in Answers,
           Complete(a), Sound(a, transfer.pdrRecord \o a.data)
    PROVE  LET record == transfer.pdrRecord \o a.data
           IN  record = <<>> \/ \E h \in Handles : record = Whole(h)
<1> DEFINE record == transfer.pdrRecord \o a.data
<1>1. Asked \in Handles
  BY DEF Answers
<1>2. CASE transfer.op = "first"
  <2>1. a = FirstPart(Asked) /\ transfer.pdrRecord = <<>>
    BY <1>1, <1>2 DEF Answers, TransferBegins
  <2>2. CASE manner = "empty"
    <3>1. a.data = <<>>
      BY <2>1, <2>2 DEF FirstPart, Part
    <3> QED
      BY <2>1, <3>1, NothingThere, ConcatEmptySeq
  <2>3. CASE manner # "empty"
    <3>1. a = Part(Asked, 1, IF device[Asked].parts = 1 THEN "startAndEnd" ELSE "start")
      BY <2>1, <2>3 DEF FirstPart
    <3>2. a.flag = (IF device[Asked].parts = 1 THEN "startAndEnd" ELSE "start")
          /\ a.data = <<Whole(Asked)[1]>>
      BY <3>1 DEF Part
    <3>3. device[Asked].parts = 1
      BY <3>2 DEF Complete
    <3>4. Whole(Asked) \in Seq(Parts) /\ Len(Whole(Asked)) = 1
      BY <1>1, <3>3, WholeFacts
    <3>5. Whole(Asked)[1] \in Parts
      BY SMTT(30), <3>4, LenProperties
    <3>6. <<Whole(Asked)[1]>> \in Seq(Parts) /\ Len(<<Whole(Asked)[1]>>) = 1
          /\ <<Whole(Asked)[1]>>[1] = Whole(Asked)[1]
      BY <3>5
    <3>7. <<Whole(Asked)[1]>> = Whole(Asked)
      BY <3>4, <3>6, SeqEqual
    <3>8. record = Whole(Asked)
      BY <2>1, <3>2, <3>4, <3>7, ConcatEmptySeq
    <3> QED
      BY <1>1, <3>8
  <2> QED
    BY <2>2, <2>3
<1>3. CASE transfer.op # "first"
  <2>1. a = NextPart(Asked, transfer.dataTransferHandle)
    BY <1>1, <1>3 DEF Answers
  <2>2. a.flag \in {"middle", "end"} /\ (a.flag = "end" => a.crc = Whole(Asked))
    BY <2>1 DEF NextPart, Part
  <2>3. record = Whole(Asked)
    BY <2>2 DEF Complete, Sound
  <2> QED
    BY <1>1, <2>3
<1> QED
  BY <1>2, <1>3

-----------------------------------------------------------------------------
(***************************************************************************)
(* The steps.                                                              *)
(***************************************************************************)
\* A record keeps what it is as long as the device and the try stay.
LEMMA StillRead ==
    ASSUME UNCHANGED <<deviceVars, began>>, NEW r, NEW h, ReadAs(r, h)
    PROVE  ReadAs(r, h)'
  BY DEF ReadAs, deviceVars, Handles, Whole, IsWhole

\* Nothing is wrong with no records: devicePDRs.clear().
LEMMA NothingRead == devicePDRs' = <<>> => RecordsRead'
  BY NothingThere DEF RecordsRead

\* A transfer that has not begun has no part.
LEMMA FreshTransfer == transfer' = NoRecord => TransferBegins'
  BY DEF TransferBegins, NoRecord

\* getDevicePDRRepo begins with nothing read, and notes the changes until now.
LEMMA BeganTry ==
    ASSUME PdrInv, pc \in {"info", "record"}, NEW n, BeginTry(n), UNCHANGED deviceVars,
           _pdrRepo' = <<>>, pdrRepoInfo'.seen \in Nat,
           pdrRepoInfo'.seen <= changes,
           changes = pdrRepoInfo'.seen => pdrRepoInfo'.record_count = Cardinality(Handles)
    PROVE  PdrInv'
<1> USE DEF PdrInv, BeginTry, deviceVars
<1>1. DeviceTypes'
  BY DEF DeviceTypes
<1>2. TransferBegins'
  BY FreshTransfer
<1>3. RecordsRead'
  BY NothingRead DEF Cleared
<1>4. RecordsAdded'
  BY NothingThere DEF RecordsAdded, Constructed
<1>5. Counts'
  BY DEF Counts, Handles, Constructed, DeviceTypes
<1> QED
  BY <1>1, <1>2, <1>3, <1>4, <1>5

\* Where the reading is given up, or left behind, nothing but types is said.
LEMMA LeftBehind ==
    ASSUME PdrInv, pc' \notin {"info", "record", "adding", Constructed},
           UNCHANGED <<deviceVars, began, pdrRepoInfo, transfer, devicePDRs, _pdrRepo>>
    PROVE  PdrInv'
<1> USE DEF PdrInv
<1>1. DeviceTypes'
  BY DEF DeviceTypes, deviceVars
<1>2. TransferBegins'
  BY DEF TransferBegins
<1>3. RecordsRead'
  BY StillRead DEF RecordsRead
<1>4. RecordsAdded'
  BY DEF RecordsAdded
<1>5. Counts'
  BY DEF Counts, Reading
<1> QED
  BY <1>1, <1>2, <1>3, <1>4, <1>5

\* A try that fails is begun again, or the reading is given up.
LEMMA TryFailsStep == PdrInv /\ pc = "record" /\ TryFails => PdrInv'
<1> SUFFICES ASSUME PdrInv, pc = "record", TryFails PROVE PdrInv'
  OBVIOUS
<1> USE DEF PdrInv
<1>1. UNCHANGED <<deviceVars, pdrRepoInfo, _pdrRepo>>
  BY DEF TryFails
<1>2. CASE tries # 0
  <2>1. _pdrRepo' = <<>>
    BY <1>1 DEF RecordsAdded
  <2>2. BeginTry(pdrRepoInfo.record_count)
    BY <1>2 DEF TryFails
  <2>3. /\ pdrRepoInfo'.seen \in Nat /\ pdrRepoInfo'.seen <= changes
        /\ changes = pdrRepoInfo'.seen => pdrRepoInfo'.record_count = Cardinality(Handles)
    BY <1>1 DEF DeviceTypes, Counts, Reading
  <2> QED
    BY <1>1, <2>1, <2>2, <2>3, BeganTry
<1>3. CASE tries = 0
  BY <1>1, <1>3, LeftBehind DEF TryFails, Constructed
<1> QED
  BY <1>2, <1>3

\* GetPDRRepositoryInfo counts the records before the first try begins.
LEMMA InfoStep == PdrInv /\ getPDRRepositoryInfo => PdrInv'
<1> SUFFICES ASSUME PdrInv, getPDRRepositoryInfo PROVE PdrInv'
  OBVIOUS
<1> USE DEF PdrInv
<1>1. /\ pc = "info" /\ UNCHANGED deviceVars /\ _pdrRepo' = <<>>
      /\ pdrRepoInfo'.seen = changes /\ pdrRepoInfo'.record_count = Cardinality(Handles)
  BY DEF getPDRRepositoryInfo
<1>2. CASE BeginTry(Cardinality(Handles))
  BY <1>1, <1>2, BeganTry DEF DeviceTypes
<1>3. CASE pc' = "failed" /\ UNCHANGED <<transfer, devicePDRs, began>>
  <2>1. DeviceTypes'
    BY <1>1, <1>3 DEF DeviceTypes, deviceVars
  <2>2. TransferBegins'
    BY <1>3 DEF TransferBegins
  <2>3. RecordsRead'
    BY <1>1, <1>3, StillRead DEF RecordsRead
  <2>4. RecordsAdded' /\ Counts'
    BY <1>1, <1>3, NothingThere DEF RecordsAdded, Counts, Reading, Constructed
  <2> QED
    BY <2>1, <2>2, <2>3, <2>4
<1> QED
  BY <1>2, <1>3 DEF getPDRRepositoryInfo

\* A whole record is filed under the handle in its header.
LEMMA RecordReadStep ==
    ASSUME PdrInv, pc = "record", NEW r, NEW next, RecordRead(r, next),
           r = <<>> \/ \E h \in Handles : r = Whole(h)
    PROVE  PdrInv'
<1> USE DEF PdrInv
<1>1. UNCHANGED <<deviceVars, pdrRepoInfo, began, _pdrRepo>> /\ devicePDRs' = Emplaced(r)
  BY DEF RecordRead
<1>2. pc' \in {"record", "adding"} /\ TransferBegins'
  <2>1. transfer' = [NoRecord EXCEPT !.handle = next] \/ transfer' = NoRecord
    BY DEF RecordRead
  <2>2. pc' \in {"record", "adding"}
    BY DEF RecordRead
  <2> QED
    BY <2>1, <2>2 DEF TransferBegins, NoRecord
<1>3. RecordsRead'
  <2>1. CASE devicePDRs' = devicePDRs
    BY <1>1, <2>1, StillRead DEF RecordsRead
  <2>2. CASE devicePDRs' # devicePDRs
    <3>1. r # <<>> /\ devicePDRs' = [h \in DOMAIN devicePDRs \cup {r[1].handle} |->
                                       IF h = r[1].handle THEN r ELSE devicePDRs[h]]
      BY <1>1, <2>2 DEF Emplaced
    <3>2. PICK g \in Handles : r = Whole(g)
      BY <3>1
    <3>3. ReadAs(r, g) /\ r[1].handle = g
      BY <3>2, WholeFacts DEF ReadAs
    <3>4. \A h \in DOMAIN devicePDRs' : ReadAs(devicePDRs'[h], h)
      BY <3>1, <3>3 DEF RecordsRead
    <3> QED
      BY <1>1, <3>4, StillRead DEF RecordsRead
  <2> QED
    BY <2>1, <2>2
<1>4. DeviceTypes'
  BY <1>1 DEF DeviceTypes, deviceVars
<1>5. RecordsAdded'
  <2>1. _pdrRepo' = <<>>
    BY <1>1 DEF RecordsAdded
  <2> QED
    BY <2>1, NothingThere DEF RecordsAdded
<1>6. Counts'
  BY <1>1, <1>2 DEF Counts, Reading, Handles, deviceVars, Constructed
<1> QED
  BY <1>2, <1>3, <1>4, <1>5, <1>6

\* An answer to GetPDR fails the try, ends a record or goes on with it.
LEMMA ResponseStep == PdrInv /\ handleGetPDRResp => PdrInv'
<1> SUFFICES ASSUME PdrInv, handleGetPDRResp PROVE PdrInv'
  OBVIOUS
<1>1. pc = "record"
  BY DEF handleGetPDRResp
<1>2. CASE TryFails
  BY <1>1, <1>2, TryFailsStep
<1>3. ASSUME NEW a \in Answers, Complete(a), Sound(a, transfer.pdrRecord \o a.data),
             RecordRead(transfer.pdrRecord \o a.data, a.next)
      PROVE  PdrInv'
  BY <1>1, <1>3, Completed, RecordReadStep DEF PdrInv
<1>4. ASSUME NEW a \in Answers,
             "op" \in DOMAIN transfer' /\ "pdrRecord" \in DOMAIN transfer',
             transfer'.op = "next",
             UNCHANGED <<deviceVars, pc, pdrRepoInfo, began, devicePDRs, _pdrRepo>>
      PROVE  PdrInv'
  <2> USE DEF PdrInv
  <2>1. DeviceTypes'
    BY <1>4 DEF DeviceTypes, deviceVars
  <2>2. TransferBegins'
    BY <1>4 DEF TransferBegins
  <2>3. RecordsRead'
    BY <1>4, StillRead DEF RecordsRead
  <2>4. RecordsAdded' /\ Counts'
    BY <1>4 DEF RecordsAdded, Counts, Reading, Handles, deviceVars
  <2> QED
    BY <2>1, <2>2, <2>3, <2>4
<1>5. ASSUME NEW a \in Answers, NEW record,
             transfer' = [transfer EXCEPT
                !.pdrRecord = record, !.op = "next", !.limit = Counted(@),
                !.dataTransferHandle = a.dataTransferHandle,
                !.changeNumber = IF a.flag = "start" THEN record[1].number ELSE @]
      PROVE  /\ "op" \in DOMAIN transfer' /\ "pdrRecord" \in DOMAIN transfer'
             /\ transfer'.op = "next"
  BY <1>5 DEF PdrInv, TransferBegins
<1> QED
  BY <1>2, <1>3, <1>4, <1>5 DEF handleGetPDRResp

\* Before the first record is read a change has nothing to spoil, and after
\* it what was read is no longer said to be the device's.
LEMMA DeviceStepKeeps == PdrInv /\ DeviceStep => PdrInv'
<1> DEFINE Versions == [number : Nat, parts : Nat \ {0}]
<1>1. ASSUME PdrInv, NEW d, Change(d), DOMAIN d \subseteq DOMAIN contents,
             d \in [DOMAIN d -> Versions]
      PROVE  PdrInv'
  <2> USE DEF PdrInv
  <2>1. /\ changes' = changes + 1 /\ device' = d /\ pc \in {"info", "record"}
        /\ UNCHANGED <<contents, pc, pdrRepoInfo, began, transfer, devicePDRs, _pdrRepo>>
    BY <1>1 DEF Change, readVars
  <2>2. changes \in Nat /\ began \in 0 .. changes /\ pdrRepoInfo.seen \in Nat
    BY <1>1 DEF DeviceTypes
  <2>3. changes' # began' /\ changes' \in Nat /\ began' \in 0 .. changes'
    BY <2>1, <2>2
  <2>4. DeviceTypes'
    BY <1>1, <2>1, <2>3 DEF DeviceTypes
  <2>5. TransferBegins'
    BY <1>1, <2>1 DEF TransferBegins
  <2>6. RecordsRead'
    BY <1>1, <2>1, <2>3 DEF RecordsRead, ReadAs, IsWhole
  <2>7. RecordsAdded'
    BY <1>1, <2>1 DEF RecordsAdded, Constructed
  <2>8. Counts'
    <3>1. Reading' =>
            pdrRepoInfo'.seen <= began' /\ began' <= changes' /\ changes' # pdrRepoInfo'.seen
      <4>1. Reading' => pdrRepoInfo.seen <= began
        BY <1>1, <2>1 DEF Counts, Reading
      <4> QED
        BY <2>1, <2>2, <4>1
    <3>2. pc' # Constructed
      BY <2>1 DEF Constructed
    <3> QED
      BY <3>1, <3>2 DEF Counts
  <2> QED
    BY <2>4, <2>5, <2>6, <2>7, <2>8
<1> SUFFICES ASSUME PdrInv, DeviceStep PROVE PdrInv'
  OBVIOUS
<1>2. /\ DOMAIN device \subseteq DOMAIN contents /\ device \in [Handles -> Versions]
      /\ changes \in Nat /\ MaxParts \in Nat
  BY PdrAssumption DEF PdrInv, DeviceTypes, Handles
<1>3. CASE ChangeRecord
  <2>1. PICK h \in Handles, n \in 1 .. MaxParts :
          Change([device EXCEPT ![h] = [number |-> @.number + 1, parts |-> n]])
    BY <1>3 DEF ChangeRecord
  <2> DEFINE d == [device EXCEPT ![h] = [number |-> @.number + 1, parts |-> n]]
  <2>2. [number |-> device[h].number + 1, parts |-> n] \in Versions
    BY <1>2
  <2>3. d \in [Handles -> Versions]
    <3> HIDE DEF Versions
    <3> QED
      BY <1>2, <2>2
  <2>4. DOMAIN d = Handles
    BY <2>3
  <2> QED
    <3> HIDE DEF d, Versions
    <3>1. Change(d)
      BY <2>1 DEF d
    <3> QED
      BY <1>1, <1>2, <2>3, <2>4, <3>1 DEF Handles
<1>4. CASE DropRecord
  <2>1. PICK h \in Handles : Change([g \in Handles \ {h} |-> device[g]])
    BY <1>4 DEF DropRecord
  <2> DEFINE d == [g \in Handles \ {h} |-> device[g]]
  <2>2. DOMAIN d = Handles \ {h} /\ d \in [Handles \ {h} -> Versions]
    <3> HIDE DEF Versions
    <3> QED
      BY <1>2
  <2> QED
    <3> HIDE DEF d, Versions
    <3>1. Change(d)
      BY <2>1 DEF d
    <3> QED
      BY <1>1, <1>2, <2>2, <3>1 DEF Handles
<1>5. CASE AddBack
  <2>1. PICK h \in DOMAIN contents \ Handles, n \in 1 .. MaxParts :
          Change([g \in Handles \cup {h} |->
                    IF g = h THEN [number |-> changes + 1, parts |-> n] ELSE device[g]])
    BY <1>5 DEF AddBack
  <2> DEFINE v == [number |-> changes + 1, parts |-> n]
             d == [g \in Handles \cup {h} |-> IF g = h THEN v ELSE device[g]]
  <2>2. v \in Versions
    BY <1>2
  <2>3. DOMAIN d = Handles \cup {h} /\ d \in [Handles \cup {h} -> Versions]
    <3> HIDE DEF Versions, v
    <3> QED
      BY <1>2, <2>2
  <2> QED
    <3> HIDE DEF d, Versions
    <3>1. Change(d)
      BY <2>1 DEF d
    <3> QED
      BY <1>1, <1>2, <2>3, <3>1 DEF Handles
<1> QED
  BY <1>3, <1>4, <1>5 DEF DeviceStep

\* No record is added twice: the one that is added is of a new handle.
LEMMA AddStep == PdrInv /\ addDevicePDRToRepo => PdrInv'
<1> SUFFICES ASSUME PdrInv, addDevicePDRToRepo PROVE PdrInv'
  OBVIOUS
<1> USE DEF PdrInv
<1>1. /\ pc = "adding"
      /\ UNCHANGED <<deviceVars, pdrRepoInfo, began, transfer, devicePDRs>>
  BY DEF addDevicePDRToRepo
<1>2. CASE pc' = "failed" /\ UNCHANGED _pdrRepo
  BY <1>1, <1>2, LeftBehind DEF Constructed
<1>3. ASSUME NEW h \in DOMAIN devicePDRs \ Added, UNCHANGED pc,
             _pdrRepo' = Append(_pdrRepo, devicePDRs[h])
      PROVE  PdrInv'
  <2> DEFINE n == Len(_pdrRepo)
  <2>1. ReadAs(devicePDRs[h], h) /\ _pdrRepo \in Seq(Seq(Parts))
    BY <1>3 DEF RecordsRead, RecordsAdded
  <2>2. devicePDRs[h] \in Seq(Parts) /\ devicePDRs[h][1].handle = h
    BY <2>1 DEF ReadAs
  <2>3. /\ _pdrRepo' \in Seq(Seq(Parts)) /\ Len(_pdrRepo') = n + 1
        /\ \A i \in 1 .. n : _pdrRepo'[i] = _pdrRepo[i]
        /\ _pdrRepo'[n + 1] = devicePDRs[h]
    BY <1>3, <2>1, <2>2, AppendProperties
  <2>4. n \in Nat /\ DOMAIN _pdrRepo = 1 .. n /\ DOMAIN _pdrRepo' = 1 .. (n + 1)
    BY <2>1, <2>3, LenProperties
  <2>5. \A i \in 1 .. n : _pdrRepo[i][1].handle # h
    BY <1>3, <2>4 DEF Added
  <2>6. RecordsAdded'
    <3> HIDE DEF n
    <3>1. \A i \in 1 .. (n + 1) : i \in 1 .. n \/ i = n + 1
      BY <2>4
    <3>2. \A i \in DOMAIN _pdrRepo' : \E g \in DOMAIN devicePDRs : _pdrRepo'[i] = devicePDRs[g]
      BY <1>1, <1>3, <2>3, <2>4, <3>1 DEF RecordsAdded
    <3>3. \A i, j \in DOMAIN _pdrRepo' :
            _pdrRepo'[i][1].handle = _pdrRepo'[j][1].handle => i = j
      <4>1. \A i, j \in 1 .. n : _pdrRepo[i][1].handle = _pdrRepo[j][1].handle => i = j
        BY <1>1, <2>4 DEF RecordsAdded
      <4>2. \A i \in 1 .. n : _pdrRepo'[i][1].handle = _pdrRepo[i][1].handle
        BY <2>3
      <4>3. \A i \in 1 .. n : _pdrRepo'[i][1].handle # h
        BY <2>5, <4>2
      <4>4. _pdrRepo'[n + 1][1].handle = h
        BY <2>2, <2>3
      <4> DEFINE H(i) == _pdrRepo'[i][1].handle
      <4>5. \A i, j \in 1 .. n : H(i) = H(j) => i = j
        BY <4>1, <4>2
      <4>6. \A i, j \in 1 .. (n + 1) : H(i) = H(j) => i = j
        <5> HIDE DEF H
        <5>1. H(n + 1) = h /\ \A i \in 1 .. n : H(i) # h
          BY <4>3, <4>4 DEF H
        <5> QED
          BY <3>1, <4>5, <5>1
      <4> QED
        BY <2>4, <4>6
    <3> QED
      BY <1>1, <1>3, <2>3, <3>2, <3>3 DEF RecordsAdded
  <2>7. DeviceTypes'
    BY <1>1 DEF DeviceTypes, deviceVars
  <2>8. TransferBegins'
    BY <1>1 DEF TransferBegins
  <2>9. RecordsRead'
    BY <1>1, StillRead DEF RecordsRead
  <2>10. Counts'
    BY <1>1, <1>3 DEF Counts, Reading, Handles, deviceVars, Constructed
  <2> QED
    BY <2>6, <2>7, <2>8, <2>9, <2>10
<1> QED
  BY <1>2, <1>3 DEF addDevicePDRToRepo, pldm_pdr_add

\* constructPDRRepo is done when as many records are there as were counted.
LEMMA CountStep == PdrInv /\ CountRecords => PdrInv'
<1> SUFFICES ASSUME PdrInv, CountRecords PROVE PdrInv'
  OBVIOUS
<1> USE DEF PdrInv
<1>1. /\ pc = "adding"
      /\ UNCHANGED <<deviceVars, pdrRepoInfo, began, transfer, devicePDRs, _pdrRepo>>
  BY DEF CountRecords, readVars
<1>2. CASE pc' = "failed"
  BY <1>1, <1>2, LeftBehind DEF Constructed
<1>3. CASE pc' = Constructed /\ Len(_pdrRepo) = pdrRepoInfo.record_count
  <2>1. DeviceTypes'
    BY <1>1 DEF DeviceTypes, deviceVars
  <2>2. TransferBegins'
    BY <1>1 DEF TransferBegins
  <2>3. RecordsRead'
    BY <1>1, StillRead DEF RecordsRead
  <2>4. RecordsAdded'
    BY <1>1, <1>3 DEF RecordsAdded, Constructed
  <2>5. Counts'
    BY <1>1, <1>3 DEF Counts, Reading, Handles, deviceVars, Constructed
  <2> QED
    BY <2>1, <2>2, <2>3, <2>4, <2>5
<1> QED
  BY <1>2, <1>3 DEF CountRecords, pldm_pdr_get_record_count

\* What is parsed afterwards leaves the records where they are.
LEMMA ParseStep ==
    ASSUME PdrInv,
           \/ ParseNames \/ ExtractAborts \/ ParseAssociations \/ createEntityAssociationTree
           \/ populateSystemHierarchy \/ ParseAuxNames \/ ParseObjects
    PROVE  PdrInv'
<1>1. UNCHANGED <<deviceVars, readVars>>
  BY DEF ParseNames, ExtractAborts, ParseAssociations, createEntityAssociationTree,
         populateSystemHierarchy, ParseAuxNames, ParseObjects
<1>2. pc' \in {"looping", "aborted", "associations", "tree", "hierarchy", "names", "objects", "done"}
  <2>1. (ParseNames => pc' \in {"looping", "associations"}) /\ (ExtractAborts => pc' = "aborted")
    BY DEF ParseNames, ExtractAborts
  <2>2. ParseAssociations => pc' \in {"hierarchy", "tree"}
    BY DEF ParseAssociations
  <2>3. createEntityAssociationTree => pc' \in {"hierarchy", "tree"}
    BY DEF createEntityAssociationTree
  <2>4. (populateSystemHierarchy => pc' = "names") /\ (ParseAuxNames => pc' = "objects")
        /\ (ParseObjects => pc' = "done")
    BY DEF populateSystemHierarchy, ParseAuxNames, ParseObjects
  <2> QED
    BY <2>1, <2>2, <2>3, <2>4
<1>3. UNCHANGED <<deviceVars, began, pdrRepoInfo, transfer, devicePDRs, _pdrRepo>>
  BY <1>1 DEF readVars
<1> QED
  BY <1>2, <1>3, LeftBehind DEF Constructed

\* A manager that is new has read nothing.
LEMMA NewReading ==
    ASSUME contents \in Repositories, DOMAIN device \subseteq DOMAIN contents,
           device \in [DOMAIN device -> [number : Nat, parts : Nat \ {0}]],
           changes \in Nat, pc = "info", NewManager
    PROVE  PdrInv
<1> USE DEF NewManager
<1>1. DeviceTypes
  BY DEF DeviceTypes, NoInfo
<1>2. TransferBegins
  BY DEF TransferBegins, NoRecord
<1>3. RecordsRead
  BY NothingThere DEF RecordsRead
<1>4. RecordsAdded
  BY NothingThere DEF RecordsAdded, Constructed
<1>5. Counts
  BY DEF Counts, Reading, Constructed
<1> QED
  BY <1>1, <1>2, <1>3, <1>4, <1>5 DEF PdrInv

\* A terminus that is initialised again starts from nothing.
LEMMA RenewStep == PdrInv /\ initPDRs => PdrInv'
<1> SUFFICES ASSUME PdrInv, initPDRs PROVE PdrInv'
  OBVIOUS
<1> USE DEF PdrInv
<1>1. /\ pc' = "info" /\ UNCHANGED deviceVars
      /\ began' = 0 /\ pdrRepoInfo' = NoInfo /\ transfer' = NoRecord
      /\ devicePDRs' = <<>> /\ _pdrRepo' = <<>>
  BY DEF initPDRs, RenewManager
<1>2. DeviceTypes'
  BY <1>1 DEF DeviceTypes, deviceVars, NoInfo
<1>3. TransferBegins' /\ RecordsRead'
  BY <1>1, FreshTransfer, NothingRead
<1>4. RecordsAdded'
  BY <1>1, NothingThere DEF RecordsAdded, Constructed
<1>5. Counts'
  BY <1>1 DEF Counts, Reading, Constructed
<1> QED
  BY <1>2, <1>3, <1>4, <1>5

-----------------------------------------------------------------------------
(***************************************************************************)
(* The theorem.                                                            *)
(***************************************************************************)
\* The invariant holds at first,
LEMMA PdrInitially == Init => PdrInv
<1> SUFFICES ASSUME Init PROVE PdrInv
  OBVIOUS
<1> DEFINE most == IF contents \in Calm THEN 1 ELSE MaxParts
<1>1. /\ contents \in Repositories /\ changes = 0 /\ pc = "info" /\ NewManager
      /\ device \in [DOMAIN contents -> [number : {0}, parts : 1 .. most]]
  BY DEF Init, PdrInit
<1>2. most \in Nat
  BY PdrAssumption
<1>3. DOMAIN device = DOMAIN contents
  BY <1>1
<1>4. device \in [DOMAIN device -> [number : Nat, parts : Nat \ {0}]]
  <2>1. [number : {0}, parts : 1 .. most] \subseteq [number : Nat, parts : Nat \ {0}]
    <3> HIDE DEF most
    <3> QED
      BY <1>2
  <2> HIDE DEF most
  <2> QED
    BY <1>1, <1>3, <2>1
<1> QED
  BY <1>1, <1>3, <1>4, NewReading

\* and every step keeps it.
LEMMA PdrStep == PdrInv /\ [Next]_vars => PdrInv'
<1> SUFFICES ASSUME PdrInv, [Next]_vars PROVE PdrInv'
  OBVIOUS
<1>1. CASE DeviceStep
  BY <1>1, DeviceStepKeeps
<1>2. CASE Construct
  <2>1. CASE InfoFails
    <3>1. /\ pc' = "failed"
          /\ UNCHANGED <<deviceVars, began, pdrRepoInfo, transfer, devicePDRs, _pdrRepo>>
      BY <2>1 DEF InfoFails, readVars
    <3> QED
      BY <3>1, LeftBehind DEF Constructed
  <2>2. CASE GetPDRFails
    BY <2>2, TryFailsStep DEF GetPDRFails
  <2> QED
    BY <1>2, <2>1, <2>2, InfoStep, ResponseStep, AddStep, CountStep DEF Construct
<1>3. CASE \/ ParseNames \/ ExtractAborts \/ ParseAssociations \/ createEntityAssociationTree
           \/ populateSystemHierarchy \/ ParseAuxNames \/ ParseObjects
  BY <1>3, ParseStep
<1>4. CASE initPDRs
  BY <1>4, RenewStep
<1>5. CASE UNCHANGED vars
  <2> USE DEF PdrInv
  <2>1. UNCHANGED <<deviceVars, pc, pdrRepoInfo, began, transfer, devicePDRs, _pdrRepo>>
    BY <1>5 DEF vars, pdrVars, readVars
  <2>2. DeviceTypes' /\ TransferBegins'
    BY <2>1 DEF DeviceTypes, TransferBegins, deviceVars
  <2>3. RecordsRead'
    BY <2>1, StillRead DEF RecordsRead
  <2>4. RecordsAdded' /\ Counts'
    BY <2>1 DEF RecordsAdded, Counts, Reading, Handles, deviceVars
  <2> QED
    BY <2>2, <2>3, <2>4
<1> QED
  BY <1>1, <1>2, <1>3, <1>4, <1>5 DEF Next, pdrManagerInit, LoopOnName

\* As many handles are in the repository as records.
LEMMA AddedOnce ==
    ASSUME PdrInv, pc = Constructed
    PROVE  Cardinality(Added) = Len(_pdrRepo)
<1> DEFINE n == Len(_pdrRepo)
           f == [i \in 1 .. n |-> _pdrRepo[i][1].handle]
<1>1. n \in Nat /\ DOMAIN _pdrRepo = 1 .. n
  BY LenProperties DEF PdrInv, RecordsAdded
<1>2. Added = {_pdrRepo[i][1].handle : i \in 1 .. n}
  BY <1>1 DEF Added
<1>3. f \in [1 .. n -> Added] /\ \A h \in Added : \E i \in 1 .. n : f[i] = h
  BY <1>2
<1>4. \A i, j \in 1 .. n : f[i] = f[j] => i = j
  BY <1>1 DEF PdrInv, RecordsAdded
<1>5. ExistsBijection(1 .. n, Added)
  <2> HIDE DEF n, f
  <2>1. f \in Bijection(1 .. n, Added)
    BY <1>3, <1>4 DEF Bijection, Injection, Surjection, IsInjective
  <2> QED
    BY <2>1 DEF ExistsBijection
<1> QED
  BY <1>1, <1>5, FS_CountingElements

\* The invariant says at the end of constructPDRRepo what OneReading says.
LEMMA ReadIsOneReading == PdrInv => OneReading
<1> SUFFICES ASSUME PdrInv, pc = Constructed
             PROVE  /\ \A r \in Records : IsWhole(r)
                    /\ Cardinality(Added) = Len(_pdrRepo)
                    /\ changes = began => Records \subseteq {Whole(h) : h \in Handles}
                    /\ changes = pdrRepoInfo.seen => Records = {Whole(h) : h \in Handles}
  BY DEF OneReading
<1>1. \A i \in DOMAIN _pdrRepo :
        \E h \in DOMAIN devicePDRs : _pdrRepo[i] = devicePDRs[h] /\ ReadAs(_pdrRepo[i], h)
  BY DEF PdrInv, RecordsAdded, RecordsRead
<1>2. \A r \in Records : IsWhole(r)
  BY <1>1 DEF Records, ReadAs
<1>3. Cardinality(Added) = Len(_pdrRepo)
  BY AddedOnce
<1>4. ASSUME changes = began
      PROVE  \A i \in DOMAIN _pdrRepo :
               /\ _pdrRepo[i][1].handle \in Handles
               /\ _pdrRepo[i] = Whole(_pdrRepo[i][1].handle)
  BY <1>1, <1>4 DEF ReadAs
<1>5. changes = began => Records \subseteq {Whole(h) : h \in Handles}
  BY <1>4 DEF Records
<1>6. ASSUME changes = pdrRepoInfo.seen PROVE Records = {Whole(h) : h \in Handles}
  <2>1. changes = began /\ Len(_pdrRepo) = Cardinality(Handles)
    <3>1. /\ pdrRepoInfo.seen <= began /\ began <= changes
          /\ pdrRepoInfo.record_count = Cardinality(Handles)
          /\ Len(_pdrRepo) = pdrRepoInfo.record_count
      BY <1>6 DEF PdrInv, Counts, Reading
    <3> QED
      BY <1>6, <3>1 DEF PdrInv, DeviceTypes
  <2>2. Added \in SUBSET Handles
    BY <1>4, <2>1 DEF Added
  <2>3. Added = Handles
    BY <1>3, <2>1, <2>2, HandlesFinite, FS_Subset DEF PdrInv
  <2>4. \A h \in Handles : Whole(h) \in Records
    BY <1>4, <2>1, <2>3 DEF Added, Records
  <2> QED
    BY <1>5, <2>1, <2>4
<1> QED
  BY <1>2, <1>3, <1>5, <1>6

\* A repository that pldmd has constructed comes from one reading of the
\* device: constructPDRRepo keeps no splice of two versions, no record twice
\* and no record left from an earlier try, and counts what it has.
THEOREM OneReadingHolds == Spec => []OneReading
<1>1. Init => PdrInv
  BY PdrInitially
<1>2. PdrInv /\ [Next]_vars => PdrInv'
  BY PdrStep
<1>3. PdrInv => OneReading
  BY ReadIsOneReading
<1> QED
  BY <1>1, <1>2, <1>3, PTL DEF Spec

-----------------------------------------------------------------------------
(***************************************************************************)
(* Induction, and lists.                                                   *)
(***************************************************************************)
\* A set of natural numbers has a least one.
LEMMA Least ==
    ASSUME NEW S, S \subseteq Nat, S # {}
    PROVE  \E n \in S : \A m \in S : n <= m
<1>1. IsWellFoundedOn(OpToRel(<, Nat), Nat)
  BY NatLessThanWellFounded
<1>2. PICK n \in S : \A m \in S : ~ (<<m, n>> \in OpToRel(<, Nat))
  BY <1>1, WFMin
<1>3. \A m \in S : ~ (m < n)
  BY <1>2, Zenon DEF OpToRel
<1> QED
  BY <1>3

\* Induction up to n: what is so at 0 and goes from one number to the next.
LEMMA UpTo ==
    ASSUME NEW n \in Nat, NEW S, 0 \in S, \A i \in 1 .. n : i - 1 \in S => i \in S
    PROVE  \A i \in 0 .. n : i \in S
<1> SUFFICES ASSUME (0 .. n) \ S # {} PROVE FALSE
  OBVIOUS
<1>1. PICK m \in (0 .. n) \ S : \A k \in (0 .. n) \ S : m <= k
  <2>1. (0 .. n) \ S \subseteq Nat
    OBVIOUS
  <2> QED
    BY <2>1, Least, Zenon
<1>2. m # 0 /\ m - 1 \in 0 .. n /\ ~ (m <= m - 1)
  BY <1>1
<1>3. m - 1 \in S /\ m \in 1 .. n
  BY <1>1, <1>2
<1> QED
  BY <1>1, <1>3

\* A sequence of whatever it is of
List(s) == s \in Seq(Range(s))

\* Whatever a sequence is of, it is a list.
LEMMA ASeqIsList ==
    ASSUME NEW S, NEW s \in Seq(S)
    PROVE  List(s)
<1>1. DOMAIN s = 1 .. Len(s) /\ Len(s) \in Nat /\ s = [i \in 1 .. Len(s) |-> s[i]]
  BY LenProperties
<1>2. \A i \in 1 .. Len(s) : s[i] \in Range(s)
  BY <1>1 DEF Range
<1>3. [i \in 1 .. Len(s) |-> s[i]] \in Seq(Range(s))
  BY <1>1, <1>2, IsASeq
<1> QED
  BY <1>1, <1>3 DEF List

\* The positions of a list, and what is in it
LEMMA ListFacts ==
    ASSUME NEW s, List(s)
    PROVE  /\ Len(s) \in Nat /\ DOMAIN s = 1 .. Len(s)
           /\ Range(s) = {s[i] : i \in 1 .. Len(s)}
  BY LenProperties DEF List, Range

\* Nothing is in the empty list.
LEMMA EmptyList ==
  List(<<>>) /\ Len(<<>>) = 0 /\ DOMAIN <<>> = {} /\ Range(<<>>) = {}
<1>1. \A S : <<>> \in Seq(S) /\ Len(<<>>) = 0
  BY EmptySeq
<1>2. DOMAIN <<>> = 1 .. Len(<<>>)
  BY <1>1, LenProperties
<1> QED
  BY <1>1, <1>2 DEF List, Range

\* A list with an element more
LEMMA AppendedList ==
    ASSUME NEW s, List(s), NEW e
    PROVE  /\ List(Append(s, e)) /\ Len(Append(s, e)) = Len(s) + 1
           /\ DOMAIN Append(s, e) = 1 .. Len(s) + 1
           /\ \A i \in 1 .. Len(s) : Append(s, e)[i] = s[i]
           /\ Append(s, e)[Len(s) + 1] = e
           /\ Range(Append(s, e)) = Range(s) \cup {e}
<1> DEFINE S == Range(s) \cup {e}
<1>1. s \in Seq(S) /\ e \in S
  <2>1. DOMAIN s = 1 .. Len(s) /\ Len(s) \in Nat /\ s = [i \in 1 .. Len(s) |-> s[i]]
    BY LenProperties DEF List
  <2>2. \A i \in 1 .. Len(s) : s[i] \in S
    BY <2>1 DEF Range
  <2>3. [i \in 1 .. Len(s) |-> s[i]] \in Seq(S)
    BY <2>1, <2>2, IsASeq
  <2> QED
    BY <2>1, <2>3
<1>2. /\ Append(s, e) \in Seq(S) /\ Len(Append(s, e)) = Len(s) + 1
      /\ \A i \in 1 .. Len(s) : Append(s, e)[i] = s[i]
      /\ Append(s, e)[Len(s) + 1] = e
  BY <1>1, AppendProperties
<1>3. List(Append(s, e)) /\ Len(s) \in Nat
  BY <1>1, <1>2, ASeqIsList, ListFacts
<1>4. DOMAIN Append(s, e) = 1 .. Len(s) + 1
  BY <1>2, LenProperties
<1>5. Range(Append(s, e)) = Range(s) \cup {e}
  <2>1. 1 .. Len(s) + 1 = 1 .. Len(s) \cup {Len(s) + 1} /\ DOMAIN s = 1 .. Len(s)
    BY <1>3, ListFacts
  <2> HIDE DEF S
  <2> QED
    BY <1>2, <1>4, <2>1 DEF Range
<1> QED
  BY <1>2, <1>3, <1>4, <1>5

\* Two lists make one.
LEMMA JoinedList ==
    ASSUME NEW s, List(s), NEW t, List(t)
    PROVE  List(s \o t) /\ Range(s \o t) = Range(s) \cup Range(t)
<1> DEFINE S == Range(s) \cup Range(t)
           u == s \o t
<1>1. s \in Seq(S) /\ t \in Seq(S)
  <2>1. \A x, X : x \in Seq(X) /\ X \subseteq S => x \in Seq(S)
    <3> HIDE DEF S
    <3> SUFFICES ASSUME NEW x, NEW X, x \in Seq(X), X \subseteq S PROVE x \in Seq(S)
      OBVIOUS
    <3>1. DOMAIN x = 1 .. Len(x) /\ Len(x) \in Nat /\ x = [i \in 1 .. Len(x) |-> x[i]]
      BY LenProperties
    <3>2. \A i \in 1 .. Len(x) : x[i] \in S
      <4>1. \A i \in 1 .. Len(x) : x[i] \in X
        BY ElementOfSeq
      <4> QED
        BY <4>1
    <3>3. [i \in 1 .. Len(x) |-> x[i]] \in Seq(S)
      BY <3>1, <3>2, IsASeq
    <3> QED
      BY <3>1, <3>3
  <2> QED
    BY <2>1 DEF List
<1>2. /\ u \in Seq(S) /\ Len(u) = Len(s) + Len(t)
      /\ \A i \in 1 .. Len(u) : u[i] = IF i <= Len(s) THEN s[i] ELSE t[i - Len(s)]
  BY <1>1, ConcatProperties
<1>3. Len(s) \in Nat /\ Len(t) \in Nat /\ DOMAIN u = 1 .. Len(s) + Len(t)
  BY <1>2, ListFacts, LenProperties
<1>4. Range(s) = {s[i] : i \in 1 .. Len(s)} /\ Range(t) = {t[i] : i \in 1 .. Len(t)}
  BY ListFacts
<1>5. Range(u) = Range(s) \cup Range(t)
  <2> HIDE DEF u
  <2>1. ASSUME NEW i \in 1 .. Len(s) + Len(t) PROVE u[i] \in S
    <3>1. CASE i <= Len(s)
      BY <1>2, <1>3, <1>4, <3>1
    <3>2. CASE ~ (i <= Len(s))
      <4>1. i - Len(s) \in 1 .. Len(t)
        BY <1>3, <3>2
      <4> QED
        BY <1>2, <1>3, <1>4, <3>2, <4>1
    <3> QED
      BY <3>1, <3>2
  <2>2. \A i \in 1 .. Len(s) : u[i] = s[i] /\ i \in 1 .. Len(s) + Len(t)
    BY <1>2, <1>3
  <2>3. ASSUME NEW i \in 1 .. Len(t) PROVE \E j \in 1 .. Len(s) + Len(t) : u[j] = t[i]
    <3>1. PICK j : j = i + Len(s)
      OBVIOUS
    <3>2. j \in 1 .. Len(s) + Len(t) /\ ~ (j <= Len(s)) /\ j - Len(s) = i
      BY <1>3, <3>1
    <3> QED
      BY <1>2, <1>3, <3>2
  <2>4. Range(u) \subseteq S
    BY <1>3, <2>1 DEF Range
  <2>5. Range(s) \subseteq Range(u)
    BY <1>3, <1>4, <2>2 DEF Range
  <2>6. Range(t) \subseteq Range(u)
    BY <1>3, <1>4, <2>3 DEF Range
  <2> QED
    BY <2>4, <2>5, <2>6
<1> QED
  BY <1>2, <1>5, ASeqIsList

-----------------------------------------------------------------------------
(***************************************************************************)
(* The folds.  A run of one of them is what it makes of its value, element *)
(* by element.                                                             *)
(***************************************************************************)
\* One step of insertToAssociationTree, of extractRootNode, of a pass and of ParseAll
Inserted(at, x, e) ==
  IF HasEntity(x, e, at) THEN x ELSE Append(x, [entity |-> e, parent |-> at])

Extracted(c, p, a) ==
  IF a.entity.container = c
  THEN [p EXCEPT !.tree = insertToAssociationTree(Rooted(@, a.entity), 1, a.contained)]
  ELSE [p EXCEPT !.left = Append(@, a)]

Passed(p, a) ==
  IF HasEntity(p.tree, a.entity, 1)
  THEN [p EXCEPT !.tree = insertToAssociationTree(@, FirstWith(@, a.entity, Wider), a.contained)]
  ELSE [p EXCEPT !.left = Append(@, a)]

ParsedBy(type, x, r, y) == IF IsOf(r, type) THEN y ELSE x

\* One step of the fold that op names
Step(op, k, x, e) ==
  IF op = "insert" THEN Inserted(k, x, e)
  ELSE IF op = "extract" THEN Extracted(k, x, e)
  ELSE IF op = "pass" THEN Passed(x, e)
  ELSE IF ~ IsOf(e, k) THEN x
  ELSE IF op = "association" THEN parseEntityAssociationPDR(x, Content(e))
  ELSE IF op = "sensor" THEN parseSensorPDR(x, Content(e))
  ELSE IF op = "stateEffecter" THEN parseStateEffecterPDR(x, Content(e))
  ELSE IF op = "numericEffecter" THEN parseNumericEffecterPDR(x, Content(e))
  ELSE parseFRURecordSetPDR(x, Content(e))

\* f is what the fold op makes of a, after each number of elements of s.
IsRun(f, op, k, a, s) ==
  f = [i \in 0 .. Len(s) |-> IF i = 0 THEN a ELSE Step(op, k, f[i - 1], s[i])]

\* A run goes on from one element to the next.
LEMMA RunFacts ==
    ASSUME NEW f, NEW op, NEW k, NEW a, NEW s, Len(s) \in Nat, IsRun(f, op, k, a, s)
    PROVE  f[0] = a /\ \A i \in 1 .. Len(s) : f[i] = Step(op, k, f[i - 1], s[i])
  BY DEF IsRun

\* Every fold has a run.
LEMMA FoldDefined ==
    ASSUME NEW op, NEW k, NEW a, NEW s, Len(s) \in Nat
    PROVE  \E f : IsRun(f, op, k, a, s)
<1> DEFINE Ok(f, m) == f = [i \in 0 .. m |-> IF i = 0 THEN a ELSE Step(op, k, f[i - 1], s[i])]
           S == {m \in 0 .. Len(s) : \E f : Ok(f, m)}
<1>1. 0 \in S
  <2>1. Ok([i \in 0 .. 0 |-> a], 0)
    OBVIOUS
  <2> HIDE DEF Ok
  <2> QED
    BY <2>1
<1>2. ASSUME NEW m \in 1 .. Len(s), m - 1 \in S PROVE m \in S
  <2>1. PICK g : Ok(g, m - 1)
    BY <1>2
  <2> DEFINE h == [i \in 0 .. m |-> IF i = m THEN Step(op, k, g[m - 1], s[m]) ELSE g[i]]
  <2>2. \A i \in 0 .. m - 1 : h[i] = g[i]
    OBVIOUS
  <2>3. \A i \in 0 .. m : h[i] = IF i = 0 THEN a ELSE Step(op, k, h[i - 1], s[i])
    BY <2>1, <2>2
  <2>4. Ok(h, m)
    BY <2>3
  <2> HIDE DEF Ok, h
  <2> QED
    BY <2>4
<1>3. Len(s) \in S
  <2> HIDE DEF S
  <2>1. \A i \in 0 .. Len(s) : i \in S
    BY <1>1, <1>2, UpTo
  <2> QED
    BY <2>1
<1> QED
  BY <1>3, Zenon DEF IsRun

\* insertToAssociationTree is a fold, and so are
LEMMA InsertRuns ==
    ASSUME NEW nodes, NEW at, NEW contained, Len(contained) \in Nat
    PROVE  \E f : /\ IsRun(f, "insert", at, nodes, contained)
                  /\ insertToAssociationTree(nodes, at, contained) = f[Len(contained)]
<1> DEFINE Pick(x, e) == CHOOSE y \in {Inserted(at, z, e) : z \in {x}} : TRUE
           Ok(f) == f = [i \in 0 .. Len(contained) |->
                           IF i = 0 THEN nodes ELSE Pick(f[i - 1], contained[i])]
           f == CHOOSE f : Ok(f)
<1>1. \A x, e : Pick(x, e) = Step("insert", at, x, e)
  <2>1. \A x, e : Pick(x, e) = Inserted(at, x, e)
    OBVIOUS
  <2> HIDE DEF Pick
  <2> QED
    BY <2>1 DEF Step
<1> HIDE DEF Pick
<1>2. \E g : Ok(g)
  <2>1. PICK g : IsRun(g, "insert", at, nodes, contained)
    BY FoldDefined, Zenon
  <2> QED
    BY <1>1, <2>1 DEF IsRun
<1>3. Ok(f)
  BY <1>2, Zenon
<1>4. IsRun(f, "insert", at, nodes, contained)
  <2> HIDE DEF f
  <2> QED
    BY <1>1, <1>3 DEF IsRun
<1>5. insertToAssociationTree(nodes, at, contained) = f[Len(contained)]
  BY DEF insertToAssociationTree, Inserted, Through, Pick
<1> QED
  BY <1>4, <1>5, Zenon

\* extractRootNode,
LEMMA ExtractRuns ==
    ASSUME NEW associations, NEW c, Len(associations) \in Nat
    PROVE  \E f : /\ IsRun(f, "extract", c, [tree |-> <<>>, left |-> <<>>], associations)
                  /\ extractRootNode(associations, c) = f[Len(associations)]
<1> DEFINE Pick(x, e) == CHOOSE y \in {Extracted(c, z, e) : z \in {x}} : TRUE
           Ok(f) == f = [i \in 0 .. Len(associations) |->
                           IF i = 0 THEN [tree |-> <<>>, left |-> <<>>]
                           ELSE Pick(f[i - 1], associations[i])]
           f == CHOOSE f : Ok(f)
<1>1. \A x, e : Pick(x, e) = Step("extract", c, x, e)
  <2>1. \A x, e : Pick(x, e) = Extracted(c, x, e)
    OBVIOUS
  <2> HIDE DEF Pick
  <2> QED
    BY <2>1 DEF Step
<1> HIDE DEF Pick
<1>2. \E g : Ok(g)
  <2>1. PICK g : IsRun(g, "extract", c, [tree |-> <<>>, left |-> <<>>], associations)
    BY FoldDefined, Zenon
  <2> QED
    BY <1>1, <2>1 DEF IsRun
<1>3. Ok(f)
  BY <1>2, Zenon
<1>4. IsRun(f, "extract", c, [tree |-> <<>>, left |-> <<>>], associations)
  <2> HIDE DEF f
  <2> QED
    BY <1>1, <1>3 DEF IsRun
<1>5. extractRootNode(associations, c) = f[Len(associations)]
  BY DEF extractRootNode, Extracted, Through, Pick
<1> QED
  BY <1>4, <1>5, Zenon

\* a pass of createEntityAssociationTree,
LEMMA PassRuns ==
    ASSUME NEW tree, NEW associations, Len(associations) \in Nat
    PROVE  \E f : /\ IsRun(f, "pass", 0, [tree |-> tree, left |-> <<>>], associations)
                  /\ Pass(tree, associations) = f[Len(associations)]
<1> DEFINE Pick(x, e) == CHOOSE y \in {Passed(z, e) : z \in {x}} : TRUE
           Ok(f) == f = [i \in 0 .. Len(associations) |->
                           IF i = 0 THEN [tree |-> tree, left |-> <<>>]
                           ELSE Pick(f[i - 1], associations[i])]
           f == CHOOSE f : Ok(f)
<1>1. \A x, e : Pick(x, e) = Step("pass", 0, x, e)
  <2>1. \A x, e : Pick(x, e) = Passed(x, e)
    OBVIOUS
  <2> HIDE DEF Pick
  <2> QED
    BY <2>1 DEF Step
<1> HIDE DEF Pick
<1>2. \E g : Ok(g)
  <2>1. PICK g : IsRun(g, "pass", 0, [tree |-> tree, left |-> <<>>], associations)
    BY FoldDefined, Zenon
  <2> QED
    BY <1>1, <2>1 DEF IsRun
<1>3. Ok(f)
  BY <1>2, Zenon
<1>4. IsRun(f, "pass", 0, [tree |-> tree, left |-> <<>>], associations)
  <2> HIDE DEF f
  <2> QED
    BY <1>1, <1>3 DEF IsRun
<1>5. Pass(tree, associations) = f[Len(associations)]
  BY DEF Pass, Passed, Through, Pick
<1> QED
  BY <1>4, <1>5, Zenon

\* and the parsing of the associations,
LEMMA AssociationRuns ==
    ASSUME NEW type, NEW a, Len(_pdrRepo) \in Nat
    PROVE  \E f : /\ IsRun(f, "association", type, a, _pdrRepo)
                  /\ ParseAll(type, parseEntityAssociationPDR, a) = f[Len(_pdrRepo)]
<1> DEFINE Pick(x, e) ==
             CHOOSE y \in {ParsedBy(type, z, e, parseEntityAssociationPDR(z, Content(e))) :
                          z \in {x}} : TRUE
           Ok(f) == f = [i \in 0 .. Len(_pdrRepo) |->
                           IF i = 0 THEN a ELSE Pick(f[i - 1], _pdrRepo[i])]
           f == CHOOSE f : Ok(f)
<1>1. \A x, e : Pick(x, e) = Step("association", type, x, e)
  <2>1. \A x, e : Pick(x, e) = ParsedBy(type, x, e, parseEntityAssociationPDR(x, Content(e)))
    OBVIOUS
  <2> HIDE DEF Pick
  <2> QED
    BY <2>1 DEF Step, ParsedBy
<1> HIDE DEF Pick
<1>2. \E g : Ok(g)
  <2>1. PICK g : IsRun(g, "association", type, a, _pdrRepo)
    BY FoldDefined, Zenon
  <2> QED
    BY <1>1, <2>1 DEF IsRun
<1>3. Ok(f)
  BY <1>2, Zenon
<1>4. IsRun(f, "association", type, a, _pdrRepo)
  <2> HIDE DEF f
  <2> QED
    BY <1>1, <1>3 DEF IsRun
<1>5. ParseAll(type, parseEntityAssociationPDR, a) = f[Len(_pdrRepo)]
  BY DEF ParseAll, ParsedBy, Through, Pick
<1> QED
  BY <1>4, <1>5, Zenon

\* of the sensors,
LEMMA SensorRuns ==
    ASSUME NEW type, NEW a, Len(_pdrRepo) \in Nat
    PROVE  \E f : /\ IsRun(f, "sensor", type, a, _pdrRepo)
                  /\ ParseAll(type, parseSensorPDR, a) = f[Len(_pdrRepo)]
<1> DEFINE Pick(x, e) ==
             CHOOSE y \in {ParsedBy(type, z, e, parseSensorPDR(z, Content(e))) :
                          z \in {x}} : TRUE
           Ok(f) == f = [i \in 0 .. Len(_pdrRepo) |->
                           IF i = 0 THEN a ELSE Pick(f[i - 1], _pdrRepo[i])]
           f == CHOOSE f : Ok(f)
<1>1. \A x, e : Pick(x, e) = Step("sensor", type, x, e)
  <2>1. \A x, e : Pick(x, e) = ParsedBy(type, x, e, parseSensorPDR(x, Content(e)))
    OBVIOUS
  <2> HIDE DEF Pick
  <2> QED
    BY <2>1 DEF Step, ParsedBy
<1> HIDE DEF Pick
<1>2. \E g : Ok(g)
  <2>1. PICK g : IsRun(g, "sensor", type, a, _pdrRepo)
    BY FoldDefined, Zenon
  <2> QED
    BY <1>1, <2>1 DEF IsRun
<1>3. Ok(f)
  BY <1>2, Zenon
<1>4. IsRun(f, "sensor", type, a, _pdrRepo)
  <2> HIDE DEF f
  <2> QED
    BY <1>1, <1>3 DEF IsRun
<1>5. ParseAll(type, parseSensorPDR, a) = f[Len(_pdrRepo)]
  BY DEF ParseAll, ParsedBy, Through, Pick
<1> QED
  BY <1>4, <1>5, Zenon

\* of the state effecters,
LEMMA StateEffecterRuns ==
    ASSUME NEW type, NEW a, Len(_pdrRepo) \in Nat
    PROVE  \E f : /\ IsRun(f, "stateEffecter", type, a, _pdrRepo)
                  /\ ParseAll(type, parseStateEffecterPDR, a) = f[Len(_pdrRepo)]
<1> DEFINE Pick(x, e) ==
             CHOOSE y \in {ParsedBy(type, z, e, parseStateEffecterPDR(z, Content(e))) :
                          z \in {x}} : TRUE
           Ok(f) == f = [i \in 0 .. Len(_pdrRepo) |->
                           IF i = 0 THEN a ELSE Pick(f[i - 1], _pdrRepo[i])]
           f == CHOOSE f : Ok(f)
<1>1. \A x, e : Pick(x, e) = Step("stateEffecter", type, x, e)
  <2>1. \A x, e : Pick(x, e) = ParsedBy(type, x, e, parseStateEffecterPDR(x, Content(e)))
    OBVIOUS
  <2> HIDE DEF Pick
  <2> QED
    BY <2>1 DEF Step, ParsedBy
<1> HIDE DEF Pick
<1>2. \E g : Ok(g)
  <2>1. PICK g : IsRun(g, "stateEffecter", type, a, _pdrRepo)
    BY FoldDefined, Zenon
  <2> QED
    BY <1>1, <2>1 DEF IsRun
<1>3. Ok(f)
  BY <1>2, Zenon
<1>4. IsRun(f, "stateEffecter", type, a, _pdrRepo)
  <2> HIDE DEF f
  <2> QED
    BY <1>1, <1>3 DEF IsRun
<1>5. ParseAll(type, parseStateEffecterPDR, a) = f[Len(_pdrRepo)]
  BY DEF ParseAll, ParsedBy, Through, Pick
<1> QED
  BY <1>4, <1>5, Zenon

\* of the numeric effecters
LEMMA NumericEffecterRuns ==
    ASSUME NEW type, NEW a, Len(_pdrRepo) \in Nat
    PROVE  \E f : /\ IsRun(f, "numericEffecter", type, a, _pdrRepo)
                  /\ ParseAll(type, parseNumericEffecterPDR, a) = f[Len(_pdrRepo)]
<1> DEFINE Pick(x, e) ==
             CHOOSE y \in {ParsedBy(type, z, e, parseNumericEffecterPDR(z, Content(e))) :
                          z \in {x}} : TRUE
           Ok(f) == f = [i \in 0 .. Len(_pdrRepo) |->
                           IF i = 0 THEN a ELSE Pick(f[i - 1], _pdrRepo[i])]
           f == CHOOSE f : Ok(f)
<1>1. \A x, e : Pick(x, e) = Step("numericEffecter", type, x, e)
  <2>1. \A x, e : Pick(x, e) = ParsedBy(type, x, e, parseNumericEffecterPDR(x, Content(e)))
    OBVIOUS
  <2> HIDE DEF Pick
  <2> QED
    BY <2>1 DEF Step, ParsedBy
<1> HIDE DEF Pick
<1>2. \E g : Ok(g)
  <2>1. PICK g : IsRun(g, "numericEffecter", type, a, _pdrRepo)
    BY FoldDefined, Zenon
  <2> QED
    BY <1>1, <2>1 DEF IsRun
<1>3. Ok(f)
  BY <1>2, Zenon
<1>4. IsRun(f, "numericEffecter", type, a, _pdrRepo)
  <2> HIDE DEF f
  <2> QED
    BY <1>1, <1>3 DEF IsRun
<1>5. ParseAll(type, parseNumericEffecterPDR, a) = f[Len(_pdrRepo)]
  BY DEF ParseAll, ParsedBy, Through, Pick
<1> QED
  BY <1>4, <1>5, Zenon

\* and of the FRU record sets.
LEMMA FRURuns ==
    ASSUME NEW type, NEW a, Len(_pdrRepo) \in Nat
    PROVE  \E f : /\ IsRun(f, "fru", type, a, _pdrRepo)
                  /\ ParseAll(type, parseFRURecordSetPDR, a) = f[Len(_pdrRepo)]
<1> DEFINE Pick(x, e) ==
             CHOOSE y \in {ParsedBy(type, z, e, parseFRURecordSetPDR(z, Content(e))) :
                          z \in {x}} : TRUE
           Ok(f) == f = [i \in 0 .. Len(_pdrRepo) |->
                           IF i = 0 THEN a ELSE Pick(f[i - 1], _pdrRepo[i])]
           f == CHOOSE f : Ok(f)
<1>1. \A x, e : Pick(x, e) = Step("fru", type, x, e)
  <2>1. \A x, e : Pick(x, e) = ParsedBy(type, x, e, parseFRURecordSetPDR(x, Content(e)))
    OBVIOUS
  <2> HIDE DEF Pick
  <2> QED
    BY <2>1 DEF Step, ParsedBy
<1> HIDE DEF Pick
<1>2. \E g : Ok(g)
  <2>1. PICK g : IsRun(g, "fru", type, a, _pdrRepo)
    BY FoldDefined, Zenon
  <2> QED
    BY <1>1, <2>1 DEF IsRun
<1>3. Ok(f)
  BY <1>2, Zenon
<1>4. IsRun(f, "fru", type, a, _pdrRepo)
  <2> HIDE DEF f
  <2> QED
    BY <1>1, <1>3 DEF IsRun
<1>5. ParseAll(type, parseFRURecordSetPDR, a) = f[Len(_pdrRepo)]
  BY DEF ParseAll, ParsedBy, Through, Pick
<1> QED
  BY <1>4, <1>5, Zenon

-----------------------------------------------------------------------------
(***************************************************************************)
(* The ways to the nodes of a tree, and their orders.                      *)
(***************************************************************************)
\* The shape of a tree: parents are before their children, the root is first.
IsTree(nodes) ==
  /\ List(nodes) /\ Len(nodes) >= 1
  /\ nodes[1].parent = 0
  /\ \A i \in 2 .. Len(nodes) : nodes[i].parent \in 1 .. i - 1

\* The way to node i, from that to its parent
WayTo(nodes, w, i) == IF nodes[i].parent = 0 THEN <<i>> ELSE Append(w[nodes[i].parent], i)

\* Way v leads from the root to node i, from each node to one of its children.
Leads(nodes, v, i) ==
  /\ v \in Seq(1 .. Len(nodes)) /\ Len(v) >= 1
  /\ v[1] = 1 /\ v[Len(v)] = i
  /\ \A k \in 2 .. Len(v) : v[k] \in 2 .. Len(nodes) /\ v[k - 1] = nodes[v[k]].parent

\* The recursion of Ways is along the parents.
LEMMA WaysDefined ==
    ASSUME NEW nodes, IsTree(nodes)
    PROVE  Ways(nodes) = [i \in DOMAIN nodes |-> WayTo(nodes, Ways(nodes), i)]
<1> DEFINE n == Len(nodes)
           Ok(w, m) == w = [i \in 1 .. m |-> WayTo(nodes, w, i)]
           S == {m \in 0 .. n : \E w : Ok(w, m)}
<1>1. n \in Nat /\ DOMAIN nodes = 1 .. n
  BY ListFacts DEF IsTree
<1>2. 0 \in S
  <2>1. Ok([i \in 1 .. 0 |-> 0], 0)
    OBVIOUS
  <2> HIDE DEF Ok
  <2> QED
    BY <1>1, <2>1
<1>3. ASSUME NEW m \in 1 .. n, m - 1 \in S PROVE m \in S
  <2>1. PICK g : Ok(g, m - 1)
    BY <1>3
  <2> DEFINE h == [i \in 1 .. m |-> IF i = m THEN WayTo(nodes, g, m) ELSE g[i]]
  <2>2. \A i \in 1 .. m - 1 : h[i] = g[i]
    BY <1>1
  <2>3. \A i \in 1 .. m : nodes[i].parent = 0 \/ nodes[i].parent \in 1 .. i - 1
    BY <1>1 DEF IsTree
  <2>4. \A i \in 1 .. m : WayTo(nodes, h, i) = WayTo(nodes, g, i)
    BY <1>1, <2>2, <2>3 DEF WayTo
  <2>5. \A i \in 1 .. m : h[i] = WayTo(nodes, h, i)
    <3>1. \A i \in 1 .. m - 1 : g[i] = WayTo(nodes, g, i)
      BY <2>1
    <3>2. \A i \in 1 .. m : i = m \/ i \in 1 .. m - 1
      BY <1>1
    <3>3. m \in 1 .. m /\ h[m] = WayTo(nodes, g, m)
      BY <1>1
    <3> HIDE DEF h
    <3> QED
      BY <2>2, <2>4, <3>1, <3>2, <3>3
  <2>6. Ok(h, m)
    <3>1. h = [i \in 1 .. m |-> h[i]]
      OBVIOUS
    <3> HIDE DEF h
    <3> QED
      BY <2>5, <3>1
  <2> HIDE DEF Ok, h
  <2> QED
    BY <2>6
<1>4. PICK w : Ok(w, n)
  <2>1. \A i \in 0 .. n : i \in S
    <3> HIDE DEF S, n
    <3> QED
      BY <1>1, <1>2, <1>3, UpTo
  <2>2. n \in S
    <3> HIDE DEF S, n
    <3> QED
      BY <1>1, <2>1
  <2> QED
    BY <2>2
<1> DEFINE v == CHOOSE v : v = [i \in DOMAIN nodes |->
                                 IF nodes[i].parent = 0 THEN <<i>>
                                 ELSE Append(v[nodes[i].parent], i)]
<1>5. v = [i \in DOMAIN nodes |-> WayTo(nodes, v, i)]
  <2>1. w = [i \in DOMAIN nodes |->
               IF nodes[i].parent = 0 THEN <<i>> ELSE Append(w[nodes[i].parent], i)]
    BY <1>1, <1>4 DEF WayTo
  <2>2. v = [i \in DOMAIN nodes |->
               IF nodes[i].parent = 0 THEN <<i>>
                                 ELSE Append(v[nodes[i].parent], i)]
    BY <2>1, Zenon
  <2> HIDE DEF v
  <2> QED
    BY <2>2 DEF WayTo
<1>6. Ways(nodes) = v
  BY DEF Ways
<1> QED
  BY <1>5, <1>6, Zenon

\* Ways has the way to every node.
LEMMA WaysLead ==
    ASSUME NEW nodes, IsTree(nodes)
    PROVE  /\ DOMAIN Ways(nodes) = DOMAIN nodes
           /\ \A i \in DOMAIN nodes : Leads(nodes, Ways(nodes)[i], i)
<1> DEFINE n == Len(nodes)
<1>1. PICK w : w = Ways(nodes)
  OBVIOUS
<1>2. n \in Nat \ {0} /\ DOMAIN nodes = 1 .. n /\ DOMAIN w = 1 .. n
  BY <1>1, ListFacts, WaysDefined DEF IsTree
<1>3. \A i \in 1 .. n : w[i] = WayTo(nodes, w, i)
  BY <1>1, <1>2, WaysDefined
<1> DEFINE S == {m \in 0 .. n : \A i \in 1 .. m : Leads(nodes, w[i], i)}
<1>4. 0 \in S
  BY <1>2
<1>5. ASSUME NEW m \in 1 .. n, m - 1 \in S PROVE m \in S
  <2>1. \A i \in 1 .. m - 1 : Leads(nodes, w[i], i)
    BY <1>5
  <2>2. Leads(nodes, w[m], m)
    <3>1. CASE m = 1
      <4>1. w[m] = <<1>>
        BY <1>2, <1>3, <3>1 DEF WayTo, IsTree
      <4>2. w[m] \in Seq(1 .. n) /\ Len(w[m]) = 1 /\ w[m][1] = 1
        BY <1>2, <4>1
      <4> QED
        BY <3>1, <4>2 DEF Leads
    <3>2. CASE m # 1
      <4>1. PICK p : p = nodes[m].parent
        OBVIOUS
      <4>2. m \in 2 .. n /\ p \in 1 .. m - 1
        BY <1>2, <3>2, <4>1 DEF IsTree
      <4>3. PICK v : v = w[p]
        OBVIOUS
      <4>4. /\ v \in Seq(1 .. n) /\ Len(v) \in Nat /\ Len(v) >= 1 /\ v[1] = 1 /\ v[Len(v)] = p
            /\ \A k \in 2 .. Len(v) : v[k] \in 2 .. n /\ v[k - 1] = nodes[v[k]].parent
        BY <2>1, <4>2, <4>3, LenProperties DEF Leads
      <4>5. w[m] = Append(v, m)
        BY <1>2, <1>3, <4>1, <4>2, <4>3 DEF WayTo
      <4>6. PICK u : u = Append(v, m)
        OBVIOUS
      <4>7. /\ u \in Seq(1 .. n) /\ Len(u) = Len(v) + 1 /\ u[Len(v) + 1] = m
            /\ \A k \in 1 .. Len(v) : u[k] = v[k]
        <5>1. m \in 1 .. n
          OBVIOUS
        <5> QED
          BY <4>4, <4>6, <5>1, AppendProperties
      <4>8. u[1] = 1 /\ u[Len(u)] = m /\ Len(u) >= 1
        BY <4>4, <4>7
      <4>9. ASSUME NEW k \in 2 .. Len(u) PROVE u[k] \in 2 .. n /\ u[k - 1] = nodes[u[k]].parent
        <5>1. CASE k = Len(u)
          <6>1. u[k] = m /\ k - 1 = Len(v) /\ u[k - 1] = p
            BY <4>4, <4>7, <5>1
          <6> QED
            BY <4>1, <4>2, <6>1
        <5>2. CASE k # Len(u)
          <6>1. k \in 2 .. Len(v) /\ k \in 1 .. Len(v) /\ k - 1 \in 1 .. Len(v)
            <7>1. Len(v) \in Nat /\ Len(u) = Len(v) + 1 /\ k \in 2 .. Len(u)
              BY <4>4, <4>7
            <7> QED
              BY <5>2, <7>1, SMTT(30)
          <6> QED
            BY <4>4, <4>7, <6>1
        <5> QED
          BY <5>1, <5>2
      <4> QED
        BY <4>5, <4>6, <4>7, <4>8, <4>9 DEF Leads
    <3> QED
      BY <3>1, <3>2
  <2>3. \A i \in 1 .. m : i = m \/ i \in 1 .. m - 1
    BY <1>2
  <2> QED
    BY <1>2, <2>1, <2>2, <2>3
<1>6. \A i \in 0 .. n : i \in S
  <2> HIDE DEF S, n
  <2> QED
    BY <1>2, <1>4, <1>5, UpTo
<1> QED
  <2>1. n \in S
    <3> HIDE DEF S, n
    <3> QED
      BY <1>2, <1>6
  <2> QED
    BY <1>1, <1>2, <2>1

\* Two sequences agree up to k.
LEMMA Agree ==
    ASSUME NEW S, NEW v \in Seq(S), NEW w \in Seq(S), NEW k \in Nat, k <= Len(v), k <= Len(w)
    PROVE  SubSeq(v, 1, k) = SubSeq(w, 1, k) <=> \A j \in 1 .. k : v[j] = w[j]
<1>1. SubSeq(v, 1, k) = [j \in 1 .. k |-> v[j]] /\ SubSeq(w, 1, k) = [j \in 1 .. k |-> w[j]]
  BY DEF SubSeq
<1> QED
  BY <1>1

\* A way as a function on all numbers, with nothing after its end
Key(v) == [k \in Nat |-> IF k \in 1 .. Len(v) THEN v[k] ELSE 0]

Differ(x, y, k) == (\A j \in 1 .. k - 1 : x[j] = y[j]) /\ x[k] < y[k]

Lex(x, y) == \E k \in Nat \ {0} : Differ(x, y, k)

Keys == {x \in [Nat -> Nat] : x[0] = 0}

\* Of two keys that differ one is before the other.
LEMMA LexTotal ==
    ASSUME NEW x \in Keys, NEW y \in Keys, x # y
    PROVE  Lex(x, y) \/ Lex(y, x)
<1> DEFINE S == {k \in Nat : x[k] # y[k]}
<1>1. S # {}
  BY DEF Keys
<1>2. PICK k \in S : \A j \in S : k <= j
  <2>1. S \subseteq Nat
    OBVIOUS
  <2> HIDE DEF S
  <2> QED
    BY <1>1, <2>1, Least
<1>3. k \in Nat \ {0} /\ x[k] \in Nat /\ y[k] \in Nat /\ x[k] # y[k]
  BY <1>2 DEF Keys
<1>4. \A j \in 1 .. k - 1 : x[j] = y[j]
  <2> SUFFICES ASSUME NEW j \in 1 .. k - 1, x[j] # y[j] PROVE FALSE
    OBVIOUS
  <2>1. j \in S /\ j < k
    BY <1>3
  <2> QED
    BY <1>2, <1>3, <2>1
<1>5. Differ(x, y, k) \/ Differ(y, x, k)
  BY <1>3, <1>4 DEF Differ
<1> QED
  BY <1>3, <1>5 DEF Lex

\* What is before is before what comes later, too.
LEMMA LexTransitive ==
    ASSUME NEW x \in Keys, NEW y \in Keys, NEW z \in Keys, Lex(x, y), Lex(y, z)
    PROVE  Lex(x, z)
<1>1. PICK k \in Nat \ {0} : Differ(x, y, k)
  BY DEF Lex
<1>2. PICK l \in Nat \ {0} : Differ(y, z, l)
  BY DEF Lex
<1>3. \A j \in Nat : x[j] \in Nat /\ y[j] \in Nat /\ z[j] \in Nat
  BY DEF Keys
<1>4. PICK m \in Nat \ {0} : m <= k /\ m <= l /\ (m = k \/ m = l)
  <2>1. k <= l \/ l <= k
    OBVIOUS
  <2> QED
    BY <2>1
<1>5. \A j \in 1 .. m - 1 : j \in 1 .. k - 1 /\ j \in 1 .. l - 1
  BY <1>4
<1>6. \A j \in 1 .. m - 1 : x[j] = z[j]
  BY <1>1, <1>2, <1>5 DEF Differ
<1>7. x[m] < z[m]
  <2>1. m = k \/ m \in 1 .. k - 1
    BY <1>4
  <2>2. m = l \/ m \in 1 .. l - 1
    BY <1>4
  <2>3. x[m] < y[m] \/ x[m] = y[m]
    BY <1>1, <2>1 DEF Differ
  <2>4. y[m] < z[m] \/ y[m] = z[m]
    BY <1>2, <2>2 DEF Differ
  <2>5. x[m] < y[m] \/ y[m] < z[m]
    BY <1>1, <1>2, <1>4 DEF Differ
  <2> QED
    BY <1>3, <2>3, <2>4, <2>5
<1> QED
  BY <1>6, <1>7 DEF Lex, Differ

\* The nodes are numbered from 1, so that the end of a way is told from a node.
LEMMA KeyFacts ==
    ASSUME NEW v \in Seq(Nat \ {0})
    PROVE  /\ Key(v) \in Keys /\ Len(v) \in Nat /\ DOMAIN v = 1 .. Len(v)
           /\ \A k \in 1 .. Len(v) : Key(v)[k] = v[k] /\ v[k] \in Nat \ {0}
           /\ \A k \in Nat \ (1 .. Len(v)) : Key(v)[k] = 0
<1>1. Len(v) \in Nat /\ DOMAIN v = 1 .. Len(v) /\ \A k \in 1 .. Len(v) : v[k] \in Nat \ {0}
  BY LenProperties, ElementOfSeq
<1> QED
  BY <1>1 DEF Key, Keys

\* A way that turns off earlier has a key that is before,
LEMMA EarlierIsLex ==
    ASSUME NEW v \in Seq(Nat \ {0}), NEW w \in Seq(Nat \ {0}), Earlier(v, w)
    PROVE  Lex(Key(v), Key(w))
<1>1. PICK k \in DOMAIN v \cap DOMAIN w : SubSeq(v, 1, k - 1) = SubSeq(w, 1, k - 1) /\ v[k] < w[k]
  BY DEF Earlier
<1>2. k \in Nat \ {0} /\ k - 1 \in Nat /\ k \in 1 .. Len(v) /\ k \in 1 .. Len(w)
  BY <1>1, KeyFacts
<1>3. \A j \in 1 .. k - 1 : v[j] = w[j]
  <2>1. k - 1 <= Len(v) /\ k - 1 <= Len(w)
    BY <1>2, KeyFacts
  <2> QED
    BY <1>1, <1>2, <2>1, Agree
<1>4. \A j \in 1 .. k - 1 : j \in 1 .. Len(v) /\ j \in 1 .. Len(w)
  BY <1>2, KeyFacts
<1>5. Differ(Key(v), Key(w), k)
  BY <1>1, <1>2, <1>3, <1>4, KeyFacts DEF Differ
<1> QED
  BY <1>2, <1>5 DEF Lex

\* Where they differ is at a node of both, or at the end of the first.
LEMMA LexIsEarlier ==
    ASSUME NEW v \in Seq(Nat \ {0}), NEW w \in Seq(Nat \ {0}), Lex(Key(v), Key(w))
    PROVE  Earlier(v, w) \/ (IsStrictPrefix(v, w) /\ Len(v) < Len(w))
<1>1. PICK k \in Nat \ {0} : Differ(Key(v), Key(w), k)
  BY DEF Lex
<1>2. k \in 1 .. Len(w)
  <2> SUFFICES ASSUME k \notin 1 .. Len(w) PROVE FALSE
    OBVIOUS
  <2>1. Key(w)[k] = 0 /\ Key(v)[k] \in Nat
    BY KeyFacts DEF Keys
  <2> QED
    BY <1>1, <2>1 DEF Differ
<1>3. CASE k \in 1 .. Len(v)
  <2>1. \A j \in 1 .. k - 1 : j \in 1 .. Len(v) /\ j \in 1 .. Len(w)
    BY <1>2, <1>3, KeyFacts
  <2>2. v[k] < w[k] /\ \A j \in 1 .. k - 1 : v[j] = w[j]
    BY <1>1, <1>2, <1>3, <2>1, KeyFacts DEF Differ
  <2>3. k - 1 \in Nat /\ k - 1 <= Len(v) /\ k - 1 <= Len(w)
    BY <1>2, <1>3, KeyFacts
  <2>4. SubSeq(v, 1, k - 1) = SubSeq(w, 1, k - 1)
    BY <2>2, <2>3, Agree
  <2>5. k \in DOMAIN v \cap DOMAIN w
    BY <1>2, <1>3, KeyFacts
  <2> QED
    BY <2>2, <2>4, <2>5 DEF Earlier
<1>4. CASE k \notin 1 .. Len(v)
  <2>1. Len(v) \in Nat /\ Len(w) \in Nat /\ Len(v) < k /\ k <= Len(w)
    BY <1>2, <1>4, KeyFacts
  <2>2. Len(v) < Len(w) /\ Len(v) <= Len(w)
    BY <2>1
  <2>3. ASSUME NEW j \in 1 .. Len(v) PROVE v[j] = w[j]
    <3>1. j \in 1 .. k - 1 /\ j \in 1 .. Len(w)
      BY <2>1
    <3> QED
      BY <1>1, <3>1, KeyFacts DEF Differ
  <2>4. SubSeq(v, 1, Len(v)) = SubSeq(w, 1, Len(v))
    BY <2>1, <2>2, <2>3, Agree
  <2> QED
    BY <2>2, <2>4 DEF IsStrictPrefix, IsPrefix
<1> QED
  BY <1>3, <1>4

\* Depth first is the order of the keys.
LEMMA DeeperIsLex ==
    ASSUME NEW v \in Seq(Nat \ {0}), NEW w \in Seq(Nat \ {0})
    PROVE  Deeper(v, w) <=> Lex(Key(v), Key(w))
<1>1. ASSUME IsStrictPrefix(v, w) PROVE Lex(Key(v), Key(w))
  <2>1. Len(v) <= Len(w) /\ SubSeq(v, 1, Len(v)) = SubSeq(w, 1, Len(v)) /\ v # w
    BY <1>1 DEF IsStrictPrefix, IsPrefix
  <2>2. Len(v) \in Nat /\ Len(w) \in Nat
    BY KeyFacts
  <2>3. \A j \in 1 .. Len(v) : v[j] = w[j]
    BY <2>1, <2>2, Agree
  <2>4. Len(v) # Len(w)
    BY <2>1, <2>3, SeqEqual
  <2>5. PICK k : k = Len(v) + 1
    OBVIOUS
  <2>6. k \in Nat \ {0} /\ k \in 1 .. Len(w) /\ k \notin 1 .. Len(v) /\ k - 1 = Len(v)
    BY <2>1, <2>2, <2>4, <2>5
  <2>7. Key(v)[k] = 0 /\ Key(w)[k] = w[k] /\ w[k] \in Nat \ {0}
    BY <2>6, KeyFacts
  <2>8. \A j \in 1 .. k - 1 : j \in 1 .. Len(v) /\ j \in 1 .. Len(w)
    BY <2>1, <2>2, <2>6
  <2>9. \A j \in 1 .. k - 1 : Key(v)[j] = Key(w)[j]
    BY <2>3, <2>8, KeyFacts
  <2>10. Differ(Key(v), Key(w), k)
    BY <2>7, <2>9 DEF Differ
  <2> QED
    BY <2>6, <2>10 DEF Lex
<1> QED
  BY <1>1, EarlierIsLex, LexIsEarlier DEF Deeper

\* Breadth first is the order of the lengths, and then of the keys.
LEMMA WiderIsLex ==
    ASSUME NEW v \in Seq(Nat \ {0}), NEW w \in Seq(Nat \ {0})
    PROVE  Wider(v, w) <=> Len(v) < Len(w) \/ (Len(v) = Len(w) /\ Lex(Key(v), Key(w)))
<1>1. Len(v) \in Nat /\ Len(w) \in Nat
  BY KeyFacts
<1> QED
  BY <1>1, EarlierIsLex, LexIsEarlier DEF Wider

\* A relation that is total and transitive on finitely many numbers has a first.
LEMMA FirstOf ==
    ASSUME NEW n \in Nat, NEW A, A \subseteq 1 .. n, A # {}, NEW R,
           \A i, j \in A : i # j => <<i, j>> \in R \/ <<j, i>> \in R,
           \A i, j, k \in A : <<i, j>> \in R /\ <<j, k>> \in R => <<i, k>> \in R
    PROVE  \E i \in A : \A j \in A \ {i} : <<i, j>> \in R
<1> DEFINE First(m) == \/ A \cap 1 .. m = {}
                       \/ \E i \in A \cap 1 .. m : \A j \in (A \cap 1 .. m) \ {i} : <<i, j>> \in R
           S == {m \in 0 .. n : First(m)}
<1>1. 0 \in S
  OBVIOUS
<1>2. ASSUME NEW m \in 1 .. n, m - 1 \in S PROVE m \in S
  <2>1. First(m - 1)
    BY <1>2
  <2>2. \A i \in 1 .. m : i = m \/ i \in 1 .. m - 1
    OBVIOUS
  <2>3. \A i \in 1 .. m - 1 : i \in 1 .. m /\ i # m
    OBVIOUS
  <2>4. m \in 1 .. m
    OBVIOUS
  <2>5. CASE m \notin A
    <3>1. PICK B : B = A \cap 1 .. m - 1
      OBVIOUS
    <3>2. A \cap 1 .. m = B
      BY <2>2, <2>3, <2>5, <3>1
    <3>3. B = {} \/ \E i \in B : \A j \in B \ {i} : <<i, j>> \in R
      BY <2>1, <3>1, Zenon
    <3>4. First(m)
      BY <3>2, <3>3, Zenon
    <3> QED
      BY <3>4
  <2>6. CASE m \in A /\ A \cap 1 .. m - 1 = {}
    <3>1. A \cap 1 .. m = {m}
      BY <2>2, <2>4, <2>6
    <3> QED
      BY <3>1
  <2>7. CASE m \in A /\ A \cap 1 .. m - 1 # {}
    <3>1. PICK i \in A \cap 1 .. m - 1 : \A j \in (A \cap 1 .. m - 1) \ {i} : <<i, j>> \in R
      BY <2>1, <2>7
    <3>2. i \in A \cap 1 .. m /\ i # m
      BY <2>3, <3>1
    <3>3. CASE <<i, m>> \in R
      <4>1. \A j \in (A \cap 1 .. m) \ {i} : <<i, j>> \in R
        BY <2>2, <3>1, <3>3
      <4> QED
        BY <3>2, <4>1
    <3>4. CASE <<m, i>> \in R
      <4>1. \A j \in (A \cap 1 .. m) \ {m} : <<m, j>> \in R
        BY <2>2, <2>7, <3>1, <3>2, <3>4
      <4> QED
        BY <2>4, <2>7, <4>1
    <3> QED
      BY <2>7, <3>2, <3>3, <3>4
  <2> QED
    BY <2>5, <2>6, <2>7
<1>3. First(n)
  <2>1. \A i \in 0 .. n : i \in S
    <3> HIDE DEF S
    <3> QED
      BY <1>1, <1>2, UpTo
  <2>2. n \in S
    <3> HIDE DEF S
    <3> QED
      BY <2>1
  <2> QED
    BY <2>2
<1>4. A \cap 1 .. n = A
  OBVIOUS
<1> QED
  BY <1>3, <1>4

WithEntity(nodes, e) == {i \in DOMAIN nodes : nodes[i].entity = e}

\* Ways are sequences of numbers from 1, and no two nodes have the same one.
LEMMA WaysFacts ==
    ASSUME NEW nodes, IsTree(nodes)
    PROVE  /\ \A i \in DOMAIN nodes : Ways(nodes)[i] \in Seq(Nat \ {0})
           /\ \A i, j \in DOMAIN nodes : i # j => Key(Ways(nodes)[i]) # Key(Ways(nodes)[j])
<1>1. PICK w : w = Ways(nodes)
  OBVIOUS
<1>2. \A i \in DOMAIN nodes : Leads(nodes, w[i], i)
  BY <1>1, WaysLead
<1>3. ASSUME NEW i \in DOMAIN nodes PROVE w[i] \in Seq(Nat \ {0})
  <2>1. PICK v : v = w[i]
    OBVIOUS
  <2>2. v \in Seq(1 .. Len(nodes))
    BY <1>2, <2>1 DEF Leads
  <2>3. Len(v) \in Nat /\ v = [k \in 1 .. Len(v) |-> v[k]]
    BY <2>2, LenProperties
  <2>4. \A k \in 1 .. Len(v) : v[k] \in Nat \ {0}
    <3>1. \A k \in 1 .. Len(v) : v[k] \in 1 .. Len(nodes)
      BY <2>2, ElementOfSeq
    <3> QED
      BY <3>1, ListFacts DEF IsTree
  <2>5. [k \in 1 .. Len(v) |-> v[k]] \in Seq(Nat \ {0})
    BY <2>3, <2>4, IsASeq
  <2> QED
    BY <2>1, <2>3, <2>5
<1>4. ASSUME NEW i \in DOMAIN nodes, NEW j \in DOMAIN nodes, Key(w[i]) = Key(w[j]) PROVE i = j
  <2>1. PICK v : v = w[i]
    OBVIOUS
  <2>2. PICK u : u = w[j]
    OBVIOUS
  <2>3. /\ v \in Seq(Nat \ {0}) /\ Len(v) >= 1 /\ v[Len(v)] = i
        /\ u \in Seq(Nat \ {0}) /\ Len(u) >= 1 /\ u[Len(u)] = j
    BY <1>2, <1>3, <2>1, <2>2 DEF Leads
  <2>4. Len(v) \in Nat /\ Len(u) \in Nat /\ Key(v) = Key(u)
    BY <1>4, <2>1, <2>2, <2>3, KeyFacts
  <2>5. ASSUME Len(v) < Len(u) PROVE FALSE
    <3>1. Len(u) \in 1 .. Len(u) /\ Len(u) \in Nat \ (1 .. Len(v))
      BY <2>3, <2>4, <2>5
    <3>2. Key(u)[Len(u)] \in Nat \ {0} /\ Key(v)[Len(u)] = 0
      BY <2>3, <3>1, KeyFacts
    <3> QED
      BY <2>4, <3>2
  <2>6. ASSUME Len(u) < Len(v) PROVE FALSE
    <3>1. Len(v) \in 1 .. Len(v) /\ Len(v) \in Nat \ (1 .. Len(u))
      BY <2>3, <2>4, <2>6
    <3>2. Key(v)[Len(v)] \in Nat \ {0} /\ Key(u)[Len(v)] = 0
      BY <2>3, <3>1, KeyFacts
    <3> QED
      BY <2>4, <3>2
  <2>7. Len(v) = Len(u) /\ Len(v) \in 1 .. Len(v) /\ Len(u) \in 1 .. Len(u)
    BY <2>3, <2>4, <2>5, <2>6
  <2>8. v[Len(v)] = Key(v)[Len(v)] /\ u[Len(u)] = Key(u)[Len(u)]
    BY <2>3, <2>7, KeyFacts
  <2> QED
    BY <2>3, <2>4, <2>7, <2>8
<1> QED
  BY <1>1, <1>3, <1>4

\* The search in depth finds a node of the entity, if there is one,
LEMMA FirstDeeper ==
    ASSUME NEW nodes, IsTree(nodes), NEW e, WithEntity(nodes, e) # {}
    PROVE  FirstWith(nodes, e, Deeper) \in WithEntity(nodes, e)
<1> DEFINE A == WithEntity(nodes, e)
           w == Ways(nodes)
           R == {p \in A \X A : Deeper(w[p[1]], w[p[2]])}
<1>1. DOMAIN nodes = 1 .. Len(nodes) /\ Len(nodes) \in Nat /\ A \subseteq DOMAIN nodes
  BY ListFacts DEF IsTree, WithEntity
<1>2. \A i, j \in A : <<i, j>> \in R <=> Deeper(w[i], w[j])
  <2> HIDE DEF A, w
  <2> QED
    OBVIOUS
<1>3. \A i, j \in A : <<i, j>> \in R <=> Lex(Key(w[i]), Key(w[j]))
  <2> HIDE DEF A, R
  <2> QED
    BY <1>1, <1>2, WaysFacts, DeeperIsLex
<1>4. \A i \in A : Key(w[i]) \in Keys
  <2> HIDE DEF A, R
  <2> QED
    BY <1>1, WaysFacts, KeyFacts
<1>5. \A i, j \in A : i # j => <<i, j>> \in R \/ <<j, i>> \in R
  <2> HIDE DEF A, R
  <2> QED
    BY <1>1, <1>3, <1>4, WaysFacts, LexTotal
<1>6. \A i, j, k \in A : <<i, j>> \in R /\ <<j, k>> \in R => <<i, k>> \in R
  <2> HIDE DEF A, R, w
  <2> QED
    BY <1>3, <1>4, LexTransitive
<1>7. \E i \in A : \A j \in A \ {i} : <<i, j>> \in R
  <2> HIDE DEF A, R, w
  <2> QED
    BY <1>1, <1>5, <1>6, FirstOf DEF A
<1>8. \E i \in A : \A j \in A \ {i} : Deeper(w[i], w[j])
  <2> HIDE DEF A, R, w
  <2> QED
    BY <1>2, <1>7
<1>9. FirstWith(nodes, e, Deeper) = CHOOSE i \in A : \A j \in A \ {i} : Deeper(w[i], w[j])
  BY DEF FirstWith, WithEntity
<1> QED
  <2> HIDE DEF A, R, w
  <2>1. (CHOOSE i \in A : \A j \in A \ {i} : Deeper(w[i], w[j])) \in A
    BY <1>8, Zenon
  <2> QED
    BY <1>9, <2>1 DEF A

\* and so does the search in breadth.
LEMMA FirstWider ==
    ASSUME NEW nodes, IsTree(nodes), NEW e, WithEntity(nodes, e) # {}
    PROVE  FirstWith(nodes, e, Wider) \in WithEntity(nodes, e)
<1> DEFINE A == WithEntity(nodes, e)
           w == Ways(nodes)
           R == {p \in A \X A : Wider(w[p[1]], w[p[2]])}
<1>1. DOMAIN nodes = 1 .. Len(nodes) /\ Len(nodes) \in Nat /\ A \subseteq DOMAIN nodes
  BY ListFacts DEF IsTree, WithEntity
<1>2. \A i, j \in A : <<i, j>> \in R <=> Wider(w[i], w[j])
  <2> HIDE DEF A, w
  <2> QED
    OBVIOUS
<1>3. \A i, j \in A :
        <<i, j>> \in R <=> \/ Len(w[i]) < Len(w[j])
                           \/ Len(w[i]) = Len(w[j]) /\ Lex(Key(w[i]), Key(w[j]))
  <2> HIDE DEF A, R
  <2> QED
    BY <1>1, <1>2, WaysFacts, WiderIsLex
<1>4. \A i \in A : Key(w[i]) \in Keys /\ Len(w[i]) \in Nat
  <2> HIDE DEF A, R
  <2> QED
    BY <1>1, WaysFacts, KeyFacts
<1>5. \A i, j \in A : i # j => <<i, j>> \in R \/ <<j, i>> \in R
  <2>1. \A i, j \in A : i # j => Key(w[i]) # Key(w[j])
    <3> HIDE DEF A, R
    <3> QED
      BY <1>1, WaysFacts
  <2>2. \A i, j \in A : i # j => Lex(Key(w[i]), Key(w[j])) \/ Lex(Key(w[j]), Key(w[i]))
    <3> HIDE DEF A, R, w
    <3> QED
      BY <1>4, <2>1, LexTotal
  <2> HIDE DEF A, R, w
  <2> QED
    BY <1>3, <1>4, <2>2
<1>6. \A i, j, k \in A : <<i, j>> \in R /\ <<j, k>> \in R => <<i, k>> \in R
  <2>1. \A i, j, k \in A : Lex(Key(w[i]), Key(w[j])) /\ Lex(Key(w[j]), Key(w[k]))
                             => Lex(Key(w[i]), Key(w[k]))
    <3> HIDE DEF A, R, w
    <3> QED
      BY <1>4, LexTransitive
  <2> HIDE DEF A, R, w
  <2> QED
    BY <1>3, <1>4, <2>1
<1>7. \E i \in A : \A j \in A \ {i} : <<i, j>> \in R
  <2> HIDE DEF A, R, w
  <2> QED
    BY <1>1, <1>5, <1>6, FirstOf DEF A
<1>8. \E i \in A : \A j \in A \ {i} : Wider(w[i], w[j])
  <2> HIDE DEF A, R, w
  <2> QED
    BY <1>2, <1>7
<1>9. FirstWith(nodes, e, Wider) = CHOOSE i \in A : \A j \in A \ {i} : Wider(w[i], w[j])
  BY DEF FirstWith, WithEntity
<1> QED
  <2> HIDE DEF A, R, w
  <2>1. (CHOOSE i \in A : \A j \in A \ {i} : Wider(w[i], w[j])) \in A
    BY <1>8, Zenon
  <2> QED
    BY <1>9, <2>1 DEF A

\* The root is above every node.
LEMMA AllBelowRoot ==
    ASSUME NEW nodes, IsTree(nodes), NEW e
    PROVE  HasEntity(nodes, e, 1) <=> WithEntity(nodes, e) # {}
<1>1. ASSUME NEW i \in DOMAIN nodes PROVE 1 \in Range(Ways(nodes)[i])
  <2>1. PICK v : v = Ways(nodes)[i]
    OBVIOUS
  <2>2. v \in Seq(1 .. Len(nodes)) /\ Len(v) >= 1 /\ v[1] = 1
    BY <2>1, WaysLead DEF Leads
  <2>3. DOMAIN v = 1 .. Len(v) /\ Len(v) \in Nat
    BY <2>2, LenProperties
  <2>4. 1 \in DOMAIN v
    BY <2>2, <2>3
  <2> QED
    BY <2>1, <2>2, <2>4 DEF Range
<1>2. Below(nodes, 1) = DOMAIN nodes
  BY <1>1 DEF Below
<1> QED
  BY <1>2 DEF HasEntity, WithEntity

-----------------------------------------------------------------------------
(***************************************************************************)
(* The entities of a tree, and what it takes from the associations.        *)
(***************************************************************************)
\* The entities in a tree
Ents(nodes) == {nodes[i].entity : i \in DOMAIN nodes}

\* What is in the containers at the top
TopContained == UNION {InEntity(t) : t \in Tops}

\* What may be right below node i
Allowed(nodes, i) == InEntity(nodes[i].entity) \cup IF i = 1 THEN TopContained ELSE {}

\* Each node below the root is a containment the device has told of.
ContainTree(nodes) ==
  /\ IsTree(nodes)
  /\ nodes[1].entity \in Tops
  /\ \A i \in 2 .. Len(nodes) : nodes[i].entity \in Allowed(nodes, nodes[i].parent)

\* A tree has its root.
LEMMA TreeFacts ==
    ASSUME NEW nodes, ContainTree(nodes)
    PROVE  /\ Len(nodes) \in Nat \ {0} /\ DOMAIN nodes = 1 .. Len(nodes) /\ List(nodes)
           /\ 1 \in DOMAIN nodes /\ nodes # <<>>
<1>1. List(nodes) /\ Len(nodes) >= 1
  BY DEF ContainTree, IsTree
<1> QED
  BY <1>1, ListFacts, EmptyList

\* One entity more
LEMMA InsertedOne ==
    ASSUME NEW x, ContainTree(x), NEW at \in DOMAIN x, NEW e \in Allowed(x, at),
           NEW y, y = Inserted(at, x, e)
    PROVE  /\ ContainTree(y) /\ Len(x) <= Len(y)
           /\ \A j \in DOMAIN x : y[j] = x[j]
           /\ Ents(y) = Ents(x) \cup {e}
<1>1. CASE HasEntity(x, e, at)
  <2>1. y = x
    BY <1>1 DEF Inserted
  <2>2. e \in Ents(x)
    BY <1>1 DEF HasEntity, Below, Ents
  <2> QED
    BY <2>1, <2>2, TreeFacts
<1>2. CASE ~ HasEntity(x, e, at)
  <2> DEFINE n == Len(x)
             node == [entity |-> e, parent |-> at]
  <2>1. n \in Nat \ {0} /\ DOMAIN x = 1 .. n /\ List(x)
    BY TreeFacts
  <2>2. y = Append(x, node)
    BY <1>2 DEF Inserted
  <2>3. /\ List(y) /\ Len(y) = n + 1 /\ DOMAIN y = 1 .. n + 1
        /\ \A i \in 1 .. n : y[i] = x[i]
        /\ y[n + 1] = node
    <3> HIDE DEF node
    <3> QED
      BY <2>1, <2>2, AppendedList
  <2>4. y[n + 1].entity = e /\ y[n + 1].parent = at /\ at \in 1 .. n
    BY <2>1, <2>3
  <2>5. \A i \in 1 .. n + 1 : i \in 1 .. n \/ i = n + 1
    BY <2>1
  <2>6. \A i \in 2 .. n + 1 : i \in 2 .. n \/ i = n + 1
    BY <2>1
  <2>7. \A i \in 2 .. n : i \in 1 .. n /\ x[i].parent \in 1 .. i - 1
    BY <2>1 DEF ContainTree, IsTree
  <2> HIDE DEF n, node
  <2>8. \A i \in 2 .. n + 1 : y[i].parent \in 1 .. i - 1 /\ y[i].parent \in 1 .. n
    <3>1. \A i \in 2 .. n : y[i].parent \in 1 .. i - 1 /\ y[i].parent \in 1 .. n
      BY <2>1, <2>3, <2>7
    <3>2. y[n + 1].parent \in 1 .. (n + 1) - 1
      BY <2>1, <2>4
    <3> QED
      BY <2>4, <2>6, <3>1, <3>2
  <2>9. \A p \in 1 .. n : Allowed(y, p) = Allowed(x, p)
    BY <2>3 DEF Allowed
  <2>10. \A i \in 2 .. n + 1 : y[i].entity \in Allowed(y, y[i].parent)
    <3>1. \A i \in 2 .. n : y[i].entity \in Allowed(x, y[i].parent)
      BY <2>3, <2>7 DEF ContainTree, n
    <3> QED
      BY <2>4, <2>6, <2>8, <2>9, <3>1
  <2>11. ContainTree(y)
    <3>1. y[1] = x[1] /\ Len(y) >= 1
      BY <2>1, <2>3
    <3> QED
      BY <2>3, <2>8, <2>10, <3>1 DEF ContainTree, IsTree
  <2>12. Ents(y) = Ents(x) \cup {e}
    <3>1. \A i \in 1 .. n : i \in 1 .. n + 1
      BY <2>1
    <3>2. n + 1 \in 1 .. n + 1
      BY <2>1
    <3> QED
      BY <2>1, <2>3, <2>4, <2>5, <3>1, <3>2 DEF Ents
  <2> QED
    BY <2>1, <2>3, <2>11, <2>12 DEF n
<1> QED
  BY <1>1, <1>2

\* What is inserted is in the tree afterwards, and nothing else is new.
LEMMA InsertedTree ==
    ASSUME NEW nodes, ContainTree(nodes), NEW at \in DOMAIN nodes,
           NEW contained, List(contained), Range(contained) \subseteq Allowed(nodes, at),
           NEW r, r = insertToAssociationTree(nodes, at, contained)
    PROVE  ContainTree(r) /\ r[1] = nodes[1] /\ Ents(r) = Ents(nodes) \cup Range(contained)
<1> DEFINE n == Len(contained)
           Had(i) == {contained[j] : j \in 1 .. i}
<1>1. n \in Nat /\ DOMAIN contained = 1 .. n /\ Range(contained) = Had(n)
  BY ListFacts
<1>2. PICK f : IsRun(f, "insert", at, nodes, contained) /\ r = f[n]
  BY <1>1, InsertRuns
<1>3. f[0] = nodes /\ \A i \in 1 .. n : f[i] = Inserted(at, f[i - 1], contained[i])
  <2>1. f[0] = nodes /\ \A i \in 1 .. n : f[i] = Step("insert", at, f[i - 1], contained[i])
    BY <1>1, <1>2, RunFacts
  <2> QED
    BY <2>1 DEF Step
<1> DEFINE Ok(i) == /\ ContainTree(f[i]) /\ Len(nodes) <= Len(f[i])
                    /\ \A j \in DOMAIN nodes : f[i][j] = nodes[j]
                    /\ Ents(f[i]) = Ents(nodes) \cup Had(i)
           S == {i \in 0 .. n : Ok(i)}
<1>4. 0 \in S
  <2>1. Had(0) = {}
    OBVIOUS
  <2> HIDE DEF Had
  <2> QED
    BY <1>1, <1>3, <2>1, TreeFacts
<1>5. ASSUME NEW i \in 1 .. n, i - 1 \in S PROVE i \in S
  <2>1. Ok(i - 1)
    BY <1>5
  <2>2. PICK x : x = f[i - 1]
    OBVIOUS
  <2>3. PICK y : y = f[i]
    OBVIOUS
  <2>4. PICK e : e = contained[i]
    OBVIOUS
  <2>5. /\ ContainTree(x) /\ Len(nodes) <= Len(x)
        /\ \A j \in DOMAIN nodes : x[j] = nodes[j]
        /\ Ents(x) = Ents(nodes) \cup Had(i - 1)
    <3> HIDE DEF Had
    <3> QED
      BY <2>1, <2>2
  <2>6. y = Inserted(at, x, e)
    BY <1>3, <2>2, <2>3, <2>4
  <2>7. at \in DOMAIN x /\ x[at] = nodes[at]
    BY <2>5, TreeFacts
  <2>8. e \in Allowed(x, at)
    BY <1>1, <2>4, <2>7 DEF Allowed
  <2>9. /\ ContainTree(y) /\ Len(x) <= Len(y) /\ \A j \in DOMAIN x : y[j] = x[j]
        /\ Ents(y) = Ents(x) \cup {e}
    BY <2>5, <2>6, <2>7, <2>8, InsertedOne
  <2>10. Had(i) = Had(i - 1) \cup {e}
    <3>1. 1 .. i = 1 .. i - 1 \cup {i}
      BY <1>1
    <3> QED
      BY <2>4, <3>1
  <2>11. Ents(y) = Ents(nodes) \cup Had(i)
    <3> HIDE DEF Had
    <3> QED
      BY <2>5, <2>9, <2>10
  <2>12. Len(nodes) <= Len(y) /\ \A j \in DOMAIN nodes : y[j] = nodes[j]
    BY <2>5, <2>9, TreeFacts
  <2> HIDE DEF Had
  <2> QED
    BY <1>1, <2>3, <2>9, <2>11, <2>12
<1>6. n \in S
  <2>1. \A i \in 0 .. n : i \in S
    <3> HIDE DEF S, n
    <3> QED
      BY <1>1, <1>4, <1>5, UpTo
  <2> HIDE DEF S, n
  <2> QED
    BY <1>1, <2>1
<1>7. Ok(n)
  <2> HIDE DEF Ok
  <2> QED
    BY <1>6
<1> QED
  <2> HIDE DEF Had, n
  <2> QED
    BY <1>1, <1>2, <1>7, TreeFacts

-----------------------------------------------------------------------------
(***************************************************************************)
(* The associations.                                                       *)
(***************************************************************************)
\* What contents C say is in e
Inside(C, e) == UNION {Range(c.contained) : c \in {c \in C : c.entity = e}}

\* Association a has all that C says is in its entity.
Merged(a, C) ==
  /\ a = [entity |-> a.entity, contained |-> a.contained]
  /\ List(a.contained) /\ Range(a.contained) = Inside(C, a.entity)

\* There is an association for every entity of C.
MergedFrom(associations, C) ==
  /\ List(associations)
  /\ \A m \in DOMAIN associations : Merged(associations[m], C)
  /\ Ents(associations) = {c.entity : c \in C}

\* What one more content says is in e
LEMMA InsideMore ==
    ASSUME NEW C, NEW c, NEW e
    PROVE  /\ c.entity = e => Inside(C \cup {c}, e) = Inside(C, e) \cup Range(c.contained)
           /\ c.entity # e => Inside(C \cup {c}, e) = Inside(C, e)
  BY DEF Inside

\* parseEntityAssociationPDR merges one content more.
LEMMA MergedOne ==
    ASSUME NEW x, NEW C, MergedFrom(x, C), NEW c, List(c.contained),
           NEW y, y = parseEntityAssociationPDR(x, c)
    PROVE  MergedFrom(y, C \cup {c}) /\ Len(y) \in Nat /\ Len(y) <= Len(x) + 1
<1> DEFINE n == Len(x)
<1>1. n \in Nat /\ DOMAIN x = 1 .. n /\ List(x)
  BY ListFacts DEF MergedFrom
<1>2. \A m \in 1 .. n : Merged(x[m], C)
  BY <1>1 DEF MergedFrom
<1>3. {x[m].entity : m \in 1 .. n} = {d.entity : d \in C}
  BY <1>1 DEF MergedFrom, Ents
<1> HIDE DEF n
<1>4. CASE \E m \in 1 .. n : x[m].entity = c.entity
  <2> DEFINE z == [m \in 1 .. n |-> IF x[m].entity = c.entity
                                    THEN [x[m] EXCEPT !.contained = @ \o c.contained] ELSE x[m]]
  <2>1. y = z
    BY <1>1, <1>4 DEF parseEntityAssociationPDR
  <2>2. List(y) /\ Len(y) = n /\ DOMAIN y = 1 .. n
    <3>1. \A m \in 1 .. n : z[m] \in Range(z)
      BY DEF Range
    <3>2. z \in Seq(Range(z))
      <4>1. z = [m \in 1 .. n |-> z[m]]
        OBVIOUS
      <4> HIDE DEF z
      <4>2. [m \in 1 .. n |-> z[m]] \in Seq(Range(z))
        BY <1>1, <3>1, IsASeq
      <4> QED
        BY <4>1, <4>2
    <3>3. List(z) /\ DOMAIN z = 1 .. n
      BY <3>2 DEF List
    <3> HIDE DEF z
    <3>4. DOMAIN z = 1 .. Len(z) /\ Len(z) \in Nat
      BY <3>3, ListFacts
    <3>5. Len(z) = n
      BY <1>1, <3>3, <3>4
    <3> QED
      BY <2>1, <3>3, <3>5
  <2>3. ASSUME NEW m \in 1 .. n
        PROVE  /\ y[m] = [entity |-> y[m].entity, contained |-> y[m].contained]
               /\ y[m].entity = x[m].entity
               /\ y[m].contained = IF x[m].entity = c.entity
                                   THEN x[m].contained \o c.contained ELSE x[m].contained
    <3>1. PICK e, s : x[m] = [entity |-> e, contained |-> s]
      BY <1>2 DEF Merged
    <3>2. x[m].entity = e /\ x[m].contained = s
      BY <3>1
    <3>3. CASE e = c.entity
      <4>1. y[m] = [x[m] EXCEPT !.contained = @ \o c.contained]
        BY <2>1, <3>2, <3>3
      <4>2. PICK t : t = s \o c.contained
        OBVIOUS
      <4>3. y[m] = [[entity |-> e, contained |-> s] EXCEPT !.contained = t]
        BY <3>1, <3>2, <4>1, <4>2, Zenon
      <4>4. y[m] = [entity |-> e, contained |-> t]
        BY <4>3
      <4> QED
        BY <3>2, <3>3, <4>2, <4>4
    <3>4. CASE e # c.entity
      <4>1. y[m] = x[m]
        BY <2>1, <3>2, <3>4
      <4> QED
        BY <3>1, <3>2, <3>4, <4>1
    <3> QED
      BY <3>3, <3>4
  <2>4. ASSUME NEW m \in 1 .. n
        PROVE  Merged(y[m], C \cup {c})
    <3>1. PICK s : s = x[m].contained
      OBVIOUS
    <3>2. PICK t : t = c.contained
      OBVIOUS
    <3>3. List(s) /\ Range(s) = Inside(C, x[m].entity) /\ List(t)
      BY <1>2, <3>1, <3>2 DEF Merged
    <3>4. List(s \o t) /\ Range(s \o t) = Range(s) \cup Range(t)
      BY <3>3, JoinedList
    <3>5. PICK e : e = x[m].entity
      OBVIOUS
    <3>6. Inside(C \cup {c}, e) = IF c.entity = e THEN Range(s) \cup Range(t) ELSE Range(s)
      <4>1. /\ c.entity = e => Inside(C \cup {c}, e) = Inside(C, e) \cup Range(c.contained)
            /\ c.entity # e => Inside(C \cup {c}, e) = Inside(C, e)
        BY InsideMore, ZenonT(40)
      <4> QED
        BY <3>2, <3>3, <3>5, <4>1
    <3> QED
      BY <2>3, <3>1, <3>2, <3>3, <3>4, <3>5, <3>6 DEF Merged
  <2>5. Ents(y) = {d.entity : d \in C \cup {c}}
    <3>1. {y[m].entity : m \in 1 .. n} = {x[m].entity : m \in 1 .. n}
      <4>1. ASSUME NEW m \in 1 .. n PROVE y[m].entity = x[m].entity
        BY <2>3
      <4> QED
        BY <4>1, Zenon
    <3>2. c.entity \in {d.entity : d \in C}
      BY <1>3, <1>4
    <3>3. {d.entity : d \in C \cup {c}} = {d.entity : d \in C}
      BY <3>2
    <3>4. Ents(y) = {y[m].entity : m \in 1 .. n}
      BY <2>2 DEF Ents
    <3> QED
      BY <1>3, <3>1, <3>3, <3>4
  <2> QED
    <3>1. MergedFrom(y, C \cup {c})
      BY <2>2, <2>4, <2>5, Zenon DEF MergedFrom
    <3> QED
      BY <1>1, <2>2, <3>1 DEF n
<1>5. CASE ~ \E m \in 1 .. n : x[m].entity = c.entity
  <2> DEFINE a == [entity |-> c.entity, contained |-> c.contained]
  <2>1. y = Append(x, a)
    BY <1>1, <1>5 DEF parseEntityAssociationPDR
  <2>2. /\ List(y) /\ Len(y) = n + 1 /\ DOMAIN y = 1 .. n + 1
        /\ \A m \in 1 .. n : y[m] = x[m]
        /\ y[n + 1] = a
    <3> HIDE DEF a
    <3> QED
      BY <1>1, <2>1, AppendedList DEF n
  <2>3. \A m \in 1 .. n + 1 : m \in 1 .. n \/ m = n + 1
    BY <1>1
  <2>4. \A m \in 1 .. n : m \in 1 .. n + 1
    BY <1>1
  <2>5. n + 1 \in 1 .. n + 1
    BY <1>1
  <2>6. c.entity \notin {d.entity : d \in C}
    BY <1>3, <1>5
  <2>7. Inside(C, c.entity) = {}
    BY <2>6 DEF Inside
  <2>8. ASSUME NEW m \in 1 .. n + 1
        PROVE  Merged(y[m], C \cup {c})
    <3>1. CASE m \in 1 .. n
      <4>1. PICK e : e = x[m].entity
        OBVIOUS
      <4>2. Inside(C \cup {c}, e) = Inside(C, e)
        BY <1>5, <3>1, <4>1, InsideMore
      <4> QED
        BY <1>2, <2>2, <3>1, <4>1, <4>2 DEF Merged
    <3>2. CASE m = n + 1
      <4>1. y[m] = a
        BY <2>2, <3>2
      <4>2. PICK e : e = c.entity
        OBVIOUS
      <4>3. Inside(C \cup {c}, e) = Range(c.contained)
        <5>1. Inside(C \cup {c}, e) = Inside(C, e) \cup Range(c.contained)
          BY <4>2, InsideMore, Zenon
        <5> QED
          BY <2>7, <4>2, <5>1
      <4> QED
        BY <4>1, <4>2, <4>3 DEF Merged
    <3> QED
      BY <2>3, <3>1, <3>2
  <2>9. Ents(y) = {d.entity : d \in C \cup {c}}
    <3>1. y[n + 1].entity = c.entity
      BY <2>2
    <3>2. Ents(y) = {x[m].entity : m \in 1 .. n} \cup {c.entity}
      BY <2>2, <2>3, <2>4, <2>5, <3>1 DEF Ents
    <3> QED
      BY <1>3, <3>2
  <2> QED
    <3>1. MergedFrom(y, C \cup {c})
      BY <2>2, <2>8, <2>9, Zenon DEF MergedFrom
    <3> QED
      BY <1>1, <2>2, <3>1 DEF n
<1> QED
  BY <1>1, <1>4, <1>5

\* The repository has records the device has had.
RecordsOfDevice ==
  /\ contents \in Repositories
  /\ Len(_pdrRepo) \in Nat /\ DOMAIN _pdrRepo = 1 .. Len(_pdrRepo)
  /\ \A i \in DOMAIN _pdrRepo : _pdrRepo[i][1].handle \in DOMAIN contents

\* An association that has everything that is in its entity
Held(a) == List(a.contained) /\ Range(a.contained) = InEntity(a.entity)

\* X and Y name the same entities.
SameEntities(X, Y) ==
  /\ \A x \in X : \E y \in Y : y.entity = x.entity
  /\ \A y \in Y : \E x \in X : x.entity = y.entity

\* The associations have what the records say, one for each container.
LEMMA ParsedAssociations ==
    ASSUME RecordsOfDevice,
           NEW r, r = ParseAll("association", parseEntityAssociationPDR, <<>>)
    PROVE  /\ List(r) /\ Len(r) <= Containers
           /\ \A a \in Range(r) : Held(a)
           /\ SameEntities(Range(r), OfType("association"))
<1> DEFINE n == Len(_pdrRepo)
           isOf(j) == IsOf(_pdrRepo[j], "association")
           C(i) == {Content(_pdrRepo[j]) : j \in {j \in 1 .. i : isOf(j)}}
<1>1. n \in Nat /\ DOMAIN _pdrRepo = 1 .. n
  BY DEF RecordsOfDevice
<1>2. C(n) = OfType("association")
  BY <1>1 DEF OfType, Records
<1>3. PICK f : IsRun(f, "association", "association", <<>>, _pdrRepo) /\ r = f[n]
  BY <1>1, AssociationRuns
<1>4. /\ f[0] = <<>>
      /\ \A i \in 1 .. n :
           f[i] = IF isOf(i) THEN parseEntityAssociationPDR(f[i - 1], Content(_pdrRepo[i]))
                  ELSE f[i - 1]
  <2>1. f[0] = <<>> /\ \A i \in 1 .. n :
          f[i] = Step("association", "association", f[i - 1], _pdrRepo[i])
    BY <1>1, <1>3, RunFacts
  <2> QED
    BY <2>1 DEF Step, ParsedBy
<1>5. \A i \in 1 .. n : isOf(i) => List(Content(_pdrRepo[i]).contained)
  BY <1>1, ContainedAssumption DEF RecordsOfDevice, IsOf, Content, List
<1> DEFINE Ok(i) == MergedFrom(f[i], C(i)) /\ Len(f[i]) \in Nat /\ Len(f[i]) <= i
           S == {i \in 0 .. n : Ok(i)}
<1>6. 0 \in S
  <2>1. C(0) = {}
    OBVIOUS
  <2>2. MergedFrom(<<>>, {})
    <3>1. Ents(<<>>) = {}
      BY EmptyList DEF Ents
    <3> QED
      BY <3>1, EmptyList DEF MergedFrom
  <2>3. Len(<<>>) = 0
    BY EmptyList
  <2>4. Ok(0)
    BY <1>4, <2>1, <2>2, <2>3
  <2> HIDE DEF Ok
  <2> QED
    BY <1>1, <2>4
<1>7. ASSUME NEW i \in 1 .. n, i - 1 \in S PROVE i \in S
  <2>1. Ok(i - 1)
    BY <1>7
  <2>2. 1 .. i = 1 .. i - 1 \cup {i}
    BY <1>1
  <2>3. CASE isOf(i)
    <3>1. C(i) = C(i - 1) \cup {Content(_pdrRepo[i])}
      BY <2>2, <2>3
    <3>2. f[i] = parseEntityAssociationPDR(f[i - 1], Content(_pdrRepo[i]))
      BY <1>4, <2>3
    <3> HIDE DEF C, isOf
    <3>3. MergedFrom(f[i], C(i)) /\ Len(f[i]) \in Nat /\ Len(f[i]) <= Len(f[i - 1]) + 1
      BY <1>5, <2>1, <2>3, <3>1, <3>2, MergedOne
    <3> QED
      BY <1>1, <2>1, <3>3
  <2>4. CASE ~ isOf(i)
    <3>1. C(i) = C(i - 1)
      BY <2>2, <2>4
    <3>2. f[i] = f[i - 1]
      BY <1>4, <2>4
    <3> HIDE DEF C, isOf
    <3> QED
      BY <1>1, <2>1, <3>1, <3>2
  <2> QED
    BY <2>3, <2>4
<1>8. Ok(n)
  <2>1. \A i \in 0 .. n : i \in S
    <3> HIDE DEF S, n
    <3> QED
      BY <1>1, <1>6, <1>7, UpTo
  <2>2. n \in S
    <3> HIDE DEF S, n
    <3> QED
      BY <1>1, <2>1
  <2> HIDE DEF Ok
  <2> QED
    BY <2>2
<1>9. MergedFrom(r, OfType("association")) /\ Len(r) <= Containers
  <2> HIDE DEF C
  <2> QED
    BY <1>2, <1>3, <1>8 DEF Containers
<1>10. \A e : Inside(OfType("association"), e) = InEntity(e)
  BY DEF Inside, InEntity
<1>11. \A a \in Range(r) : Held(a)
  BY <1>9, <1>10 DEF MergedFrom, Merged, Held, Range
<1>12. SameEntities(Range(r), OfType("association"))
  <2>1. PICK X : X = {c.entity : c \in OfType("association")}
    OBVIOUS
  <2>2. PICK Y : Y = OfType("association")
    OBVIOUS
  <2>3. X = {c.entity : c \in Y}
    BY <2>1, <2>2
  <2>4. Ents(r) = X
    BY <1>9, <2>1 DEF MergedFrom
  <2>5. {r[i].entity : i \in DOMAIN r} = {c.entity : c \in Y}
    BY <2>3, <2>4 DEF Ents
  <2>6. \A c \in Y : c.entity \in {d.entity : d \in Y}
    OBVIOUS
  <2>7. \A i \in DOMAIN r : r[i].entity \in {r[j].entity : j \in DOMAIN r}
    OBVIOUS
  <2>8. \A i \in DOMAIN r : \E c \in Y : c.entity = r[i].entity
    BY <2>5, <2>7
  <2>9. \A c \in Y : \E i \in DOMAIN r : r[i].entity = c.entity
    BY <2>5, <2>6
  <2> QED
    BY <2>2, <2>8, <2>9 DEF SameEntities, Range
<1> QED
  BY <1>9, <1>11, <1>12 DEF MergedFrom

-----------------------------------------------------------------------------
(***************************************************************************)
(* How far containment leads.                                              *)
(***************************************************************************)
LEMMA WithinDefined ==
    ASSUME Containers \in Nat
    PROVE  /\ Within[0] = TopContained
           /\ \A n \in 1 .. Containers :
                Within[n] = Within[n - 1] \cup UNION {InEntity(e) : e \in Within[n - 1]}
<1> DEFINE More(X) == X \cup UNION {InEntity(e) : e \in X}
           Ok(w, m) == w = [n \in 0 .. m |-> IF n = 0 THEN TopContained ELSE More(w[n - 1])]
           S == {m \in 0 .. Containers : \E w : Ok(w, m)}
<1>1. 0 \in S
  <2>1. Ok([n \in 0 .. 0 |-> TopContained], 0)
    <3> HIDE DEF More
    <3> QED
      OBVIOUS
  <2> HIDE DEF Ok
  <2> QED
    BY <2>1
<1>2. ASSUME NEW m \in 1 .. Containers, m - 1 \in S PROVE m \in S
  <2> HIDE DEF More
  <2>1. PICK g : Ok(g, m - 1)
    BY <1>2
  <2> DEFINE h == [n \in 0 .. m |-> IF n = m THEN More(g[m - 1]) ELSE g[n]]
  <2>2. \A n \in 0 .. m - 1 : h[n] = g[n]
    OBVIOUS
  <2>3. \A n \in 0 .. m : h[n] = IF n = 0 THEN TopContained ELSE More(h[n - 1])
    BY <2>1, <2>2
  <2>4. Ok(h, m)
    BY <2>3
  <2> HIDE DEF Ok, h
  <2> QED
    BY <2>4
<1>3. \E w : Ok(w, Containers)
  <2>1. \A m \in 0 .. Containers : m \in S
    <3> HIDE DEF S
    <3> QED
      BY <1>1, <1>2, UpTo
  <2>2. Containers \in S
    <3> HIDE DEF S
    <3> QED
      BY <2>1
  <2> HIDE DEF Ok
  <2> QED
    BY <2>2
<1> DEFINE v == CHOOSE w : Ok(w, Containers)
<1>4. Ok(v, Containers)
  <2> HIDE DEF Ok
  <2> QED
    BY <1>3, Zenon
<1>5. Within = v
  BY DEF Within, TopContained
<1>6. v[0] = TopContained /\ \A n \in 1 .. Containers : v[n] = More(v[n - 1])
  <2> HIDE DEF v, More
  <2> QED
    BY <1>4
<1> QED
  <2> HIDE DEF v
  <2> QED
    BY <1>5, <1>6

\* More containments lead to more.
LEMMA WithinGrows ==
    ASSUME Containers \in Nat
    PROVE  \A k \in 0 .. Containers : \A m \in k .. Containers : Within[k] \subseteq Within[m]
<1> SUFFICES ASSUME NEW k \in 0 .. Containers
             PROVE  \A m \in k .. Containers : Within[k] \subseteq Within[m]
  OBVIOUS
<1> DEFINE S == {m \in 0 .. Containers : k <= m => Within[k] \subseteq Within[m]}
<1>1. 0 \in S
  <2>1. k <= 0 => k = 0
    OBVIOUS
  <2> QED
    BY <2>1
<1>2. ASSUME NEW m \in 1 .. Containers, m - 1 \in S PROVE m \in S
  <2>1. Within[m - 1] \subseteq Within[m]
    BY WithinDefined
  <2>2. k <= m => k = m \/ k <= m - 1
    OBVIOUS
  <2>3. k <= m - 1 => Within[k] \subseteq Within[m - 1]
    BY <1>2
  <2> QED
    BY <2>1, <2>2, <2>3
<1>3. \A m \in 0 .. Containers : m \in S
  <2> HIDE DEF S
  <2> QED
    BY <1>1, <1>2, UpTo
<1>4. \A m \in k .. Containers : m \in 0 .. Containers /\ k <= m
  OBVIOUS
<1> QED
  BY <1>3, <1>4

-----------------------------------------------------------------------------
(***************************************************************************)
(* The tree while it grows.                                                *)
(***************************************************************************)
\* An association that is taken from the list leads one containment further.
Rank(nodes, k) == k \in 0 .. Containers /\ Ents(nodes) \subseteq {nodes[1].entity} \cup Within[k]

\* What is in the entity of a is in the tree, or a is still in the list.
TakenOrLeft(nodes, left, e) ==
  InEntity(e) \subseteq Ents(nodes) \/ \E a \in Range(left) : a.entity = e

TreeStage(nodes, left) ==
  /\ ContainTree(nodes)
  /\ TopContained \subseteq Ents(nodes)
  /\ List(left) /\ \A a \in Range(left) : Held(a)
  /\ Rank(nodes, Containers - Len(left))
  /\ \A c \in OfType("association") : TakenOrLeft(nodes, left, c.entity)

\* Nothing that is left has its entity in the tree.
Closed(nodes, left) == \A a \in Range(left) : a.entity \notin Ents(nodes)

\* Nothing is in what no association is about.
LEMMA NotAContainer ==
    ASSUME NEW e, \A c \in OfType("association") : c.entity # e
    PROVE  InEntity(e) = {}
  BY DEF InEntity

\* A tree nothing can be added to has what containment leads to.
LEMMA ClosedIsReachable ==
    ASSUME NEW nodes, NEW left, TreeStage(nodes, left), Closed(nodes, left), Containers \in Nat
    PROVE  Ents(nodes) = {nodes[1].entity} \cup Reachable
<1>1. Len(left) \in Nat /\ Containers - Len(left) \in 0 .. Containers
  BY ListFacts DEF TreeStage, Rank
<1>2. Ents(nodes) \subseteq {nodes[1].entity} \cup Reachable
  <2>1. Within[Containers - Len(left)] \subseteq Within[Containers]
    <3>1. PICK k : k = Containers - Len(left)
      OBVIOUS
    <3>2. k \in 0 .. Containers /\ Containers \in k .. Containers
      BY <1>1, <3>1
    <3> QED
      BY <3>1, <3>2, WithinGrows
  <2> QED
    BY <2>1 DEF TreeStage, Rank, Reachable
<1>3. \A e \in Ents(nodes) : InEntity(e) \subseteq Ents(nodes)
  <2> SUFFICES ASSUME NEW e \in Ents(nodes) PROVE InEntity(e) \subseteq Ents(nodes)
    OBVIOUS
  <2>1. CASE \A c \in OfType("association") : c.entity # e
    BY <2>1, NotAContainer
  <2>2. ASSUME NEW c \in OfType("association"), c.entity = e PROVE InEntity(e) \subseteq Ents(nodes)
    <3>1. TakenOrLeft(nodes, left, e)
      BY <2>2 DEF TreeStage
    <3> QED
      BY <3>1 DEF TakenOrLeft, Closed
  <2> QED
    BY <2>1, <2>2
<1> DEFINE S == {n \in 0 .. Containers : Within[n] \subseteq Ents(nodes)}
<1>4. 0 \in S
  BY WithinDefined DEF TreeStage
<1>5. ASSUME NEW n \in 1 .. Containers, n - 1 \in S PROVE n \in S
  <2>1. Within[n] = Within[n - 1] \cup UNION {InEntity(e) : e \in Within[n - 1]}
    BY WithinDefined
  <2>2. Within[n - 1] \subseteq Ents(nodes)
    BY <1>5
  <2>3. Within[n] \subseteq Ents(nodes)
    BY <1>3, <2>1, <2>2
  <2> QED
    BY <2>3
<1>6. Reachable \subseteq Ents(nodes)
  <2>1. \A n \in 0 .. Containers : n \in S
    <3> HIDE DEF S
    <3> QED
      BY <1>4, <1>5, UpTo
  <2>2. Containers \in S
    <3> HIDE DEF S
    <3> QED
      BY <2>1
  <2> QED
    BY <2>2 DEF Reachable
<1>7. nodes[1].entity \in Ents(nodes)
  BY TreeFacts DEF TreeStage, Ents
<1> QED
  BY <1>2, <1>6, <1>7

\* A pair of tree and list, with one of them changed
LEMMA PairChanged ==
    ASSUME NEW t, NEW l, NEW u
    PROVE  /\ [[tree |-> t, left |-> l] EXCEPT !.tree = u] = [tree |-> u, left |-> l]
           /\ [[tree |-> t, left |-> l] EXCEPT !.left = u] = [tree |-> t, left |-> u]
  OBVIOUS

\* Pairs that are the same have the same parts.
LEMMA SamePair ==
    ASSUME NEW t, NEW l, NEW u, NEW k, [tree |-> t, left |-> l] = [tree |-> u, left |-> k]
    PROVE  t = u /\ l = k
  OBVIOUS

\* What extractRootNode makes of one association
LEMMA ExtractedFrom ==
    ASSUME NEW t, NEW l, NEW c, NEW a
    PROVE  Extracted(c, [tree |-> t, left |-> l], a) =
             IF a.entity.container = c
             THEN [tree |-> insertToAssociationTree(Rooted(t, a.entity), 1, a.contained),
                   left |-> l]
             ELSE [tree |-> t, left |-> Append(l, a)]
<1> DEFINE p == [tree |-> t, left |-> l]
           u == insertToAssociationTree(Rooted(t, a.entity), 1, a.contained)
           k == Append(l, a)
<1>1. p.tree = t /\ p.left = l
  OBVIOUS
<1>2. Extracted(c, p, a) = IF a.entity.container = c THEN [p EXCEPT !.tree = u]
                           ELSE [p EXCEPT !.left = k]
  <2> HIDE DEF p
  <2> QED
    BY <1>1, Zenon DEF Extracted
<1> HIDE DEF u, k
<1>3. Extracted(c, p, a) = IF a.entity.container = c THEN [tree |-> u, left |-> l]
                           ELSE [tree |-> t, left |-> k]
  BY <1>2, PairChanged
<1> QED
  BY <1>3 DEF u, k

\* What a pass makes of one association
LEMMA PassedFrom ==
    ASSUME NEW t, NEW l, NEW a
    PROVE  Passed([tree |-> t, left |-> l], a) =
             IF HasEntity(t, a.entity, 1)
             THEN [tree |-> insertToAssociationTree(t, FirstWith(t, a.entity, Wider), a.contained),
                   left |-> l]
             ELSE [tree |-> t, left |-> Append(l, a)]
<1> DEFINE p == [tree |-> t, left |-> l]
           u == insertToAssociationTree(t, FirstWith(t, a.entity, Wider), a.contained)
           k == Append(l, a)
<1>1. p.tree = t /\ p.left = l
  OBVIOUS
<1>2. Passed(p, a) = IF HasEntity(t, a.entity, 1) THEN [p EXCEPT !.tree = u]
                     ELSE [p EXCEPT !.left = k]
  <2> HIDE DEF p
  <2> QED
    BY <1>1, Zenon DEF Passed
<1> HIDE DEF u, k
<1>3. Passed(p, a) = IF HasEntity(t, a.entity, 1) THEN [tree |-> u, left |-> l]
                     ELSE [tree |-> t, left |-> k]
  BY <1>2, PairChanged
<1> QED
  BY <1>3 DEF u, k

\* The tree and the list after one association of extractRootNode,
LEMMA ExtractedTo ==
    ASSUME NEW t, NEW l, NEW c, NEW a
    PROVE  \A u, k : Extracted(c, [tree |-> t, left |-> l], a) = [tree |-> u, left |-> k] =>
             IF a.entity.container = c
             THEN u = insertToAssociationTree(Rooted(t, a.entity), 1, a.contained) /\ k = l
             ELSE u = t /\ k = Append(l, a)
<1> DEFINE v == insertToAssociationTree(Rooted(t, a.entity), 1, a.contained)
           w == Append(l, a)
<1>1. Extracted(c, [tree |-> t, left |-> l], a) =
        IF a.entity.container = c THEN [tree |-> v, left |-> l] ELSE [tree |-> t, left |-> w]
  BY ExtractedFrom, Zenon
<1> HIDE DEF v, w
<1>2. \A u, k : Extracted(c, [tree |-> t, left |-> l], a) = [tree |-> u, left |-> k] =>
        IF a.entity.container = c THEN u = v /\ k = l ELSE u = t /\ k = w
  BY <1>1, SamePair
<1> QED
  BY <1>2 DEF v, w

\* and of a pass
LEMMA PassedTo ==
    ASSUME NEW t, NEW l, NEW a
    PROVE  \A u, k : Passed([tree |-> t, left |-> l], a) = [tree |-> u, left |-> k] =>
             IF HasEntity(t, a.entity, 1)
             THEN /\ u = insertToAssociationTree(t, FirstWith(t, a.entity, Wider), a.contained)
                  /\ k = l
             ELSE u = t /\ k = Append(l, a)
<1> DEFINE v == insertToAssociationTree(t, FirstWith(t, a.entity, Wider), a.contained)
           w == Append(l, a)
<1>1. Passed([tree |-> t, left |-> l], a) =
        IF HasEntity(t, a.entity, 1) THEN [tree |-> v, left |-> l] ELSE [tree |-> t, left |-> w]
  BY PassedFrom, Zenon
<1> HIDE DEF v, w
<1>2. \A u, k : Passed([tree |-> t, left |-> l], a) = [tree |-> u, left |-> k] =>
        IF HasEntity(t, a.entity, 1) THEN u = v /\ k = l ELSE u = t /\ k = w
  BY <1>1, SamePair
<1> QED
  BY <1>2 DEF v, w

\* A sequence of one element
LEMMA Single ==
    ASSUME NEW x, NEW t, t = <<x>>
    PROVE  t \in Seq({x}) /\ Len(t) = 1 /\ t[1] = x
<1>1. Len(t) = 1 /\ t[1] = x
  OBVIOUS
<1>2. t \in Seq({x})
  OBVIOUS
<1> QED
  BY <1>1, <1>2

\* A tree that has only its root
LEMMA RootOnly ==
    ASSUME NEW e \in Tops, NEW t, t = Rooted(<<>>, e)
    PROVE  ContainTree(t) /\ t # <<>> /\ Ents(t) = {e} /\ t[1].entity = e
<1> DEFINE node == [entity |-> e, parent |-> 0]
<1>1. t = <<node>>
  BY DEF Rooted
<1>2. t \in Seq({node}) /\ Len(t) = 1 /\ t[1] = node
  <2> HIDE DEF node
  <2> QED
    BY <1>1, Single
<1>3. List(t) /\ DOMAIN t = 1 .. 1
  <2> HIDE DEF node
  <2> QED
    BY <1>2, ASeqIsList, LenProperties
<1>4. t[1].entity = e /\ t[1].parent = 0
  BY <1>2
<1>5. ContainTree(t)
  <2> HIDE DEF node
  <2>1. 2 .. Len(t) = {}
    BY <1>2
  <2> QED
    BY <1>2, <1>3, <1>4, <2>1 DEF ContainTree, IsTree
<1>6. Ents(t) = {e}
  BY <1>3, <1>4 DEF Ents
<1> QED
  BY <1>4, <1>5, <1>6, TreeFacts

\* extractRootNode has taken from associations up to i what is at the top.
TopsTaken(t, l, s, i, c) ==
  /\ List(l) /\ Len(l) <= i /\ Range(l) \subseteq Range(s)
  /\ \A j \in 1 .. i : s[j].entity.container # c => s[j] \in Range(l)
  /\ \/ t = <<>> /\ \A j \in 1 .. i : s[j].entity.container # c
     \/ /\ ContainTree(t)
        /\ Ents(t) \subseteq {t[1].entity} \cup TopContained
        /\ \A j \in 1 .. i : s[j].entity.container = c => Range(s[j].contained) \subseteq Ents(t)

\* extractRootNode goes on to the next association.
LEMMA TopsTakenOne ==
    ASSUME NEW s, List(s), \A a \in Range(s) : Held(a),
           \A a \in Range(s) : a.entity.container = _containerID => a.entity \in Tops,
           NEW i \in 1 .. Len(s), NEW t, NEW l, TopsTaken(t, l, s, i - 1, _containerID),
           NEW u, NEW k,
           Extracted(_containerID, [tree |-> t, left |-> l], s[i]) = [tree |-> u, left |-> k]
    PROVE  TopsTaken(u, k, s, i, _containerID)
<1>1. Len(s) \in Nat /\ i \in Nat /\ s[i] \in Range(s)
  BY ListFacts
<1>2. \A j \in 1 .. i : j = i \/ j \in 1 .. i - 1
  BY <1>1
<1>3. PICK a : a = s[i]
  OBVIOUS
<1>4. Len(l) \in Nat /\ List(l)
  BY ListFacts DEF TopsTaken
<1>5. CASE a.entity.container = _containerID
  <2>1. u = insertToAssociationTree(Rooted(t, a.entity), 1, a.contained) /\ k = l
    BY <1>3, <1>5, ExtractedTo
  <2>2. a.entity \in Tops /\ List(a.contained) /\ Range(a.contained) = InEntity(a.entity)
    BY <1>1, <1>3, <1>5 DEF Held
  <2>3. PICK v : v = Rooted(t, a.entity)
    OBVIOUS
  <2>4. /\ ContainTree(v) /\ Ents(v) \subseteq {v[1].entity} \cup TopContained
        /\ \A j \in 1 .. i - 1 : s[j].entity.container = _containerID
                                   => Range(s[j].contained) \subseteq Ents(v)
    <3>1. CASE t = <<>> /\ \A j \in 1 .. i - 1 : s[j].entity.container # _containerID
      <4>1. ContainTree(v) /\ Ents(v) = {a.entity} /\ v[1].entity = a.entity
        BY <2>2, <2>3, <3>1, RootOnly
      <4> QED
        BY <3>1, <4>1
    <3>2. CASE t # <<>>
      <4>1. v = t
        BY <2>3, <3>2 DEF Rooted
      <4> QED
        BY <3>2, <4>1 DEF TopsTaken
    <3> QED
      BY <3>1, <3>2, TreeFacts DEF TopsTaken
  <2>5. Range(a.contained) \subseteq TopContained
    BY <2>2 DEF TopContained
  <2>6. Range(a.contained) \subseteq Allowed(v, 1) /\ 1 \in DOMAIN v
    BY <2>4, <2>5, TreeFacts DEF Allowed
  <2>7. ContainTree(u) /\ u[1] = v[1] /\ Ents(u) = Ents(v) \cup Range(a.contained)
    BY <2>1, <2>2, <2>3, <2>4, <2>6, InsertedTree
  <2>8. Ents(u) \subseteq {u[1].entity} \cup TopContained
    BY <2>4, <2>5, <2>7
  <2>9. \A j \in 1 .. i : s[j].entity.container = _containerID
                            => Range(s[j].contained) \subseteq Ents(u)
    BY <1>2, <1>3, <2>4, <2>7
  <2>10. \A j \in 1 .. i : s[j].entity.container # _containerID => s[j] \in Range(k)
    BY <1>2, <1>3, <1>5, <2>1 DEF TopsTaken
  <2>11. List(k) /\ Len(k) <= i /\ Range(k) \subseteq Range(s)
    BY <1>1, <1>4, <2>1 DEF TopsTaken
  <2> QED
    BY <2>7, <2>8, <2>9, <2>10, <2>11 DEF TopsTaken
<1>6. CASE a.entity.container # _containerID
  <2>1. u = t /\ k = Append(l, a)
    BY <1>3, <1>6, ExtractedTo
  <2>2. List(k) /\ Len(k) = Len(l) + 1 /\ Range(k) = Range(l) \cup {a}
    BY <1>4, <2>1, AppendedList
  <2>3. List(k) /\ Len(k) <= i /\ Range(k) \subseteq Range(s)
    BY <1>1, <1>3, <1>4, <2>2 DEF TopsTaken
  <2>4. \A j \in 1 .. i : s[j].entity.container # _containerID => s[j] \in Range(k)
    BY <1>2, <1>3, <2>2 DEF TopsTaken
  <2>5. CASE t = <<>> /\ \A j \in 1 .. i - 1 : s[j].entity.container # _containerID
    <3>1. \A j \in 1 .. i : s[j].entity.container # _containerID
      BY <1>2, <1>3, <1>6, <2>5
    <3> QED
      BY <2>1, <2>3, <2>4, <2>5, <3>1 DEF TopsTaken
  <2>6. CASE t # <<>>
    <3>1. /\ ContainTree(t) /\ Ents(t) \subseteq {t[1].entity} \cup TopContained
          /\ \A j \in 1 .. i - 1 : s[j].entity.container = _containerID
                                     => Range(s[j].contained) \subseteq Ents(t)
      BY <2>6 DEF TopsTaken
    <3>2. \A j \in 1 .. i : s[j].entity.container = _containerID
                              => Range(s[j].contained) \subseteq Ents(t)
      BY <1>2, <1>3, <1>6, <3>1
    <3> QED
      BY <2>1, <2>3, <2>4, <3>1, <3>2 DEF TopsTaken
  <2> QED
    BY <2>5, <2>6, TreeFacts DEF TopsTaken
<1> QED
  BY <1>5, <1>6

\* extractRootNode finds no root where there is none, and else begins the tree.
LEMMA ExtractedRoot ==
    ASSUME NEW s, List(s), Len(s) <= Containers, Containers \in Nat, \A a \in Range(s) : Held(a),
           SameEntities(Range(s), OfType("association")),
           NEW r, r = extractRootNode(s, _containerID)
    PROVE  \/ r.tree = <<>> /\ Tops = {}
           \/ TreeStage(r.tree, r.left)
<1> DEFINE n == Len(s)
<1>1. n \in Nat /\ DOMAIN s = 1 .. n /\ Range(s) = {s[j] : j \in 1 .. n}
  BY ListFacts
<1>2. \A a \in Range(s) : a.entity.container = _containerID => a.entity \in Tops
  <2> SUFFICES ASSUME NEW a \in Range(s), a.entity.container = _containerID PROVE a.entity \in Tops
    OBVIOUS
  <2>1. PICK c \in OfType("association") : c.entity = a.entity
    BY DEF SameEntities
  <2>2. c \in {d \in OfType("association") : d.entity.container = _containerID}
    BY <2>1
  <2>3. c.entity \in Tops
    BY <2>2, Zenon DEF Tops
  <2> QED
    BY <2>1, <2>3
<1>3. PICK f : IsRun(f, "extract", _containerID, [tree |-> <<>>, left |-> <<>>], s) /\ r = f[n]
  BY <1>1, ExtractRuns
<1>4. /\ f[0] = [tree |-> <<>>, left |-> <<>>]
      /\ \A i \in 1 .. n : f[i] = Extracted(_containerID, f[i - 1], s[i])
  <2>1. /\ f[0] = [tree |-> <<>>, left |-> <<>>]
        /\ \A i \in 1 .. n : f[i] = Step("extract", _containerID, f[i - 1], s[i])
    BY <1>1, <1>3, RunFacts
  <2> QED
    BY <2>1 DEF Step
<1> DEFINE Ok(i) == \E t, l : f[i] = [tree |-> t, left |-> l] /\ TopsTaken(t, l, s, i, _containerID)
           S == {i \in 0 .. n : Ok(i)}
<1>5. 0 \in S
  <2>1. TopsTaken(<<>>, <<>>, s, 0, _containerID)
    BY EmptyList DEF TopsTaken
  <2>2. Ok(0)
    BY <1>4, <2>1
  <2> HIDE DEF Ok
  <2> QED
    BY <1>1, <2>2
<1>6. ASSUME NEW i \in 1 .. n, i - 1 \in S PROVE i \in S
  <2>1. PICK t, l : f[i - 1] = [tree |-> t, left |-> l] /\ TopsTaken(t, l, s, i - 1, _containerID)
    BY <1>6
  <2>2. f[i] = Extracted(_containerID, [tree |-> t, left |-> l], s[i])
    BY <1>4, <2>1
  <2>3. \E u, k : f[i] = [tree |-> u, left |-> k]
    <3>1. Extracted(_containerID, [tree |-> t, left |-> l], s[i])
            = IF s[i].entity.container = _containerID
              THEN [tree |-> insertToAssociationTree(Rooted(t, s[i].entity), 1, s[i].contained),
                    left |-> l]
              ELSE [tree |-> t, left |-> Append(l, s[i])]
      BY ExtractedFrom, Zenon
    <3> QED
      BY <2>2, <3>1, Zenon
  <2>4. PICK u, k : f[i] = [tree |-> u, left |-> k]
    BY <2>3
  <2>5. TopsTaken(u, k, s, i, _containerID)
    BY <1>2, <2>1, <2>2, <2>4, TopsTakenOne
  <2>6. Ok(i)
    BY <2>4, <2>5
  <2> HIDE DEF Ok
  <2> QED
    BY <1>1, <2>6
<1>7. Ok(n)
  <2>1. \A i \in 0 .. n : i \in S
    <3> HIDE DEF S, n
    <3> QED
      BY <1>1, <1>5, <1>6, UpTo
  <2>2. n \in S
    <3> HIDE DEF S, n
    <3> QED
      BY <1>1, <2>1
  <2> HIDE DEF Ok
  <2> QED
    BY <2>2
<1>8. PICK t, l : r = [tree |-> t, left |-> l] /\ TopsTaken(t, l, s, n, _containerID)
  BY <1>3, <1>7
<1>9. r.tree = t /\ r.left = l
  BY <1>8
<1> HIDE DEF n
<1>10. CASE t = <<>>
  <2>1. \A j \in 1 .. n : s[j].entity.container # _containerID
    BY <1>8, <1>10, TreeFacts DEF TopsTaken
  <2>2. ASSUME NEW c \in OfType("association") PROVE c.entity.container # _containerID
    <3>1. PICK a \in Range(s) : a.entity = c.entity
      BY DEF SameEntities
    <3> QED
      BY <1>1, <2>1, <3>1
  <2>3. Tops = {}
    BY <2>2 DEF Tops
  <2> QED
    BY <1>9, <1>10, <2>3
<1>11. CASE t # <<>>
  <2>1. /\ ContainTree(t) /\ Ents(t) \subseteq {t[1].entity} \cup TopContained
        /\ \A j \in 1 .. n : s[j].entity.container = _containerID
                              => Range(s[j].contained) \subseteq Ents(t)
        /\ List(l) /\ Len(l) <= n /\ Range(l) \subseteq Range(s)
        /\ \A j \in 1 .. n : s[j].entity.container # _containerID => s[j] \in Range(l)
    BY <1>8, <1>11 DEF TopsTaken
  <2>2. \A a \in Range(s) :
          /\ a.entity.container = _containerID => InEntity(a.entity) \subseteq Ents(t)
          /\ a.entity.container # _containerID => a \in Range(l)
    BY <1>1, <2>1 DEF Held
  <2>3. \A c \in OfType("association") : \E a \in Range(s) : a.entity = c.entity
    BY DEF SameEntities
  <2>4. \A c \in OfType("association") : TakenOrLeft(t, l, c.entity)
    BY <2>2, <2>3 DEF TakenOrLeft
  <2>5. \A e \in Tops : InEntity(e) \subseteq Ents(t)
    BY <2>2, <2>3 DEF Tops
  <2>6. TopContained \subseteq Ents(t)
    BY <2>5 DEF TopContained
  <2>7. Rank(t, Containers - Len(l))
    <3>1. Len(l) \in Nat /\ Len(l) <= Containers
      BY <1>1, <2>1, ListFacts DEF n
    <3>2. PICK k : k = Containers - Len(l)
      OBVIOUS
    <3>3. k \in 0 .. Containers /\ 0 \in 0 .. Containers /\ k \in 0 .. Containers
      BY <3>1, <3>2
    <3>4. TopContained \subseteq Within[k]
      BY <3>3, WithinDefined, WithinGrows
    <3> QED
      BY <2>1, <3>2, <3>3, <3>4 DEF Rank
  <2> QED
    BY <1>9, <2>1, <2>4, <2>6, <2>7 DEF TreeStage
<1> QED
  BY <1>10, <1>11

\* A pass has come to association i of s.
PassStage(t, l, nodes, s, i) ==
  /\ ContainTree(t) /\ t[1] = nodes[1] /\ Ents(nodes) \subseteq Ents(t)
  /\ List(l) /\ Len(l) <= i /\ Range(l) \subseteq Range(s)
  /\ Rank(t, (Containers - Len(s)) + (i - Len(l)))
  /\ \A c \in OfType("association") :
       TakenOrLeft(t, l, c.entity) \/ \E j \in i + 1 .. Len(s) : s[j].entity = c.entity
  /\ Len(l) = i => t = nodes /\ Closed(nodes, l)

\* What is inserted is one containment further than the tree was.
LEMMA RankOne ==
    ASSUME Containers \in Nat, NEW t, NEW k \in 0 .. Containers - 1, Rank(t, k),
           NEW e \in Ents(t), t[1].entity \in Tops,
           NEW u, u[1] = t[1], Ents(u) = Ents(t) \cup InEntity(e)
    PROVE  Rank(u, k + 1)
<1>1. k + 1 \in 1 .. Containers /\ k + 1 \in 0 .. Containers /\ k \in 0 .. Containers
      /\ 0 \in 0 .. Containers /\ k + 1 \in k .. Containers
  OBVIOUS
<1>2. PICK m : m = k + 1
  OBVIOUS
<1>3. Within[m] = Within[k] \cup UNION {InEntity(x) : x \in Within[k]}
  <2>1. m - 1 = k
    BY <1>2
  <2> QED
    BY <1>1, <1>2, <2>1, WithinDefined
<1>4. TopContained \subseteq Within[k]
  <2>1. k \in 0 .. Containers
    BY <1>1
  <2> QED
    BY <1>1, <2>1, WithinDefined, WithinGrows
<1>5. InEntity(e) \subseteq Within[m]
  <2>1. CASE e \in Within[k]
    BY <1>3, <2>1
  <2>2. CASE e = t[1].entity
    <3>1. InEntity(e) \subseteq TopContained
      BY <2>2 DEF TopContained
    <3> QED
      BY <1>3, <1>4, <3>1
  <2> QED
    BY <2>1, <2>2 DEF Rank
<1> QED
  BY <1>1, <1>2, <1>3, <1>5 DEF Rank

\* A pass goes on to the next association.
LEMMA PassStageOne ==
    ASSUME Containers \in Nat, NEW nodes, NEW s, List(s), Len(s) <= Containers,
           \A a \in Range(s) : Held(a),
           NEW i \in 1 .. Len(s), NEW t, NEW l, PassStage(t, l, nodes, s, i - 1),
           NEW u, NEW k, Passed([tree |-> t, left |-> l], s[i]) = [tree |-> u, left |-> k]
    PROVE  PassStage(u, k, nodes, s, i)
<1>1. Len(s) \in Nat /\ i \in Nat /\ s[i] \in Range(s)
  BY ListFacts
<1>2. \A j \in (i - 1) + 1 .. Len(s) : j = i \/ j \in i + 1 .. Len(s)
  BY <1>1
<1>3. PICK a : a = s[i]
  OBVIOUS
<1>4. Len(l) \in Nat /\ List(l)
  BY ListFacts DEF PassStage
<1>5. ContainTree(t) /\ IsTree(t)
  BY DEF PassStage, ContainTree
<1>6. PICK m : m = (Containers - Len(s)) + ((i - 1) - Len(l))
  OBVIOUS
<1>7. Rank(t, m)
  BY <1>6 DEF PassStage
<1>8. CASE HasEntity(t, a.entity, 1)
  <2>1. u = insertToAssociationTree(t, FirstWith(t, a.entity, Wider), a.contained) /\ k = l
    BY <1>3, <1>8, PassedTo
  <2>2. List(a.contained) /\ Range(a.contained) = InEntity(a.entity)
    BY <1>1, <1>3 DEF Held
  <2>3. PICK e : e = a.entity
    OBVIOUS
  <2>4. PICK at : at = FirstWith(t, e, Wider)
    OBVIOUS
  <2>5. WithEntity(t, e) # {}
    BY <1>5, <1>8, <2>3, AllBelowRoot
  <2>6. at \in WithEntity(t, e)
    <3>1. FirstWith(t, e, Wider) \in WithEntity(t, e)
      BY <1>5, <2>5, FirstWider
    <3> QED
      BY <2>4, <3>1
  <2>7. at \in DOMAIN t /\ t[at].entity = e /\ e \in Ents(t)
    BY <2>6 DEF WithEntity, Ents
  <2>8. Range(a.contained) \subseteq Allowed(t, at)
    BY <2>2, <2>3, <2>7 DEF Allowed
  <2>9. PICK v : v = a.contained
    OBVIOUS
  <2>10. u = insertToAssociationTree(t, at, v)
    BY <2>1, <2>3, <2>4, <2>9
  <2>11. ContainTree(u) /\ u[1] = t[1] /\ Ents(u) = Ents(t) \cup InEntity(e)
    BY <1>5, <2>2, <2>3, <2>7, <2>8, <2>9, <2>10, InsertedTree
  <2>12. Rank(u, (Containers - Len(s)) + (i - Len(k)))
    <3>1. m \in 0 .. Containers - 1
      BY <1>1, <1>4, <1>6, <1>7 DEF Rank
    <3>2. t[1].entity \in Tops
      BY <1>5 DEF ContainTree
    <3>3. Rank(u, m + 1)
      BY <1>7, <2>7, <2>11, <3>1, <3>2, RankOne
    <3>4. m + 1 = (Containers - Len(s)) + (i - Len(k))
      BY <1>1, <1>4, <1>6, <2>1
    <3> QED
      BY <3>3, <3>4
  <2>13. List(k) /\ Len(k) < i /\ Range(k) \subseteq Range(s)
    BY <1>1, <1>4, <2>1 DEF PassStage
  <2>14. ASSUME NEW c \in OfType("association")
         PROVE  TakenOrLeft(u, k, c.entity) \/ \E j \in i + 1 .. Len(s) : s[j].entity = c.entity
    <3>1. \/ TakenOrLeft(t, l, c.entity)
          \/ \E j \in (i - 1) + 1 .. Len(s) : s[j].entity = c.entity
      BY DEF PassStage
    <3>2. CASE TakenOrLeft(t, l, c.entity)
      BY <2>1, <2>11, <3>2 DEF TakenOrLeft
    <3>3. CASE c.entity = e
      BY <2>11, <3>3 DEF TakenOrLeft
    <3>4. CASE \E j \in (i - 1) + 1 .. Len(s) : s[j].entity = c.entity
      BY <1>2, <1>3, <2>3, <3>3, <3>4
    <3> QED
      BY <3>1, <3>2, <3>4
  <2>15. u[1] = nodes[1] /\ Ents(nodes) \subseteq Ents(u)
    BY <2>11 DEF PassStage
  <2>16. Len(k) <= i /\ Len(k) # i
    BY <1>1, <1>4, <2>1, <2>13
  <2> QED
    BY <2>11, <2>12, <2>13, <2>14, <2>15, <2>16 DEF PassStage
<1>9. CASE ~ HasEntity(t, a.entity, 1)
  <2>1. u = t /\ k = Append(l, a)
    BY <1>3, <1>9, PassedTo
  <2>2. List(k) /\ Len(k) = Len(l) + 1 /\ Range(k) = Range(l) \cup {a}
    BY <1>4, <2>1, AppendedList
  <2>3. List(k) /\ Len(k) <= i /\ Range(k) \subseteq Range(s)
    BY <1>1, <1>3, <1>4, <2>2 DEF PassStage
  <2>4. a.entity \notin Ents(t)
    <3>1. WithEntity(t, a.entity) = {}
      BY <1>5, <1>9, AllBelowRoot
    <3> QED
      BY <3>1 DEF WithEntity, Ents
  <2>5. Rank(u, (Containers - Len(s)) + (i - Len(k)))
    <3>1. m = (Containers - Len(s)) + (i - Len(k))
      BY <1>1, <1>4, <1>6, <2>2
    <3> QED
      BY <1>7, <2>1, <3>1
  <2>6. ASSUME NEW c \in OfType("association")
        PROVE  TakenOrLeft(u, k, c.entity) \/ \E j \in i + 1 .. Len(s) : s[j].entity = c.entity
    <3>1. \/ TakenOrLeft(t, l, c.entity)
          \/ \E j \in (i - 1) + 1 .. Len(s) : s[j].entity = c.entity
      BY DEF PassStage
    <3>2. CASE TakenOrLeft(t, l, c.entity)
      BY <2>1, <2>2, <3>2 DEF TakenOrLeft
    <3>3. CASE c.entity = a.entity
      BY <2>2, <3>3 DEF TakenOrLeft
    <3>4. CASE \E j \in (i - 1) + 1 .. Len(s) : s[j].entity = c.entity
      BY <1>2, <1>3, <3>3, <3>4
    <3> QED
      BY <3>1, <3>2, <3>4
  <2>7. Len(k) = i => u = nodes /\ Closed(nodes, k)
    <3>1. Len(k) = i => Len(l) = i - 1
      BY <1>1, <1>4, <2>2
    <3>2. Len(l) = i - 1 => t = nodes /\ Closed(nodes, l)
      BY DEF PassStage
    <3> QED
      BY <2>1, <2>2, <2>4, <3>1, <3>2 DEF Closed
  <2>8. ContainTree(u) /\ u[1] = nodes[1] /\ Ents(nodes) \subseteq Ents(u)
    BY <2>1 DEF PassStage
  <2> QED
    BY <2>3, <2>5, <2>6, <2>7, <2>8 DEF PassStage
<1> QED
  BY <1>8, <1>9

\* A pass makes a tree of a tree, and the last one leaves nothing to insert.
LEMMA PassedTree ==
    ASSUME Containers \in Nat, NEW nodes, NEW s, TreeStage(nodes, s),
           NEW r, r = Pass(nodes, s)
    PROVE  /\ TreeStage(r.tree, r.left)
           /\ r.left = <<>> \/ Len(r.left) = Len(s) => Closed(r.tree, r.left)
<1> DEFINE n == Len(s)
<1>1. n \in Nat /\ DOMAIN s = 1 .. n /\ Range(s) = {s[j] : j \in 1 .. n} /\ List(s)
  BY ListFacts DEF TreeStage
<1>2. n <= Containers /\ \A a \in Range(s) : Held(a)
  BY <1>1 DEF TreeStage, Rank
<1>3. PICK f : IsRun(f, "pass", 0, [tree |-> nodes, left |-> <<>>], s) /\ r = f[n]
  BY <1>1, PassRuns
<1>4. /\ f[0] = [tree |-> nodes, left |-> <<>>]
      /\ \A i \in 1 .. n : f[i] = Passed(f[i - 1], s[i])
  <2>1. /\ f[0] = [tree |-> nodes, left |-> <<>>]
        /\ \A i \in 1 .. n : f[i] = Step("pass", 0, f[i - 1], s[i])
    BY <1>1, <1>3, RunFacts
  <2> QED
    BY <2>1 DEF Step
<1> DEFINE Ok(i) == \E t, l : f[i] = [tree |-> t, left |-> l] /\ PassStage(t, l, nodes, s, i)
           S == {i \in 0 .. n : Ok(i)}
<1>5. 0 \in S
  <2>1. PassStage(nodes, <<>>, nodes, s, 0)
    <3>1. Rank(nodes, (Containers - Len(s)) + (0 - Len(<<>>)))
      <4>1. (Containers - Len(s)) + (0 - Len(<<>>)) = Containers - Len(s)
        BY <1>1, EmptyList
      <4> QED
        BY <4>1 DEF TreeStage
    <3>2. Closed(nodes, <<>>)
      BY EmptyList DEF Closed
    <3>3. ASSUME NEW c \in OfType("association")
          PROVE  \/ TakenOrLeft(nodes, <<>>, c.entity)
                 \/ \E j \in 0 + 1 .. Len(s) : s[j].entity = c.entity
      BY <1>1 DEF TreeStage, TakenOrLeft
    <3>4. ContainTree(nodes)
      BY DEF TreeStage
    <3> QED
      BY <3>1, <3>2, <3>3, <3>4, EmptyList DEF PassStage
  <2>2. Ok(0)
    BY <1>4, <2>1
  <2> HIDE DEF Ok
  <2> QED
    BY <1>1, <2>2
<1>6. ASSUME NEW i \in 1 .. n, i - 1 \in S PROVE i \in S
  <2>1. PICK t, l : f[i - 1] = [tree |-> t, left |-> l] /\ PassStage(t, l, nodes, s, i - 1)
    BY <1>6
  <2>2. f[i] = Passed([tree |-> t, left |-> l], s[i])
    BY <1>4, <2>1
  <2>3. \E u, k : f[i] = [tree |-> u, left |-> k]
    <3>1. Passed([tree |-> t, left |-> l], s[i])
            = IF HasEntity(t, s[i].entity, 1)
              THEN [tree |-> insertToAssociationTree(t, FirstWith(t, s[i].entity, Wider),
                                                     s[i].contained),
                    left |-> l]
              ELSE [tree |-> t, left |-> Append(l, s[i])]
      BY PassedFrom, Zenon
    <3> QED
      BY <2>2, <3>1, Zenon
  <2>4. PICK u, k : f[i] = [tree |-> u, left |-> k]
    BY <2>3
  <2>5. PassStage(u, k, nodes, s, i)
    <3>1. Passed([tree |-> t, left |-> l], s[i]) = [tree |-> u, left |-> k]
      BY <2>2, <2>4
    <3> QED
      BY <1>1, <1>2, <2>1, <3>1, PassStageOne
  <2>6. Ok(i)
    BY <2>4, <2>5
  <2> HIDE DEF Ok
  <2> QED
    BY <1>1, <2>6
<1>7. Ok(n)
  <2>1. \A i \in 0 .. n : i \in S
    <3> HIDE DEF S, n
    <3> QED
      BY <1>1, <1>5, <1>6, UpTo
  <2>2. n \in S
    <3> HIDE DEF S, n
    <3> QED
      BY <1>1, <2>1
  <2> HIDE DEF Ok
  <2> QED
    BY <2>2
<1>8. PICK t, l : r = [tree |-> t, left |-> l] /\ PassStage(t, l, nodes, s, n)
  BY <1>3, <1>7
<1>9. r.tree = t /\ r.left = l
  BY <1>8
<1>10. Len(l) \in Nat /\ List(l)
  BY <1>8, ListFacts DEF PassStage
<1>11. TreeStage(t, l)
  <2>1. (Containers - Len(s)) + (n - Len(l)) = Containers - Len(l)
    BY <1>1, <1>10
  <2>2. Rank(t, Containers - Len(l))
    BY <1>8, <2>1 DEF PassStage
  <2>3. \A c \in OfType("association") : TakenOrLeft(t, l, c.entity)
    <3>1. \A j \in n + 1 .. Len(s) : FALSE
      BY <1>1
    <3> QED
      BY <1>8, <3>1 DEF PassStage
  <2>4. ContainTree(t) /\ TopContained \subseteq Ents(t)
    BY <1>8 DEF PassStage, TreeStage
  <2>5. \A a \in Range(l) : Held(a)
    BY <1>2, <1>8 DEF PassStage
  <2> QED
    BY <1>10, <2>2, <2>3, <2>4, <2>5 DEF TreeStage
<1>12. l = <<>> => Closed(t, l)
  BY EmptyList DEF Closed
<1>13. Len(l) = n => Closed(t, l)
  BY <1>8 DEF PassStage
<1> QED
  BY <1>9, <1>11, <1>12, <1>13

-----------------------------------------------------------------------------
(***************************************************************************)
(* The paths.                                                              *)
(***************************************************************************)
\* The path populateSystemHierarchy has for e
PathTo(nodes, e) ==
  LET way == Ways(nodes)[FirstWith(nodes, e, Deeper)]
  IN  [k \in DOMAIN way |-> nodes[way[k]].entity]

\* Path p is from the root to e along what is contained.
LeadsTo(p, root, e) ==
  /\ p[1] = root /\ p[Len(p)] = e
  /\ \A k \in 2 .. Len(p) :
       p[k] \in InEntity(p[k - 1]) \cup IF k = 2 THEN UNION {InEntity(t) : t \in Tops} ELSE {}

\* The first path in depth leads to its entity along what is contained.
LEMMA PathLeads ==
    ASSUME NEW nodes, ContainTree(nodes), NEW e \in Ents(nodes)
    PROVE  LeadsTo(PathTo(nodes, e), nodes[1].entity, e)
<1> DEFINE m == Len(nodes)
<1>1. m \in Nat \ {0} /\ DOMAIN nodes = 1 .. m /\ IsTree(nodes)
  BY TreeFacts DEF ContainTree
<1>2. PICK i : i = FirstWith(nodes, e, Deeper)
  OBVIOUS
<1>3. i \in WithEntity(nodes, e)
  <2>1. WithEntity(nodes, e) # {}
    BY DEF WithEntity, Ents
  <2>2. FirstWith(nodes, e, Deeper) \in WithEntity(nodes, e)
    BY <1>1, <2>1, FirstDeeper
  <2> QED
    BY <1>2, <2>2
<1>4. i \in DOMAIN nodes /\ nodes[i].entity = e
  BY <1>3 DEF WithEntity
<1>5. PICK v : v = Ways(nodes)[i]
  OBVIOUS
<1>6. Leads(nodes, v, i)
  BY <1>1, <1>4, <1>5, WaysLead
<1>7. /\ v \in Seq(1 .. m) /\ Len(v) >= 1 /\ v[1] = 1 /\ v[Len(v)] = i
      /\ \A k \in 2 .. Len(v) : v[k] \in 2 .. m /\ v[k - 1] = nodes[v[k]].parent
  BY <1>6 DEF Leads
<1>8. Len(v) \in Nat \ {0} /\ DOMAIN v = 1 .. Len(v)
  BY <1>7, LenProperties
<1>9. PICK p : p = PathTo(nodes, e)
  OBVIOUS
<1>10. p = [k \in DOMAIN v |-> nodes[v[k]].entity]
  BY <1>2, <1>5, <1>9 DEF PathTo
<1>11. DOMAIN p = 1 .. Len(v) /\ \A k \in 1 .. Len(v) : p[k] = nodes[v[k]].entity
  BY <1>8, <1>10
<1>12. Len(p) = Len(v)
  <2>1. p = [k \in 1 .. Len(v) |-> p[k]]
    BY <1>8, <1>10
  <2>2. \A k \in 1 .. Len(v) : p[k] \in Range(p)
    BY <1>11 DEF Range
  <2>3. [k \in 1 .. Len(v) |-> p[k]] \in Seq(Range(p))
    BY <1>8, <2>2, IsASeq
  <2>4. p \in Seq(Range(p))
    BY <2>1, <2>3
  <2>5. DOMAIN p = 1 .. Len(p) /\ Len(p) \in Nat
    BY <2>4, LenProperties
  <2> QED
    BY <1>8, <1>11, <2>5
<1> HIDE DEF m
<1>13. p[1] = nodes[1].entity /\ p[Len(p)] = e
  BY <1>4, <1>7, <1>8, <1>11, <1>12
<1>14. ASSUME NEW k \in 2 .. Len(p)
       PROVE  p[k] \in InEntity(p[k - 1]) \cup IF k = 2 THEN TopContained ELSE {}
  <2>1. k \in 2 .. Len(v) /\ k \in 1 .. Len(v) /\ k - 1 \in 1 .. Len(v)
    BY <1>8, <1>12
  <2>2. PICK j : j = v[k]
    OBVIOUS
  <2>3. PICK q : q = v[k - 1]
    OBVIOUS
  <2>4. j \in 2 .. m /\ q = nodes[j].parent /\ p[k] = nodes[j].entity /\ p[k - 1] = nodes[q].entity
    BY <1>7, <1>11, <2>1, <2>2, <2>3
  <2>5. nodes[j].entity \in Allowed(nodes, q)
    BY <2>4 DEF ContainTree, m
  <2>6. q = 1 => k = 2
    <3>1. k = 2 \/ k - 1 \in 2 .. Len(v)
      BY <2>1
    <3>2. k - 1 \in 2 .. Len(v) => v[k - 1] \in 2 .. m
      BY <1>7
    <3> QED
      BY <1>1, <2>3, <3>1, <3>2
  <2> QED
    BY <2>4, <2>5, <2>6 DEF Allowed
<1>15. LeadsTo(p, nodes[1].entity, e)
  BY <1>13, <1>14 DEF LeadsTo, TopContained
<1> QED
  BY <1>9, <1>15

-----------------------------------------------------------------------------
(***************************************************************************)
(* What stays as long as the records do.                                   *)
(***************************************************************************)
\* What containment depends on stays.
Same == UNCHANGED <<contents, _pdrRepo, _containerID>>

\* What the records say of containment stays with them,
LEMMA SameRecords ==
    ASSUME Same
    PROVE  /\ \A type : OfType(type)' = OfType(type)
           /\ Tops' = Tops
           /\ \A e : InEntity(e)' = InEntity(e)
           /\ Containers' = Containers
<1>1. \A type : OfType(type)' = OfType(type)
  BY DEF Same, OfType, Records, IsOf, Content
<1>2. Tops' = Tops
  BY <1>1 DEF Tops, Same
<1>3. \A e : InEntity(e)' = InEntity(e)
  BY <1>1 DEF InEntity
<1>4. Containers' = Containers
  BY DEF Same, Containers
<1> QED
  BY <1>1, <1>2, <1>3, <1>4

\* Within as what it is of the records
WithinOf(A, T, m) ==
  LET within[n \in 0 .. m] ==
        IF n = 0 THEN UNION {Inside(A, e) : e \in T}
        ELSE within[n - 1] \cup UNION {Inside(A, e) : e \in within[n - 1]}
  IN  within

\* and so does what containment leads to
LEMMA SameWithin ==
    ASSUME Same
    PROVE  Within' = Within /\ Reachable' = Reachable /\ TopContained' = TopContained
<1>1. TopContained' = TopContained
  BY SameRecords DEF TopContained
<1>2. Within' = Within
  <2>1. Within = WithinOf(OfType("association"), Tops, Containers)
    BY Zenon DEF Within, WithinOf, InEntity, Inside
  <2>2. Within' = WithinOf(OfType("association")', Tops', Containers')
    BY Zenon DEF Within, WithinOf, InEntity, Inside
  <2> QED
    BY <2>1, <2>2, SameRecords
<1> QED
  BY <1>1, <1>2, SameRecords DEF Reachable

\* and the stage a tree is at.
LEMMA SameStage ==
    ASSUME Same, NEW nodes, NEW left
    PROVE  TreeStage(nodes, left)' <=> TreeStage(nodes, left)
<1>1. ContainTree(nodes)' <=> ContainTree(nodes)
  BY SameRecords, SameWithin DEF ContainTree, Allowed
<1> QED
  BY <1>1, SameRecords, SameWithin DEF TreeStage, Held, Rank, TakenOrLeft

-----------------------------------------------------------------------------
(***************************************************************************)
(* The records are of handles the device knows.                            *)
(***************************************************************************)
\* Every record that was read or added is one the device has had.
KnownHandles ==
  /\ DOMAIN devicePDRs \subseteq DOMAIN contents
  /\ \A i \in DOMAIN _pdrRepo : _pdrRepo[i][1].handle \in DOMAIN contents

\* What is in the repository are records of the device.
LEMMA KnownRecords == PdrInv /\ KnownHandles => RecordsOfDevice
<1> SUFFICES ASSUME PdrInv, KnownHandles PROVE RecordsOfDevice
  OBVIOUS
<1>1. _pdrRepo \in Seq(Seq(Parts)) /\ contents \in Repositories
  BY DEF PdrInv, RecordsAdded, DeviceTypes
<1>2. Len(_pdrRepo) \in Nat /\ DOMAIN _pdrRepo = 1 .. Len(_pdrRepo)
  BY <1>1, LenProperties
<1> QED
  BY <1>1, <1>2 DEF KnownHandles, RecordsOfDevice

\* A try that fails leaves no record behind,
LEMMA KnownTryFails == KnownHandles /\ TryFails => KnownHandles'
<1> SUFFICES ASSUME KnownHandles, TryFails PROVE KnownHandles'
  OBVIOUS
<1>1. UNCHANGED <<contents, _pdrRepo>> /\ (devicePDRs' = <<>> \/ devicePDRs' = devicePDRs)
  BY DEF TryFails, BeginTry, Cleared, deviceVars
<1> QED
  BY <1>1, NothingThere DEF KnownHandles

\* and no step adds a record the device does not have.
LEMMA KnownStep == PdrInv /\ KnownHandles /\ [Next]_vars => KnownHandles'
<1> SUFFICES ASSUME PdrInv, KnownHandles, [Next]_vars PROVE KnownHandles'
  OBVIOUS
<1>1. CASE UNCHANGED <<contents, devicePDRs, _pdrRepo>>
  BY <1>1 DEF KnownHandles
<1>2. CASE DeviceStep
  BY <1>1, <1>2 DEF DeviceStep, ChangeRecord, DropRecord, AddBack, Change, readVars
<1>3. CASE Construct
  <2>1. CASE getPDRRepositoryInfo
    <3>1. /\ UNCHANGED contents /\ _pdrRepo' = <<>>
          /\ devicePDRs' = <<>> \/ devicePDRs' = devicePDRs
      BY <2>1 DEF getPDRRepositoryInfo, BeginTry, Cleared, deviceVars
    <3> QED
      BY <3>1, NothingThere DEF KnownHandles
  <2>2. CASE InfoFails
    BY <1>1, <2>2 DEF InfoFails, deviceVars, readVars
  <2>3. CASE handleGetPDRResp
    <3>1. CASE TryFails
      BY <3>1, KnownTryFails
    <3>2. ASSUME NEW a \in Answers, NEW r, r = transfer.pdrRecord \o a.data,
                 Complete(a), Sound(a, r), RecordRead(r, a.next)
          PROVE  KnownHandles'
      <4>1. UNCHANGED <<contents, _pdrRepo>> /\ devicePDRs' = Emplaced(r)
        BY <3>2 DEF RecordRead, deviceVars
      <4>2. r = <<>> \/ \E h \in Handles : r = Whole(h)
        BY <3>2, Completed DEF PdrInv
      <4>3. r = <<>> \/ r[1].handle \in DOMAIN contents
        BY <4>2, WholeFacts DEF PdrInv, DeviceTypes, Handles
      <4>4. DOMAIN devicePDRs' \subseteq DOMAIN contents
        BY <4>1, <4>3 DEF Emplaced, KnownHandles
      <4> QED
        BY <4>1, <4>4 DEF KnownHandles
    <3>3. CASE UNCHANGED <<deviceVars, devicePDRs, _pdrRepo>>
      BY <1>1, <3>3 DEF deviceVars
    <3> QED
      BY <2>3, <3>1, <3>2, <3>3 DEF handleGetPDRResp
  <2>4. CASE GetPDRFails
    BY <2>4, KnownTryFails DEF GetPDRFails
  <2>5. CASE addDevicePDRToRepo
    <3>1. UNCHANGED <<contents, devicePDRs>>
      BY <2>5 DEF addDevicePDRToRepo, deviceVars
    <3>2. CASE UNCHANGED _pdrRepo
      BY <1>1, <3>1, <3>2
    <3>3. ASSUME NEW h \in DOMAIN devicePDRs, _pdrRepo' = Append(_pdrRepo, devicePDRs[h])
          PROVE  KnownHandles'
      <4> DEFINE n == Len(_pdrRepo)
      <4>1. ReadAs(devicePDRs[h], h) /\ _pdrRepo \in Seq(Seq(Parts))
        BY <3>3 DEF PdrInv, RecordsRead, RecordsAdded
      <4>2. devicePDRs[h] \in Seq(Parts) /\ devicePDRs[h][1].handle = h
        BY <4>1 DEF ReadAs
      <4>3. /\ _pdrRepo' \in Seq(Seq(Parts)) /\ Len(_pdrRepo') = n + 1
            /\ \A i \in 1 .. n : _pdrRepo'[i] = _pdrRepo[i]
            /\ _pdrRepo'[n + 1] = devicePDRs[h]
        BY <3>3, <4>1, <4>2, AppendProperties
      <4>4. n \in Nat /\ DOMAIN _pdrRepo = 1 .. n /\ DOMAIN _pdrRepo' = 1 .. (n + 1)
        BY <4>1, <4>3, LenProperties
      <4> HIDE DEF n
      <4>5. \A i \in 1 .. (n + 1) : i \in 1 .. n \/ i = n + 1
        BY <4>4
      <4> QED
        BY <3>1, <3>3, <4>2, <4>3, <4>4, <4>5 DEF KnownHandles
    <3> QED
      BY <2>5, <3>2, <3>3 DEF addDevicePDRToRepo, pldm_pdr_add
  <2>6. CASE CountRecords
    BY <1>1, <2>6 DEF CountRecords, deviceVars, readVars
  <2> QED
    BY <1>3, <2>1, <2>2, <2>3, <2>4, <2>5, <2>6 DEF Construct
<1>4. CASE \/ ParseNames \/ ExtractAborts \/ ParseAssociations \/ createEntityAssociationTree
           \/ populateSystemHierarchy \/ ParseAuxNames \/ ParseObjects
  <2>1. UNCHANGED <<deviceVars, readVars>>
    BY <1>4 DEF ParseNames, ExtractAborts, ParseAssociations, createEntityAssociationTree,
                populateSystemHierarchy, ParseAuxNames, ParseObjects
  <2> QED
    BY <1>1, <2>1 DEF deviceVars, readVars
<1>5. CASE initPDRs
  <2>1. UNCHANGED contents /\ devicePDRs' = <<>> /\ _pdrRepo' = <<>>
    BY <1>5 DEF initPDRs, RenewManager, deviceVars
  <2> QED
    BY <2>1, NothingThere DEF KnownHandles
<1>6. CASE UNCHANGED vars
  BY <1>1, <1>6 DEF vars, pdrVars, deviceVars, readVars
<1> QED
  BY <1>2, <1>3, <1>4, <1>5, <1>6 DEF Next, pdrManagerInit, LoopOnName

-----------------------------------------------------------------------------
(***************************************************************************)
(* The tree, from stage to stage.                                          *)
(***************************************************************************)
\* The hierarchy that is published is what containment leads to.
ContainedHierarchy ==
  \/ Tops = {} /\ InTree = {}
  \/ \E root \in Tops :
       /\ DOMAIN _systemHierarchyIntf = {root} \cup Reachable
       /\ \A e \in DOMAIN _systemHierarchyIntf : LeadsTo(_systemHierarchyIntf[e], root, e)

\* The tree is whole: nothing can be added to it.
TreeWhole ==
  \/ _entityAssociationTree = <<>> /\ Tops = {}
  \/ /\ TreeStage(_entityAssociationTree, entityAssociationNodes)
     /\ Closed(_entityAssociationTree, entityAssociationNodes)

\* What the stages of the parsing rely on and come to
TreeInv ==
  _containerID # None =>
    /\ pc = "tree" => TreeStage(_entityAssociationTree, entityAssociationNodes)
    /\ pc = "hierarchy" => TreeWhole
    /\ pc \in {"names", "objects", "done"} => ContainedHierarchy

\* ParseAssociations makes the root, or finds none,
LEMMA AssociationsStep ==
    ASSUME RecordsOfDevice, ParseAssociations
    PROVE  TreeInv'
<1>1. UNCHANGED <<contents, _pdrRepo, _containerID>> /\ Same
  BY DEF ParseAssociations, deviceVars, readVars, Same
<1> SUFFICES ASSUME _containerID # None
             PROVE  /\ pc' = "tree" => TreeStage(_entityAssociationTree, entityAssociationNodes)'
                    /\ pc' = "hierarchy" => TreeWhole'
                    /\ pc' \notin {"names", "objects", "done"}
  BY <1>1 DEF TreeInv
<1>2. PICK s : s = ParseAll("association", parseEntityAssociationPDR, <<>>)
  OBVIOUS
<1>3. PICK root : root = extractRootNode(s, _containerID)
  OBVIOUS
<1>4. /\ _entityAssociationTree' = root.tree /\ entityAssociationNodes' = root.left
      /\ pc' = IF root.tree = <<>> \/ root.left = <<>> THEN "hierarchy" ELSE "tree"
  BY <1>2, <1>3 DEF ParseAssociations
<1>5. List(s) /\ Len(s) <= Containers /\ (\A a \in Range(s) : Held(a))
      /\ SameEntities(Range(s), OfType("association"))
  BY <1>2, ParsedAssociations
<1>6. Containers \in Nat
  BY DEF Containers, RecordsOfDevice
<1>7. \/ root.tree = <<>> /\ Tops = {}
      \/ TreeStage(root.tree, root.left)
  BY <1>3, <1>5, <1>6, ExtractedRoot
<1>8. PICK t : t = root.tree
  OBVIOUS
<1>9. PICK l : l = root.left
  OBVIOUS
<1>10. CASE t = <<>> /\ Tops = {}
  <2>1. pc' = "hierarchy" /\ _entityAssociationTree' = <<>> /\ Tops' = {}
    BY <1>1, <1>4, <1>8, <1>10, SameRecords
  <2> QED
    BY <2>1 DEF TreeWhole
<1>11. CASE TreeStage(t, l)
  <2>1. TreeStage(t, l)'
    BY <1>1, <1>11, SameStage
  <2>2. TreeStage(_entityAssociationTree, entityAssociationNodes)'
    BY <1>4, <1>8, <1>9, <2>1
  <2>3. t # <<>>
    BY <1>11, TreeFacts DEF TreeStage
  <2>4. pc' = IF l = <<>> THEN "hierarchy" ELSE "tree"
    BY <1>4, <1>8, <1>9, <2>3
  <2>5. l = <<>> => Closed(_entityAssociationTree, entityAssociationNodes)'
    BY <1>4, <1>9, EmptyList DEF Closed
  <2> QED
    BY <2>2, <2>4, <2>5 DEF TreeWhole
<1> QED
  BY <1>7, <1>8, <1>9, <1>10, <1>11

\* createEntityAssociationTree keeps the tree, and ends with a whole one,
LEMMA PassStep ==
    ASSUME RecordsOfDevice, TreeInv, createEntityAssociationTree
    PROVE  TreeInv'
<1>1. UNCHANGED <<contents, _pdrRepo, _containerID>> /\ Same /\ pc = "tree"
  BY DEF createEntityAssociationTree, deviceVars, readVars, Same
<1> SUFFICES ASSUME _containerID # None
             PROVE  /\ pc' = "tree" => TreeStage(_entityAssociationTree, entityAssociationNodes)'
                    /\ pc' = "hierarchy" => TreeWhole'
                    /\ pc' \notin {"names", "objects", "done"}
  BY <1>1 DEF TreeInv
<1>2. PICK s : s = entityAssociationNodes
  OBVIOUS
<1>3. PICK pass : pass = Pass(_entityAssociationTree, s)
  OBVIOUS
<1>4. /\ _entityAssociationTree' = pass.tree /\ entityAssociationNodes' = pass.left
      /\ pc' = IF pass.left = <<>> \/ Len(pass.left) = Len(s) THEN "hierarchy" ELSE "tree"
  BY <1>1, <1>2, <1>3 DEF createEntityAssociationTree
<1>5. TreeStage(_entityAssociationTree, s)
  BY <1>1, <1>2 DEF TreeInv
<1>6. Containers \in Nat
  BY DEF Containers, RecordsOfDevice
<1>7. /\ TreeStage(pass.tree, pass.left)
      /\ pass.left = <<>> \/ Len(pass.left) = Len(s) => Closed(pass.tree, pass.left)
  BY <1>3, <1>5, <1>6, PassedTree
<1>8. PICK t : t = pass.tree
  OBVIOUS
<1>9. PICK l : l = pass.left
  OBVIOUS
<1>10. TreeStage(t, l)'
  BY <1>1, <1>7, <1>8, <1>9, SameStage
<1>11. TreeStage(_entityAssociationTree, entityAssociationNodes)'
  BY <1>4, <1>8, <1>9, <1>10
<1>12. pc' = "hierarchy" => Closed(_entityAssociationTree, entityAssociationNodes)'
  BY <1>4, <1>7 DEF Closed, Ents
<1> QED
  BY <1>4, <1>11, <1>12 DEF TreeWhole

\* A path leads where it did as long as the records stay.
LEMMA SameLeads ==
    ASSUME Same, NEW p, NEW root, NEW e
    PROVE  LeadsTo(p, root, e)' <=> LeadsTo(p, root, e)
  BY SameRecords DEF LeadsTo

\* and populateSystemHierarchy publishes what is in it.
LEMMA HierarchyStep ==
    ASSUME RecordsOfDevice, TreeInv, populateSystemHierarchy
    PROVE  TreeInv'
<1>1. UNCHANGED <<contents, _pdrRepo, _containerID, _entityAssociationTree>> /\ Same
      /\ pc = "hierarchy" /\ pc' = "names"
  BY DEF populateSystemHierarchy, deviceVars, readVars, Same
<1> SUFFICES ASSUME _containerID # None PROVE ContainedHierarchy'
  BY <1>1 DEF TreeInv
<1>2. PICK t : t = _entityAssociationTree
  OBVIOUS
<1>3. PICK h : h = _systemHierarchyIntf'
  OBVIOUS
<1>4. InTree = Ents(t) /\ InTree' = Ents(t)
  BY <1>1, <1>2 DEF InTree, Ents
<1>5. h = [e \in Ents(t) |-> PathTo(t, e)]
  BY <1>2, <1>3, <1>4 DEF populateSystemHierarchy, PathTo
<1>6. CASE t = <<>> /\ Tops = {}
  <2>1. InTree' = {} /\ Tops' = {}
    BY <1>1, <1>4, <1>6, EmptyList, SameRecords DEF Ents
  <2> QED
    BY <2>1 DEF ContainedHierarchy
<1>7. ASSUME NEW l, TreeStage(t, l), Closed(t, l) PROVE ContainedHierarchy'
  <2>1. PICK root : root = t[1].entity
    OBVIOUS
  <2>2. ContainTree(t) /\ root \in Tops
    BY <1>7, <2>1 DEF TreeStage, ContainTree
  <2>3. Containers \in Nat
    BY DEF Containers, RecordsOfDevice
  <2>4. DOMAIN h = {root} \cup Reachable
    <3>1. Ents(t) = {root} \cup Reachable
      BY <1>7, <2>1, <2>3, ClosedIsReachable
    <3> QED
      BY <1>5, <3>1
  <2>5. \A e \in DOMAIN h : LeadsTo(h[e], root, e)
    BY <1>5, <2>1, <2>2, PathLeads
  <2>6. \A e \in DOMAIN h : LeadsTo(h[e], root, e)'
    BY <1>1, <2>5, SameLeads
  <2>7. root \in Tops' /\ DOMAIN h = {root} \cup Reachable'
    BY <1>1, <2>2, <2>4, SameRecords, SameWithin
  <2> QED
    BY <1>3, <2>6, <2>7 DEF ContainedHierarchy
<1> QED
  BY <1>1, <1>2, <1>6, <1>7 DEF TreeInv, TreeWhole

\* What follows leaves the tree and the hierarchy alone.
LEMMA TreeStaysStep ==
    ASSUME TreeInv,
           UNCHANGED <<contents, _pdrRepo, _containerID, _entityAssociationTree,
                       _systemHierarchyIntf>>,
           \/ pc \in {"names", "objects", "done"} /\ pc' \in {"names", "objects", "done"}
           \/ pc' = pc /\ UNCHANGED entityAssociationNodes
    PROVE  TreeInv'
<1>1. Same
  BY DEF Same
<1>2. ContainedHierarchy => ContainedHierarchy'
  BY <1>1, SameRecords, SameWithin, SameLeads DEF ContainedHierarchy, InTree
<1>3. CASE pc \in {"names", "objects", "done"} /\ pc' \in {"names", "objects", "done"}
  BY <1>2, <1>3 DEF TreeInv
<1>4. CASE pc' = pc /\ UNCHANGED entityAssociationNodes
  <2>1. PICK t : t = _entityAssociationTree
    OBVIOUS
  <2>2. PICK l : l = entityAssociationNodes
    OBVIOUS
  <2>3. TreeStage(t, l)' <=> TreeStage(t, l)
    BY <1>1, SameStage
  <2>4. /\ TreeStage(_entityAssociationTree, entityAssociationNodes)' <=> TreeStage(t, l)'
        /\ Closed(_entityAssociationTree, entityAssociationNodes)' <=> Closed(t, l)
    BY <1>4, <2>1, <2>2 DEF Closed, Ents
  <2>5. TreeWhole => TreeWhole'
    BY <1>1, <2>1, <2>2, <2>3, <2>4, SameRecords DEF TreeWhole
  <2> QED
    BY <1>2, <1>4, <2>1, <2>2, <2>3, <2>4, <2>5 DEF TreeInv
<1> QED
  BY <1>3, <1>4

\* Every step keeps the invariant of the tree,
LEMMA TreeStep == PdrInv /\ KnownHandles /\ TreeInv /\ [Next]_vars => TreeInv'
<1> SUFFICES ASSUME PdrInv, KnownHandles, TreeInv, [Next]_vars PROVE TreeInv'
  OBVIOUS
<1>1. RecordsOfDevice
  BY KnownRecords
<1>2. CASE DeviceStep /\ UNCHANGED parseVars
  <2>1. /\ pc \in {"info", "record"} /\ pc' = pc /\ UNCHANGED <<contents, _pdrRepo, _containerID>>
    BY <1>2 DEF DeviceStep, ChangeRecord, DropRecord, AddBack, Change, readVars
  <2> QED
    BY <2>1 DEF TreeInv
<1>3. CASE Construct
  <2>1. pc' \in {"info", "record", "adding", "constructed", "failed"}
    <3>1. getPDRRepositoryInfo => pc' \in {"record", "failed"}
      BY DEF getPDRRepositoryInfo, BeginTry
    <3>2. InfoFails => pc' = "failed"
      BY DEF InfoFails
    <3>3. TryFails => pc' \in {"record", "failed"}
      BY DEF TryFails, BeginTry
    <3>4. handleGetPDRResp => pc' \in {"record", "adding", "failed"}
      BY <3>3 DEF handleGetPDRResp, RecordRead
    <3>5. addDevicePDRToRepo => pc' \in {"adding", "failed"}
      BY DEF addDevicePDRToRepo
    <3>6. CountRecords => pc' \in {"constructed", "failed"}
      BY DEF CountRecords, Constructed
    <3> QED
      BY <1>3, <3>1, <3>2, <3>3, <3>4, <3>5, <3>6 DEF Construct, GetPDRFails
  <2> QED
    BY <2>1 DEF TreeInv
<1>4. CASE ParseNames \/ ExtractAborts
  <2>1. pc' \in {"looping", "aborted", "associations"}
    BY <1>4 DEF ParseNames, ExtractAborts
  <2> QED
    BY <2>1 DEF TreeInv
<1>5. CASE ParseAssociations
  BY <1>1, <1>5, AssociationsStep
<1>6. CASE createEntityAssociationTree
  BY <1>1, <1>6, PassStep
<1>7. CASE populateSystemHierarchy
  BY <1>1, <1>7, HierarchyStep
<1>8. CASE ParseAuxNames
  BY <1>8, TreeStaysStep DEF ParseAuxNames, deviceVars, readVars
<1>9. CASE ParseObjects
  BY <1>9, TreeStaysStep DEF ParseObjects, deviceVars, readVars
<1>10. CASE initPDRs
  <2>1. pc' = "info"
    BY <1>10 DEF initPDRs
  <2> QED
    BY <2>1 DEF TreeInv
<1>11. CASE UNCHANGED vars
  BY <1>11, TreeStaysStep DEF vars, pdrVars, parseVars, deviceVars, readVars
<1> QED
  BY <1>2, <1>3, <1>4, <1>5, <1>6, <1>7, <1>8, <1>9, <1>10, <1>11 DEF Next, pdrManagerInit, LoopOnName

\* which holds at first,
LEMMA TreeInvInitially == Init => KnownHandles /\ TreeInv
<1> SUFFICES ASSUME Init PROVE KnownHandles /\ TreeInv
  OBVIOUS
<1>1. pc = "info" /\ devicePDRs = <<>> /\ _pdrRepo = <<>>
  BY DEF Init, PdrInit, NewManager
<1> QED
  BY <1>1, NothingThere DEF KnownHandles, TreeInv

\* and says at the end what HierarchyIsContainment says.
LEMMA TreeInvIsContainment == TreeInv => HierarchyIsContainment
<1> SUFFICES ASSUME TreeInv, Done, _containerID # None
             PROVE  \/ Tops = {} /\ InTree = {}
                    \/ \E root \in Tops :
                         /\ DOMAIN _systemHierarchyIntf = {root} \cup Reachable
                         /\ \A e \in DOMAIN _systemHierarchyIntf :
                              LET path == _systemHierarchyIntf[e]
                              IN  /\ path[1] = root /\ path[Len(path)] = e
                                  /\ \A k \in 2 .. Len(path) :
                                       path[k] \in InEntity(path[k - 1])
                                         \cup IF k = 2 THEN UNION {InEntity(t) : t \in Tops} ELSE {}
  BY DEF HierarchyIsContainment
<1>1. ContainedHierarchy
  BY DEF TreeInv, Done
<1> QED
  BY <1>1, Zenon DEF ContainedHierarchy, LeadsTo

\* The entities that are published are those that containment leads to from
\* the container of the terminus, along paths of containments the device has
\* told of: extractRootNode, createEntityAssociationTree and
\* populateSystemHierarchy make of the associations, in whatever order they
\* come and however often one of them is about the same container, exactly
\* the hierarchy they describe.
THEOREM HierarchyHolds == Spec => []HierarchyIsContainment
<1>1. Init => PdrInv /\ KnownHandles /\ TreeInv
  BY PdrInitially, TreeInvInitially
<1>2. PdrInv /\ KnownHandles /\ TreeInv /\ [Next]_vars => (PdrInv /\ KnownHandles /\ TreeInv)'
  BY PdrStep, KnownStep, TreeStep
<1>3. PdrInv /\ KnownHandles /\ TreeInv => HierarchyIsContainment
  BY TreeInvIsContainment
<1> QED
  BY <1>1, <1>2, <1>3, PTL DEF Spec

-----------------------------------------------------------------------------
(***************************************************************************)
(* The objects.                                                            *)
(***************************************************************************)
\* What is published of contents D, and kept of them
Published(o, k, D) ==
  /\ DOMAIN o = {IdOf(c) : c \in {c \in D : HasPath(c.entity)}}
  /\ \A id \in DOMAIN o : \E c \in D : /\ IdOf(c) = id /\ o[id].entity = c.entity
                                       /\ HasPath(c.entity)
  /\ \A c \in D : c.type # "fru" /\ HasPath(c.entity) => <<c.type, c.id>> \in DOMAIN k

\* An entry that is there stays.
LEMMA EmplaceFacts ==
    ASSUME NEW f, NEW k, NEW v
    PROVE  /\ DOMAIN Emplace(f, k, v) = DOMAIN f \cup {k}
           /\ \A x \in DOMAIN f : Emplace(f, k, v)[x] = f[x]
           /\ k \notin DOMAIN f => Emplace(f, k, v)[k] = v
  BY DEF Emplace

\* What one record more is published and kept as
LEMMA PublishedOne ==
    ASSUME NEW o, NEW k, NEW D, Published(o, k, D), NEW c,
           NEW v, HasPath(c.entity) => v.entity = c.entity,
           NEW p, p = IF HasPath(c.entity) THEN Emplace(o, IdOf(c), v) ELSE o,
           NEW q, DOMAIN k \subseteq DOMAIN q,
           c.type # "fru" /\ HasPath(c.entity) => <<c.type, c.id>> \in DOMAIN q
    PROVE  Published(p, q, D \cup {c})
<1>1. PICK x : x = IdOf(c)
  OBVIOUS
<1>2. \A d \in D : d.type # "fru" /\ HasPath(d.entity) => <<d.type, d.id>> \in DOMAIN q
  BY DEF Published
<1>3. DOMAIN o = {IdOf(d) : d \in {d \in D : HasPath(d.entity)}}
  BY DEF Published
<1>4. CASE HasPath(c.entity)
  <2>1. p = Emplace(o, x, v)
    BY <1>1, <1>4
  <2>2. /\ DOMAIN p = DOMAIN o \cup {x} /\ \A y \in DOMAIN o : p[y] = o[y]
        /\ x \notin DOMAIN o => p[x] = v
    <3>1. /\ DOMAIN Emplace(o, x, v) = DOMAIN o \cup {x}
          /\ \A y \in DOMAIN o : Emplace(o, x, v)[y] = o[y]
          /\ x \notin DOMAIN o => Emplace(o, x, v)[x] = v
      BY EmplaceFacts, Zenon
    <3> QED
      BY <2>1, <3>1
  <2>3. DOMAIN p = {IdOf(d) : d \in {d \in D \cup {c} : HasPath(d.entity)}}
    BY <1>1, <1>3, <1>4, <2>2
  <2>4. ASSUME NEW id \in DOMAIN p
        PROVE  \E d \in D \cup {c} : IdOf(d) = id /\ p[id].entity = d.entity /\ HasPath(d.entity)
    <3>1. CASE id \in DOMAIN o
      <4>1. \E d \in D : IdOf(d) = id /\ o[id].entity = d.entity /\ HasPath(d.entity)
        BY <3>1 DEF Published
      <4> QED
        BY <2>2, <3>1, <4>1
    <3>2. CASE id \notin DOMAIN o
      <4>1. id = x /\ p[id] = v
        BY <2>2, <3>2
      <4> QED
        BY <1>1, <1>4, <4>1
    <3> QED
      BY <3>1, <3>2
  <2> QED
    BY <1>2, <2>3, <2>4 DEF Published
<1>5. CASE ~ HasPath(c.entity)
  <2>1. p = o
    BY <1>5
  <2>2. {d \in D \cup {c} : HasPath(d.entity)} = {d \in D : HasPath(d.entity)}
    BY <1>5
  <2>3. \A id \in DOMAIN p : \E d \in D \cup {c} :
          IdOf(d) = id /\ p[id].entity = d.entity /\ HasPath(d.entity)
    BY <2>1 DEF Published
  <2>4. DOMAIN p = {IdOf(d) : d \in {d \in D \cup {c} : HasPath(d.entity)}}
    BY <1>3, <2>1, <2>2
  <2> QED
    BY <1>2, <1>5, <2>3, <2>4 DEF Published
<1> QED
  BY <1>4, <1>5

\* What the parsers change: the names, what is kept, and the objects
AsRecord(n, k, o) == [names |-> n, cached |-> k, objects |-> o]

\* A record of the three maps, with one of them changed
LEMMA RecordChanged ==
    ASSUME NEW n, NEW k, NEW o, NEW x
    PROVE  /\ AsRecord(n, k, o).names = n /\ AsRecord(n, k, o).cached = k
           /\ AsRecord(n, k, o).objects = o
           /\ [AsRecord(n, k, o) EXCEPT !.names = x] = AsRecord(x, k, o)
           /\ [AsRecord(n, k, o) EXCEPT !.cached = x] = AsRecord(n, x, o)
           /\ [AsRecord(n, k, o) EXCEPT !.objects = x] = AsRecord(n, k, x)
  BY DEF AsRecord

\* Keep changes what is cached alone.
LEMMA KeepOne ==
    ASSUME NEW n, NEW k, NEW o, NEW c
    PROVE  Keep(AsRecord(n, k, o), c) = AsRecord(n, Emplace(k, <<c.type, c.id>>, c), o)
<1> DEFINE p == AsRecord(n, k, o)
<1>1. p.cached = k
  BY RecordChanged
<1>2. Keep(p, c) = [p EXCEPT !.cached = Emplace(k, <<c.type, c.id>>, c)]
  <2> HIDE DEF p
  <2> QED
    BY <1>1, Zenon DEF Keep
<1>3. PICK u : u = Emplace(k, <<c.type, c.id>>, c)
  OBVIOUS
<1> QED
  BY <1>2, <1>3, RecordChanged

\* Publish adds the object where there is a path, and nothing else.
LEMMA PublishOne ==
    ASSUME NEW n, NEW k, NEW o, NEW c
    PROVE  \E x, v, p : /\ v.entity = c.entity
                        /\ p = IF HasPath(c.entity) THEN Emplace(o, IdOf(c), v) ELSE o
                        /\ Publish(AsRecord(n, k, o), c) = AsRecord(x, k, p)
<1> DEFINE p == AsRecord(n, k, o)
           v == [entity |-> c.entity, name |-> Named(n, c)[IdOf(c)]]
           y == IF HasPath(c.entity) THEN Emplace(o, IdOf(c), v) ELSE o
<1>1. p.names = n /\ p.objects = o
  BY RecordChanged
<1>2. Publish(p, c) = [p EXCEPT !.names = Named(n, c), !.objects = y]
  <2> HIDE DEF p
  <2> QED
    BY <1>1, Zenon DEF Publish
<1>3. Publish(p, c) = AsRecord(Named(n, c), k, y)
  <2>1. PICK u : u = y
    OBVIOUS
  <2>2. PICK x : x = Named(n, c)
    OBVIOUS
  <2>3. PICK r : r = Publish(p, c)
    OBVIOUS
  <2>4. r = [AsRecord(n, k, o) EXCEPT !.names = x, !.objects = u]
    <3> HIDE DEF y
    <3> QED
      BY <1>2, <2>1, <2>2, <2>3
  <2>5. r = AsRecord(x, k, u)
    <3>1. /\ DOMAIN r = {"names", "cached", "objects"}
          /\ r.names = x /\ r.cached = k /\ r.objects = u
      BY <2>4 DEF AsRecord
    <3>2. r = [i \in DOMAIN r |-> r[i]]
      BY <2>4 DEF AsRecord
    <3> QED
      BY <3>1, <3>2 DEF AsRecord
  <2> HIDE DEF y, p
  <2> QED
    BY <2>1, <2>2, <2>3, <2>5
<1>4. v.entity = c.entity
  OBVIOUS
<1> HIDE DEF v
<1> QED
  BY <1>3, <1>4, Zenon

\* A sensor is kept and published; a state effecter is as well.
LEMMA SensorParsed ==
    ASSUME NEW n, NEW k, NEW o, NEW D, Published(o, k, D), NEW c
    PROVE  \E x, q, p : /\ parseSensorPDR(AsRecord(n, k, o), c) = AsRecord(x, q, p)
                        /\ Published(p, q, D \cup {c})
<1>1. PICK q : q = Emplace(k, <<c.type, c.id>>, c)
  OBVIOUS
<1>2. Keep(AsRecord(n, k, o), c) = AsRecord(n, q, o)
  BY <1>1, KeepOne
<1>3. DOMAIN q = DOMAIN k \cup {<<c.type, c.id>>}
  BY <1>1, EmplaceFacts
<1>4. PICK x, v, p : /\ v.entity = c.entity
                     /\ p = IF HasPath(c.entity) THEN Emplace(o, IdOf(c), v) ELSE o
                     /\ Publish(AsRecord(n, q, o), c) = AsRecord(x, q, p)
  BY PublishOne
<1>5. Published(p, q, D \cup {c})
  BY <1>3, <1>4, PublishedOne
<1> QED
  BY <1>2, <1>4, <1>5 DEF parseSensorPDR

\* A numeric effecter is kept where it is published.
LEMMA NumericEffecterParsed ==
    ASSUME NEW n, NEW k, NEW o, NEW D, Published(o, k, D), NEW c
    PROVE  \E x, q, p : /\ parseNumericEffecterPDR(AsRecord(n, k, o), c) = AsRecord(x, q, p)
                        /\ Published(p, q, D \cup {c})
<1>1. PICK x, v, p : /\ v.entity = c.entity
                     /\ p = IF HasPath(c.entity) THEN Emplace(o, IdOf(c), v) ELSE o
                     /\ Publish(AsRecord(n, k, o), c) = AsRecord(x, k, p)
  BY PublishOne
<1>2. CASE HasPath(c.entity)
  <2>1. PICK q : q = Emplace(k, <<c.type, c.id>>, c)
    OBVIOUS
  <2>2. parseNumericEffecterPDR(AsRecord(n, k, o), c) = Keep(AsRecord(x, k, p), c)
    BY <1>1, <1>2 DEF parseNumericEffecterPDR
  <2>3. Keep(AsRecord(x, k, p), c) = AsRecord(x, q, p)
    BY <2>1, KeepOne
  <2>4. DOMAIN q = DOMAIN k \cup {<<c.type, c.id>>}
    BY <2>1, EmplaceFacts
  <2>5. Published(p, q, D \cup {c})
    BY <1>1, <2>4, PublishedOne
  <2> QED
    BY <2>2, <2>3, <2>5, Zenon
<1>3. CASE ~ HasPath(c.entity)
  <2>1. parseNumericEffecterPDR(AsRecord(n, k, o), c) = AsRecord(x, k, p)
    BY <1>1, <1>3 DEF parseNumericEffecterPDR
  <2>2. Published(p, k, D \cup {c})
    BY <1>1, <1>3, PublishedOne
  <2> QED
    BY <2>1, <2>2, Zenon
<1> QED
  BY <1>2, <1>3

\* A FRU record set is published, and nothing is kept of it.
LEMMA FRUParsed ==
    ASSUME NEW n, NEW k, NEW o, NEW D, Published(o, k, D), NEW c, c.type = "fru"
    PROVE  \E x, q, p : /\ parseFRURecordSetPDR(AsRecord(n, k, o), c) = AsRecord(x, q, p)
                        /\ Published(p, q, D \cup {c})
<1>1. PICK v : v = [entity |-> c.entity, name |-> "fru"]
  OBVIOUS
<1>2. v.entity = c.entity
  BY <1>1
<1>3. PICK p : p = IF HasPath(c.entity) THEN Emplace(o, IdOf(c), v) ELSE o
  OBVIOUS
<1>4. Published(p, k, D \cup {c})
  BY <1>2, <1>3, PublishedOne
<1>5. parseFRURecordSetPDR(AsRecord(n, k, o), c) = AsRecord(n, k, p)
  <2>1. AsRecord(n, k, o).objects = o
    BY RecordChanged
  <2>2. PICK r : r = AsRecord(n, k, o)
    OBVIOUS
  <2>3. CASE HasPath(c.entity)
    <3>1. parseFRURecordSetPDR(r, c) = [r EXCEPT !.objects = Emplace(o, IdOf(c), v)]
      BY <1>1, <2>1, <2>2, <2>3, Zenon DEF parseFRURecordSetPDR
    <3>2. parseFRURecordSetPDR(r, c) = [r EXCEPT !.objects = p]
      BY <1>3, <2>3, <3>1
    <3> QED
      BY <2>2, <3>2, RecordChanged
  <2>4. CASE ~ HasPath(c.entity)
    BY <1>3, <2>4 DEF parseFRURecordSetPDR
  <2> QED
    BY <2>3, <2>4
<1> QED
  BY <1>4, <1>5, Zenon

\* The folds that publish
Publishers == {"sensor", "stateEffecter", "numericEffecter", "fru"}

\* A record of them in which contents D are published
PublishedAs(a, D) == \E x, q, p : a = AsRecord(x, q, p) /\ Published(p, q, D)

\* One record more, of whichever kind
LEMMA ParsedOne ==
    ASSUME NEW g, NEW D, PublishedAs(g, D), NEW c, NEW h,
           \/ h = parseSensorPDR(g, c)
           \/ h = parseNumericEffecterPDR(g, c)
           \/ h = parseFRURecordSetPDR(g, c) /\ c.type = "fru"
    PROVE  PublishedAs(h, D \cup {c})
<1>1. PICK x, q, p : g = AsRecord(x, q, p) /\ Published(p, q, D)
  BY DEF PublishedAs
<1>2. CASE h = parseSensorPDR(AsRecord(x, q, p), c)
  <2>1. \E y, r, s : h = AsRecord(y, r, s) /\ Published(s, r, D \cup {c})
    BY <1>1, <1>2, SensorParsed
  <2> QED
    BY <2>1 DEF PublishedAs
<1>3. CASE h = parseNumericEffecterPDR(AsRecord(x, q, p), c)
  <2>1. \E y, r, s : h = AsRecord(y, r, s) /\ Published(s, r, D \cup {c})
    BY <1>1, <1>3, NumericEffecterParsed
  <2> QED
    BY <2>1 DEF PublishedAs
<1>4. CASE h = parseFRURecordSetPDR(AsRecord(x, q, p), c) /\ c.type = "fru"
  <2>1. \E y, r, s : h = AsRecord(y, r, s) /\ Published(s, r, D \cup {c})
    BY <1>1, <1>4, FRUParsed
  <2> QED
    BY <2>1 DEF PublishedAs
<1> QED
  BY <1>1, <1>2, <1>3, <1>4

\* All records of a type, in the order of the repository
LEMMA PublishedRun ==
    ASSUME NEW op \in Publishers, NEW type, op = "fru" => type = "fru",
           Len(_pdrRepo) \in Nat, DOMAIN _pdrRepo = 1 .. Len(_pdrRepo),
           NEW a, NEW D, PublishedAs(a, D), NEW f, IsRun(f, op, type, a, _pdrRepo)
    PROVE  PublishedAs(f[Len(_pdrRepo)], D \cup OfType(type))
<1> DEFINE n == Len(_pdrRepo)
           isOf(j) == IsOf(_pdrRepo[j], type)
           C(i) == {Content(_pdrRepo[j]) : j \in {j \in 1 .. i : isOf(j)}}
           Ok(i) == PublishedAs(f[i], D \cup C(i))
           S == {i \in 0 .. n : Ok(i)}
<1>1. C(n) = OfType(type)
  BY DEF OfType, Records
<1>2. f[0] = a /\ \A i \in 1 .. n : f[i] = Step(op, type, f[i - 1], _pdrRepo[i])
  BY RunFacts
<1>3. 0 \in S
  <2>1. D \cup C(0) = D
    OBVIOUS
  <2>2. Ok(0)
    <3> HIDE DEF C
    <3> QED
      BY <1>2, <2>1
  <2> HIDE DEF Ok
  <2> QED
    BY <2>2
<1>4. ASSUME NEW i \in 1 .. n, i - 1 \in S PROVE i \in S
  <2>1. PICK E : E = D \cup C(i - 1)
    OBVIOUS
  <2>2. PICK c : c = Content(_pdrRepo[i])
    OBVIOUS
  <2>3. 1 .. i = 1 .. i - 1 \cup {i}
    OBVIOUS
  <2>4. PICK g : g = f[i - 1]
    OBVIOUS
  <2>5. PublishedAs(g, E)
    <3> HIDE DEF C
    <3> QED
      BY <1>4, <2>1, <2>4
  <2>6. PICK h : h = f[i]
    OBVIOUS
  <2>7. h = Step(op, type, g, _pdrRepo[i])
    BY <1>2, <2>4, <2>6
  <2>8. CASE isOf(i)
    <3>1. D \cup C(i) = E \cup {c}
      BY <2>1, <2>2, <2>3, <2>8
    <3> HIDE DEF C
    <3>2. c.type = type
      BY <2>2, <2>8 DEF IsOf
    <3>3. \/ h = parseSensorPDR(g, c)
          \/ h = parseNumericEffecterPDR(g, c)
          \/ h = parseFRURecordSetPDR(g, c) /\ c.type = "fru"
      BY <2>2, <2>7, <2>8, <3>2 DEF Step, Publishers, parseSensorPDR, parseStateEffecterPDR
    <3>4. PublishedAs(h, E \cup {c})
      BY <2>5, <3>3, ParsedOne
    <3>5. Ok(i)
      BY <2>6, <3>1, <3>4
    <3> HIDE DEF Ok
    <3> QED
      BY <3>5
  <2>9. CASE ~ isOf(i)
    <3>1. C(i) = C(i - 1)
      BY <2>3, <2>9
    <3> HIDE DEF C
    <3>2. h = g
      BY <2>7, <2>9 DEF Step, Publishers
    <3>3. Ok(i)
      BY <2>1, <2>5, <2>6, <3>1, <3>2
    <3> HIDE DEF Ok
    <3> QED
      BY <3>3
  <2> QED
    BY <2>8, <2>9
<1>5. Ok(n)
  <2>1. \A i \in 0 .. n : i \in S
    <3> HIDE DEF S, n
    <3> QED
      BY <1>3, <1>4, UpTo DEF n
  <2>2. n \in S
    <3> HIDE DEF S
    <3> QED
      BY <2>1
  <2> HIDE DEF Ok
  <2> QED
    BY <2>2
<1> QED
  <2> HIDE DEF C
  <2> QED
    BY <1>1, <1>5

\* The same for what ParseAll makes of them
LEMMA PublishedFold ==
    ASSUME NEW op \in Publishers, NEW type, op = "fru" => type = "fru",
           Len(_pdrRepo) \in Nat, DOMAIN _pdrRepo = 1 .. Len(_pdrRepo),
           NEW a, NEW D, PublishedAs(a, D), NEW E, E = D \cup OfType(type),
           NEW r, \E f : IsRun(f, op, type, a, _pdrRepo) /\ r = f[Len(_pdrRepo)]
    PROVE  PublishedAs(r, E)
  BY PublishedRun

\* The contents the objects are made of
ParsedContents ==
  {c \in {Content(r) : r \in Records} :
     /\ c.type \in {"numericSensor", "stateSensor", "numericEffecter", "stateEffecter", "fru"}
     /\ c.wellFormed}

\* The five types one after the other are all that is published.
LEMMA ParsedPublishes ==
    ASSUME Len(_pdrRepo) \in Nat, DOMAIN _pdrRepo = 1 .. Len(_pdrRepo), DOMAIN objects = {}
    PROVE  Published(Parsed.objects, Parsed.cached, ParsedContents)
<1> DEFINE p0 == AsRecord(auxNames, cached, objects)
           p1 == ParseAll("numericSensor", parseSensorPDR, p0)
           p2 == ParseAll("stateSensor", parseSensorPDR, p1)
           p3 == ParseAll("numericEffecter", parseNumericEffecterPDR, p2)
           p4 == ParseAll("stateEffecter", parseStateEffecterPDR, p3)
           p5 == ParseAll("fru", parseFRURecordSetPDR, p4)
           D1 == {} \cup OfType("numericSensor")
           D2 == D1 \cup OfType("stateSensor")
           D3 == D2 \cup OfType("numericEffecter")
           D4 == D3 \cup OfType("stateEffecter")
           D5 == D4 \cup OfType("fru")
<1>0. {"sensor", "numericEffecter", "stateEffecter", "fru"} \subseteq Publishers
  BY DEF Publishers
<1>1. PublishedAs(p0, {})
  <2>1. Published(objects, cached, {})
    BY DEF Published
  <2> QED
    BY <2>1, Zenon DEF PublishedAs
<1>2. PublishedAs(p1, D1)
  <2> HIDE DEF p0
  <2>1. \E f : IsRun(f, "sensor", "numericSensor", p0, _pdrRepo) /\ p1 = f[Len(_pdrRepo)]
    BY SensorRuns
  <2>2. D1 = {} \cup OfType("numericSensor")
    OBVIOUS
  <2> HIDE DEF p1, D1
  <2> QED
    BY <1>0, <1>1, <2>1, <2>2, PublishedFold
<1>3. PublishedAs(p2, D2)
  <2> HIDE DEF p1, D1
  <2>1. \E f : IsRun(f, "sensor", "stateSensor", p1, _pdrRepo) /\ p2 = f[Len(_pdrRepo)]
    BY SensorRuns
  <2>2. D2 = D1 \cup OfType("stateSensor")
    OBVIOUS
  <2> HIDE DEF p2, D2
  <2> QED
    BY <1>0, <1>2, <2>1, <2>2, PublishedFold
<1>4. PublishedAs(p3, D3)
  <2> HIDE DEF p2, D2
  <2>1. \E f : IsRun(f, "numericEffecter", "numericEffecter", p2, _pdrRepo) /\ p3 = f[Len(_pdrRepo)]
    BY NumericEffecterRuns
  <2>2. D3 = D2 \cup OfType("numericEffecter")
    OBVIOUS
  <2> HIDE DEF p3, D3
  <2> QED
    BY <1>0, <1>3, <2>1, <2>2, PublishedFold
<1>5. PublishedAs(p4, D4)
  <2> HIDE DEF p3, D3
  <2>1. \E f : IsRun(f, "stateEffecter", "stateEffecter", p3, _pdrRepo) /\ p4 = f[Len(_pdrRepo)]
    BY StateEffecterRuns
  <2>2. D4 = D3 \cup OfType("stateEffecter")
    OBVIOUS
  <2> HIDE DEF p4, D4
  <2> QED
    BY <1>0, <1>4, <2>1, <2>2, PublishedFold
<1>6. PublishedAs(p5, D5)
  <2> HIDE DEF p4, D4
  <2>1. \E f : IsRun(f, "fru", "fru", p4, _pdrRepo) /\ p5 = f[Len(_pdrRepo)]
    BY FRURuns
  <2>2. D5 = D4 \cup OfType("fru")
    OBVIOUS
  <2> HIDE DEF p5, D5
  <2> QED
    BY <1>0, <1>5, <2>1, <2>2, PublishedFold
<1>7. Parsed = p5
  BY Zenon DEF Parsed, AsRecord
<1>8. D5 = ParsedContents
  BY DEF OfType, IsOf, ParsedContents
<1>9. Published(p5.objects, p5.cached, D5)
  <2> HIDE DEF p5, D5
  <2> QED
    BY <1>6, RecordChanged DEF PublishedAs
<1> QED
  <2> HIDE DEF p5, D5
  <2> QED
    BY <1>7, <1>8, <1>9

\* Nothing is published before the end, and everything at the end.
ObjectsInv ==
  /\ pc # "done" => DOMAIN objects = {}
  /\ pc = "done" => Published(objects, cached, ParsedContents)

\* Every step keeps what is said of the objects,
LEMMA ObjectsStep == PdrInv /\ KnownHandles /\ ObjectsInv /\ [Next]_vars => ObjectsInv'
<1> SUFFICES ASSUME PdrInv, KnownHandles, ObjectsInv, [Next]_vars PROVE ObjectsInv'
  OBVIOUS
<1>1. RecordsOfDevice
  BY KnownRecords
<1>2. CASE UNCHANGED objects /\ pc # "done" /\ pc' # "done"
  BY <1>2 DEF ObjectsInv
<1>3. CASE DeviceStep /\ UNCHANGED parseVars
  <2>1. pc \in {"info", "record"} /\ pc' = pc /\ UNCHANGED objects
    BY <1>3 DEF DeviceStep, ChangeRecord, DropRecord, AddBack, Change, parseVars
  <2> QED
    BY <1>2, <2>1
<1>4. CASE Construct /\ UNCHANGED parseVars
  <2>1. pc' # "done" /\ pc # "done"
    <3>1. getPDRRepositoryInfo => pc = "info" /\ pc' \in {"record", "failed"}
      BY DEF getPDRRepositoryInfo, BeginTry
    <3>2. InfoFails => pc = "info" /\ pc' = "failed"
      BY DEF InfoFails
    <3>3. TryFails => pc' \in {"record", "failed"}
      BY DEF TryFails, BeginTry
    <3>4. handleGetPDRResp => pc = "record" /\ pc' \in {"record", "adding", "failed"}
      BY <3>3 DEF handleGetPDRResp, RecordRead
    <3>5. addDevicePDRToRepo => pc = "adding" /\ pc' \in {"adding", "failed"}
      BY DEF addDevicePDRToRepo
    <3>6. CountRecords => pc = "adding" /\ pc' \in {"constructed", "failed"}
      BY DEF CountRecords, Constructed
    <3> QED
      BY <1>4, <3>1, <3>2, <3>3, <3>4, <3>5, <3>6 DEF Construct, GetPDRFails
  <2>2. UNCHANGED objects
    BY <1>4 DEF parseVars
  <2> QED
    BY <1>2, <2>1, <2>2
<1>5. CASE \/ ParseNames \/ ExtractAborts \/ ParseAssociations \/ createEntityAssociationTree
           \/ populateSystemHierarchy \/ ParseAuxNames
  <2>1. UNCHANGED objects /\ pc # "done" /\ pc' # "done"
    BY <1>5 DEF ParseNames, ExtractAborts, ParseAssociations, createEntityAssociationTree,
                populateSystemHierarchy, ParseAuxNames, Constructed, parseVars
  <2> QED
    BY <1>2, <2>1
<1>6. CASE ParseObjects
  <2>1. /\ UNCHANGED <<contents, _pdrRepo, _systemHierarchyIntf>> /\ pc = "objects" /\ pc' = "done"
        /\ cached' = Parsed.cached /\ objects' = Parsed.objects
    BY <1>6 DEF ParseObjects, deviceVars, readVars
  <2>2. Published(Parsed.objects, Parsed.cached, ParsedContents)
    BY <1>1, <2>1, ParsedPublishes DEF ObjectsInv, RecordsOfDevice
  <2>3. ParsedContents' = ParsedContents
    BY <2>1 DEF ParsedContents, Records, Content
  <2>4. Published(objects, cached, ParsedContents)'
    <3> HIDE DEF Parsed
    <3> QED
      BY <2>1, <2>2, <2>3 DEF Published, HasPath
  <2> QED
    BY <2>1, <2>4 DEF ObjectsInv
<1>7. CASE initPDRs
  <2>1. pc' = "info" /\ objects' = <<>>
    BY <1>7 DEF initPDRs
  <2> QED
    BY <2>1, EmptyList DEF ObjectsInv
<1>8. CASE UNCHANGED vars
  <2>1. UNCHANGED <<contents, _pdrRepo, _systemHierarchyIntf, pc, cached, objects>>
    BY <1>8 DEF vars, pdrVars, parseVars, deviceVars, readVars
  <2>2. ParsedContents' = ParsedContents
    BY <2>1 DEF ParsedContents, Records, Content
  <2> QED
    BY <2>1, <2>2 DEF ObjectsInv, Published, HasPath
<1> QED
  BY <1>3, <1>4, <1>5, <1>6, <1>7, <1>8 DEF Next, pdrManagerInit, LoopOnName

\* which at the end is ObjectsFollowEntities.
LEMMA PublishedFollows == ObjectsInv => ObjectsFollowEntities
<1> DEFINE with(id) == {c.entity : c \in {c \in ParsedContents : IdOf(c) = id}}
<1> SUFFICES ASSUME ObjectsInv, Done
             PROVE  /\ DOMAIN objects = {IdOf(c) : c \in {c \in ParsedContents : HasPath(c.entity)}}
                    /\ \A id \in DOMAIN objects :
                         objects[id].entity \in with(id) \cap DOMAIN _systemHierarchyIntf
                    /\ \A c \in ParsedContents :
                         c.type # "fru" /\ HasPath(c.entity) => <<c.type, c.id>> \in DOMAIN cached
  BY Zenon DEF ObjectsFollowEntities, ParsedContents
<1>1. Published(objects, cached, ParsedContents)
  BY DEF ObjectsInv, Done
<1>2. ASSUME NEW id \in DOMAIN objects
      PROVE  objects[id].entity \in with(id) \cap DOMAIN _systemHierarchyIntf
  <2>1. PICK c \in ParsedContents : /\ IdOf(c) = id /\ objects[id].entity = c.entity
                                    /\ HasPath(c.entity)
    BY <1>1 DEF Published
  <2>2. c.entity \in with(id)
    BY <2>1
  <2> QED
    BY <2>1, <2>2 DEF HasPath
<1> QED
  BY <1>1, <1>2 DEF Published

\* A sensor, an effecter or a FRU record set is published exactly when one of
\* its records names an entity in the hierarchy, and is published at such an
\* entity; a sensor or an effecter that is published has its record kept.  No
\* order of the records makes the parsers miss one or put it elsewhere.
THEOREM ObjectsHold == Spec => []ObjectsFollowEntities
<1> DEFINE I == PdrInv /\ KnownHandles /\ ObjectsInv
<1>1. Init => I
  <2>1. Init => pc = "info" /\ objects = <<>>
    BY DEF Init, PdrInit, NothingParsed
  <2> QED
    BY <2>1, PdrInitially, TreeInvInitially, EmptyList DEF ObjectsInv
<1>2. I /\ [Next]_vars => I'
  BY PdrStep, KnownStep, ObjectsStep
<1>3. I => ObjectsFollowEntities
  BY PublishedFollows
<1> QED
  BY <1>1, <1>2, <1>3, PTL DEF Spec
=============================================================================
