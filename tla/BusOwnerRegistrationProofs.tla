--------------------- MODULE BusOwnerRegistrationProofs ---------------------
(***************************************************************************)
(* The tables of the bus owner on SMBus stay consistent, for any devices,  *)
(* slots, EIDs and thresholds and any number of faults.                    *)
(*                                                                         *)
(* The pool needs nothing but itself (PoolSound).  That the device table   *)
(* is one to one needs what the coroutine remembers while it waits: the    *)
(* entry of its slot stays as it found it, and its slot is not ignored     *)
(* (RegSound).  That no EID is shared as long as none was orphaned needs,  *)
(* beyond that what is held is assigned, that a device whose EID has a     *)
(* route, or is being registered, answers where that says (Located): so no *)
(* other device can hold the EID that Set Endpoint ID gives.  A device of  *)
(* the root bus may answer in two slots; only one of them is ever scanned  *)
(* (ScanSound).                                                            *)
(***************************************************************************)
EXTENDS BusOwnerRegistration, SequenceTheorems, FiniteSetTheorems, WellFoundedInduction, TLAPS

-----------------------------------------------------------------------------
(***************************************************************************)
(* Facts about sequences.                                                  *)
(***************************************************************************)
\* A set of natural numbers has a least one.
LEMMA Least ==
    ASSUME NEW S, S \subseteq Nat, S # {}
    PROVE  \E n \in S : \A m \in S : n <= m
<1>1. IsWellFoundedOn(OpToRel(<, Nat), Nat)
  BY NatLessThanWellFounded
<1>2. PICK n \in S : \A m \in S : ~ (<<m, n>> \in OpToRel(<, Nat))
  BY <1>1, WFMin
<1>3. \A m \in S : ~ (m < n)
  BY <1>2, Zenon DEF OpToRel
<1> QED
  BY <1>3

\* Without its k-th element a sequence has the others as they were.
LEMMA RemoveAtFacts ==
    ASSUME NEW S, NEW s \in Seq(S), NEW k \in 1 .. Len(s)
    PROVE  /\ RemoveAt(s, k) \in Seq(S)
           /\ Len(RemoveAt(s, k)) = Len(s) - 1
           /\ \A i \in 1 .. Len(s) - 1 :
                RemoveAt(s, k)[i] = IF i < k THEN s[i] ELSE s[i + 1]
<1> DEFINE a == SubSeq(s, 1, k - 1)
           b == SubSeq(s, k + 1, Len(s))
<1>1. Len(s) \in Nat /\ k \in Nat /\ 1 <= k /\ k <= Len(s) /\ \A i \in 1 .. Len(s) : s[i] \in S
  BY LenProperties
<1>2. /\ a \in Seq(S) /\ Len(a) = k - 1
      /\ \A i \in 1 .. k - 1 : a[i] = s[i]
  <2>1. \A i \in 1 .. k - 1 : s[i] \in S
    BY <1>1
  <2>2. /\ a \in Seq(S) /\ Len(a) = (IF 1 <= k - 1 THEN k - 1 - 1 + 1 ELSE 0)
        /\ \A i \in 1 .. k - 1 - 1 + 1 : a[i] = s[1 + i - 1]
    BY <1>1, <2>1, SubSeqProperties
  <2> HIDE DEF a
  <2> QED
    BY <1>1, <2>2
<1>3. /\ b \in Seq(S) /\ Len(b) = Len(s) - k
      /\ \A i \in 1 .. Len(s) - k : b[i] = s[k + i]
  <2>1. \A i \in k + 1 .. Len(s) : s[i] \in S
    BY <1>1
  <2>2. /\ b \in Seq(S) /\ Len(b) = (IF k + 1 <= Len(s) THEN Len(s) - (k + 1) + 1 ELSE 0)
        /\ \A i \in 1 .. Len(s) - (k + 1) + 1 : b[i] = s[k + 1 + i - 1]
    BY <1>1, <2>1, SubSeqProperties
  <2> HIDE DEF b
  <2> QED
    BY <1>1, <2>2
<1>4. RemoveAt(s, k) = a \o b
  BY DEF RemoveAt
<1> HIDE DEF a, b
<1>5. /\ a \o b \in Seq(S) /\ Len(a \o b) = Len(a) + Len(b)
      /\ \A i \in 1 .. Len(a) + Len(b) :
           (a \o b)[i] = IF i <= Len(a) THEN a[i] ELSE b[i - Len(a)]
  BY <1>2, <1>3, ConcatProperties
<1>6. ASSUME NEW i \in 1 .. Len(s) - 1
      PROVE  (a \o b)[i] = IF i < k THEN s[i] ELSE s[i + 1]
  <2>1. CASE i < k
    <3>1. i \in 1 .. k - 1 /\ i <= Len(a) /\ i \in 1 .. Len(a) + Len(b)
      BY <1>1, <1>2, <1>3, <2>1
    <3> QED
      BY <1>2, <1>5, <2>1, <3>1
  <2>2. CASE ~ (i < k)
    <3>1. /\ i - Len(a) \in 1 .. Len(s) - k /\ ~ (i <= Len(a)) /\ i \in 1 .. Len(a) + Len(b)
          /\ k + (i - Len(a)) = i + 1
      BY <1>1, <1>2, <1>3, <2>2
    <3>2. (a \o b)[i] = b[i - Len(a)]
      BY <1>5, <3>1
    <3>3. b[i - Len(a)] = s[k + (i - Len(a))]
      BY <1>3, <3>1
    <3> QED
      BY <2>2, <3>1, <3>2, <3>3
  <2> QED
    BY <2>1, <2>2
<1> QED
  BY <1>1, <1>2, <1>3, <1>4, <1>5, <1>6

\* The elements of PutLast are those of the pool, once each as before.
LEMMA PutLastFacts ==
    ASSUME NEW pool \in Seq(PoolEids), IsInjective(pool), NEW e \in ToSet(pool)
    PROVE  /\ PutLast(pool, e) \in Seq(PoolEids) /\ IsInjective(PutLast(pool, e))
           /\ ToSet(PutLast(pool, e)) = ToSet(pool)
<1> DEFINE n == Len(pool)
           k == CHOOSE i \in DOMAIN pool : pool[i] = e
           s == RemoveAt(pool, k)
           p == Append(s, e)
<1>1. n \in Nat /\ DOMAIN pool = 1 .. n /\ k \in 1 .. n /\ pool[k] = e /\ e \in PoolEids
  BY LenProperties DEF ToSet
<1> HIDE DEF k
<1>2. /\ s \in Seq(PoolEids) /\ Len(s) = n - 1
      /\ \A i \in 1 .. n - 1 : s[i] = IF i < k THEN pool[i] ELSE pool[i + 1]
  BY <1>1, RemoveAtFacts
<1>10. e \in PoolEids
  BY <1>1
<1> HIDE DEF s, n
<1>3. /\ p \in Seq(PoolEids) /\ Len(p) = n /\ p[n] = e
      /\ \A i \in 1 .. n - 1 : p[i] = s[i]
  <2>1. /\ p \in Seq(PoolEids) /\ Len(p) = Len(s) + 1
        /\ \A i \in 1 .. Len(s) : p[i] = s[i]
        /\ p[Len(s) + 1] = e
    BY <1>2, <1>10, AppendProperties
  <2> HIDE DEF p
  <2>2. Len(s) = n - 1 /\ Len(s) + 1 = n
    BY <1>1, <1>2
  <2> QED
    BY <2>1, <2>2
<1> HIDE DEF p
<1> DEFINE from(i) == IF i = n THEN k ELSE IF i < k THEN i ELSE i + 1
<1>4. DOMAIN p = 1 .. n /\ \A i \in 1 .. n : from(i) \in 1 .. n /\ p[i] = pool[from(i)]
  <2>1. DOMAIN p = 1 .. n
    BY <1>3, LenProperties
  <2>2. \A i \in 1 .. n : i = n \/ i \in 1 .. n - 1
    BY <1>1
  <2> QED
    BY <1>1, <1>2, <1>3, <2>1, <2>2
<1>5. \A i, j \in 1 .. n : from(i) = from(j) => i = j
  BY <1>1
<1>6. \A j \in 1 .. n : \E i \in 1 .. n : from(i) = j
  <2>1. ASSUME NEW j \in 1 .. n PROVE \E i \in 1 .. n : from(i) = j
    <3>1. CASE j = k
      BY <1>1, <3>1
    <3>2. CASE j < k
      BY <1>1, <3>2
    <3>3. CASE j > k
      <4>1. j - 1 \in 1 .. n /\ from(j - 1) = j
        BY <1>1, <3>3
      <4> QED
        BY <4>1
    <3> QED
      BY <1>1, <3>1, <3>2, <3>3
  <2> QED
    BY <2>1
<1> HIDE DEF from
<1>7. IsInjective(p)
  BY <1>1, <1>4, <1>5 DEF IsInjective
<1>8. ToSet(p) = ToSet(pool)
  <2>1. ToSet(p) = {p[i] : i \in 1 .. n} /\ ToSet(pool) = {pool[i] : i \in 1 .. n}
    BY <1>1, <1>4 DEF ToSet
  <2>2. \A i \in 1 .. n : p[i] \in {pool[j] : j \in 1 .. n}
    BY <1>4
  <2>3. \A j \in 1 .. n : pool[j] \in {p[i] : i \in 1 .. n}
    BY <1>4, <1>6
  <2> QED
    BY <2>1, <2>2, <2>3
<1>9. PutLast(pool, e) = p
  BY DEF PutLast, p, s, k
<1> QED
  BY <1>3, <1>7, <1>8, <1>9

-----------------------------------------------------------------------------
(***************************************************************************)
(* The EID pool.                                                           *)
(***************************************************************************)
PoolSound == eidPool \in Seq(PoolEids) /\ PoolKept

\* initializeEidPool enters every EID once.
LEMMA InitialPoolSound == \A p \in InitialPool : p \in Seq(PoolEids)
                             /\ ToSet(p) = PoolEids /\ IsInjective(p)
<1> SUFFICES ASSUME NEW p \in InitialPool
             PROVE  p \in Seq(PoolEids) /\ ToSet(p) = PoolEids /\ IsInjective(p)
  OBVIOUS
<1>1. Cardinality(PoolEids) \in Nat
  BY RegistrationAssumption, FS_CardinalityType
<1>2. /\ p \in [1 .. Cardinality(PoolEids) -> PoolEids] /\ ToSet(p) = PoolEids
      /\ \A i, j \in DOMAIN p : i < j => p[i] < p[j]
  BY DEF InitialPool
<1>3. p \in Seq(PoolEids)
  BY <1>1, <1>2, IsASeq
<1>4. ASSUME NEW i \in DOMAIN p, NEW j \in DOMAIN p, p[i] = p[j] PROVE i = j
  <2>1. i \in Nat /\ j \in Nat /\ p[i] \in Nat
    <3>1. DOMAIN p = 1 .. Cardinality(PoolEids) /\ PoolEids \subseteq Nat
      BY <1>2, RegistrationAssumption
    <3>2. i \in Nat /\ j \in Nat
      BY <1>1, <1>4, <3>1
    <3>3. p[i] \in PoolEids
      BY <1>2, <1>4, <3>1
    <3> QED
      BY <3>1, <3>2, <3>3
  <2>2. ~ (i < j) /\ ~ (j < i)
    BY <1>2, <1>4, <2>1
  <2> QED
    BY <2>1, <2>2
<1> QED
  BY <1>2, <1>3, <1>4 DEF IsInjective

-----------------------------------------------------------------------------
(***************************************************************************)
(* The inductive invariant.                                                *)
(***************************************************************************)
Entry == [eid : PoolEids, uuid : Devices \ NoUuid]

Tables ==
    /\ PoolSound
    /\ assigned \in SUBSET PoolEids
    /\ uuidTable \in Seq(Entry)
    /\ endpointInterface \in SUBSET PoolEids
    /\ smbusDeviceTable \in SUBSET [eid : PoolEids, slot : Slots]

Rest ==
    /\ at \in [Devices -> Slots \cup {None}]
    /\ devEid \in [Devices -> Eids]
    /\ reg \in Registration
    /\ rootDeviceMap \in SUBSET RootSlots

OnePerSlot ==
    \A d, x \in Devices : d # x /\ at[d] # None /\ at[x] # None => ~ Clash(at[d], at[x])

\* Slots that scanDevices can come to between two restarts
Scanned(s) == IF s \in RootSlots THEN s \in rootDeviceMap ELSE ~ Skipped(s)

ScanSound ==
    /\ \A s \in todo : Scanned(s)
    /\ \A t \in smbusDeviceTable : Scanned(t.slot)
    /\ step # "idle" => Scanned(reg.slot)

\* What the coroutine remembers of its slot and of the device there
RegSound ==
    step # "idle" =>
        /\ reg.slot \in Slots \ ignoreList
        /\ \A t \in smbusDeviceTable : t.slot = reg.slot <=> t.eid = reg.registeredEid
        /\ step \in {"setEid", "getMsgType"} => reg.eid \in PoolEids

\* While no EID has been orphaned: who holds one is where it is routed to, or
\* where it is being registered, and EIDs in use are assigned.
Located ==
    ~ orphaned =>
        /\ \A d \in Devices : devEid[d] # Null => devEid[d] \in assigned
        /\ \A d, x \in Devices : devEid[d] # Null /\ devEid[d] = devEid[x] => d = x
        /\ \A d \in Devices, t \in smbusDeviceTable : devEid[d] = t.eid => Answers(d, t.slot)
        /\ \A t \in smbusDeviceTable : t.eid \in assigned
        /\ step # "idle" =>
              \A e \in {reg.eid, reg.reported} \ {Null} :
                  /\ e \in assigned
                  /\ \A d \in Devices : devEid[d] = e => Answers(d, reg.slot)
                  /\ \A t \in smbusDeviceTable : t.eid = e => t.slot = reg.slot

Inv ==
    /\ Tables /\ Rest /\ OnePerSlot /\ ScanSound
    /\ DeviceTableIsOneToOne /\ RegSound /\ Located

\* NoRegistration is one of them, and Null is no EID of the pool.
LEMMA NullFacts == NoRegistration \in Registration /\ Null \notin PoolEids /\ PoolEids \subseteq Eids
  BY RegistrationAssumption DEF NoRegistration, Registration, Eids, Uuids

\* An EID that no longer is orphaned has not been before.
LEMMA NotOrphaned ==
    ASSUME NoteOrphans, ~ orphaned'
    PROVE  ~ orphaned /\ \A d \in Devices : devEid'[d] # Null => devEid'[d] \in assigned'
  BY DEF NoteOrphans

\* Two devices do not answer in one slot.
LEMMA OneAnswers ==
    ASSUME OnePerSlot, NEW s, NEW d \in Devices, NEW x \in Devices, Answers(d, s), Answers(x, s)
    PROVE  d = x
<1>1. /\ at[d] # None /\ at[x] # None
      /\ at[d] = s \/ (Clash(at[d], s) /\ s \notin RootSlots)
      /\ at[x] = s \/ (Clash(at[x], s) /\ s \notin RootSlots)
  BY DEF Answers
<1>2. Clash(at[d], at[x])
  BY <1>1 DEF Clash
<1> QED
  BY <1>1, <1>2 DEF OnePerSlot

\* A device answers in one scanned slot.
LEMMA OneScanned ==
    ASSUME Rest, NEW d \in Devices, NEW s \in Slots, NEW u \in Slots,
           Answers(d, s), Answers(d, u), Scanned(s), Scanned(u)
    PROVE  s = u
<1>1. PICK p : p = at[d]
  OBVIOUS
<1>2. /\ p = s \/ (Clash(p, s) /\ s \notin RootSlots)
      /\ p = u \/ (Clash(p, u) /\ u \notin RootSlots)
  BY <1>1 DEF Answers
<1>3. ASSUME NEW q \in Slots, Scanned(q), p \in RootSlots, Scanned(p), p # q, Clash(p, q)
      PROVE  q \in RootSlots
  BY <1>3 DEF Scanned, Skipped
<1>4. CASE p \in RootSlots /\ p = s
  BY <1>2, <1>3, <1>4
<1>5. CASE p \in RootSlots /\ p = u
  BY <1>2, <1>3, <1>5
<1>6. CASE p \in RootSlots /\ p # s /\ p # u
  BY <1>2, <1>6, RegistrationAssumption DEF Clash
<1>7. CASE p \notin RootSlots
  BY <1>2, <1>7 DEF Clash
<1> QED
  BY <1>4, <1>5, <1>6, <1>7

\* Where devices answer changes only with where they are, and what is scanned
\* only in a restart.
LEMMA SamePlaces ==
    /\ at' = at => \A d, s : Answers(d, s)' <=> Answers(d, s)
    /\ rootDeviceMap' = rootDeviceMap => \A s : Scanned(s)' <=> Scanned(s)
  BY DEF Answers, Clash, Scanned, Skipped

\* As long as it goes on in the slot where it is, the scan stays where it may.
LEMMA ScanSoundKept ==
    ASSUME ScanSound, rootDeviceMap' = rootDeviceMap, todo' \subseteq todo,
           \A t \in smbusDeviceTable' : t \in smbusDeviceTable \/ Scanned(t.slot),
           step' # "idle" => Scanned(reg'.slot)
    PROVE  ScanSound'
<1>1. \A s : Scanned(s)' <=> Scanned(s)
  BY SamePlaces
<1>2. \A t \in smbusDeviceTable' : Scanned(t.slot)
  BY DEF ScanSound
<1>3. \A s \in todo' : Scanned(s)
  BY DEF ScanSound
<1> QED
  BY <1>1, <1>2, <1>3 DEF ScanSound

\* As long as devices, EIDs and routes stay, they are located as before.
LEMMA LocatedKept ==
    ASSUME Located, NoteOrphans, UNCHANGED <<at, devEid, smbusDeviceTable>>,
           assigned \subseteq assigned',
           ~ orphaned' /\ step' # "idle" =>
              \A e \in {reg'.eid, reg'.reported} \ {Null} :
                  /\ e \in assigned'
                  /\ \A d \in Devices : devEid[d] = e => Answers(d, reg'.slot)
                  /\ \A t \in smbusDeviceTable : t.eid = e => t.slot = reg'.slot
    PROVE  Located'
<1> SUFFICES ASSUME ~ orphaned' PROVE Located'
  BY DEF Located
<1>1. ~ orphaned /\ \A d, s : Answers(d, s)' <=> Answers(d, s)
  BY NotOrphaned, SamePlaces
<1>2. \A d \in Devices, t \in smbusDeviceTable : devEid[d] = t.eid => Answers(d, t.slot)'
  BY <1>1 DEF Located
<1>3. step' # "idle" =>
         \A e \in {reg'.eid, reg'.reported} \ {Null} :
             /\ e \in assigned'
             /\ \A d \in Devices : devEid[d] = e => Answers(d, reg.slot)'
             /\ \A t \in smbusDeviceTable : t.eid = e => t.slot = reg'.slot
  BY <1>1
<1> QED
  BY <1>1, <1>2, <1>3 DEF Located

\* A registration that fails drops the entry of its slot.
LEMMA FailKeeps ==
    ASSUME Inv, step # "idle", NoteOrphans, NEW pool, NEW taken, NEW interfaces,
           Fail(pool, taken, interfaces),
           pool \in Seq(PoolEids), ToSet(pool) = PoolEids, IsInjective(pool),
           taken \in SUBSET PoolEids, assigned \ {reg.eid} \subseteq taken, interfaces \in SUBSET PoolEids,
           UNCHANGED <<at, todo, rootDeviceMap>>,
           devEid' \in [Devices -> Eids], devEid' = devEid \/ orphaned',
           ignoreList' \in SUBSET (ignoreList \cup {reg.slot})
    PROVE  Inv'
<1> DEFINE old == reg.registeredEid
           entries == {i \in 1 .. Len(uuidTable) : uuidTable[i].eid = old}
           first == CHOOSE i \in entries : \A j \in entries : i <= j
<1>0. /\ Tables /\ Rest /\ OnePerSlot /\ ScanSound
      /\ DeviceTableIsOneToOne /\ RegSound /\ Located
  BY DEF Inv
<1>1. /\ smbusDeviceTable' = {t \in smbusDeviceTable : t.eid # old}
      /\ step' = "idle" /\ reg' = NoRegistration
      /\ \/ /\ entries = {} /\ uuidTable' = uuidTable /\ endpointInterface' = interfaces
            /\ assigned' = taken /\ eidPool' = pool
         \/ /\ entries # {} /\ uuidTable' = RemoveAt(uuidTable, first)
            /\ endpointInterface' = interfaces \ {old} /\ assigned' = taken \ {old}
            /\ eidPool' = PutLast(pool, old)
  BY DEF Fail
<1>2. Tables'
  <2>1. uuidTable \in Seq(Entry) /\ smbusDeviceTable \in SUBSET [eid : PoolEids, slot : Slots]
    BY <1>0 DEF Tables
  <2>2. ASSUME entries # {} PROVE first \in 1 .. Len(uuidTable) /\ old \in PoolEids
    <3>1. \E i \in entries : \A j \in entries : i <= j
      <4>1. entries \subseteq Nat
        OBVIOUS
      <4> HIDE DEF entries
      <4> QED
        BY <2>2, <4>1, Least
    <3>2. first \in entries
      BY <3>1
    <3>3. \A i \in 1 .. Len(uuidTable) : uuidTable[i] \in Entry
      BY <2>1, LenProperties
    <3> QED
      BY <3>2, <3>3 DEF Entry
  <2>3. uuidTable' \in Seq(Entry)
    <3> HIDE DEF entries, first
    <3> QED
      BY <1>1, <2>1, <2>2, RemoveAtFacts
  <2>4. PoolSound'
    <3> HIDE DEF entries, first, old
    <3>1. CASE eidPool' = pool
      BY <3>1 DEF PoolSound, PoolKept
    <3>2. CASE entries # {} /\ eidPool' = PutLast(pool, old)
      <4>1. old \in ToSet(pool)
        BY <2>2, <3>2
      <4>2. /\ PutLast(pool, old) \in Seq(PoolEids) /\ IsInjective(PutLast(pool, old))
            /\ ToSet(PutLast(pool, old)) = PoolEids
        BY <4>1, PutLastFacts
      <4> QED
        BY <3>2, <4>2 DEF PoolSound, PoolKept
    <3> QED
      BY <1>1, <3>1, <3>2
  <2> HIDE DEF entries, first
  <2> QED
    BY <1>1, <2>1, <2>3, <2>4 DEF Tables
<1> HIDE DEF entries, first
<1>3. Rest'
  BY <1>0, <1>1, NullFacts DEF Rest
<1>4. OnePerSlot'
  BY <1>0 DEF OnePerSlot
<1>5. DeviceTableIsOneToOne'
  BY <1>0, <1>1 DEF DeviceTableIsOneToOne, RegSound
<1>6. RegSound'
  BY <1>1 DEF RegSound
<1>7. Located'
  <2>1. ASSUME ~ orphaned', NEW t \in smbusDeviceTable'
        PROVE  t.eid \in assigned'
    <3>1. t \in smbusDeviceTable /\ t.eid # old /\ t.eid # Null
      BY <1>0, <1>1, <2>1, NullFacts DEF Tables
    <3>2. t.eid \in assigned
      BY <2>1, <3>1, <1>0, NotOrphaned DEF Located
    <3>3. t.eid # reg.eid
      BY <2>1, <3>1, <1>0, NotOrphaned DEF Located, RegSound
    <3> QED
      BY <1>1, <3>1, <3>2, <3>3
  <2>2. ASSUME ~ orphaned'
        PROVE  ~ orphaned /\ devEid' = devEid /\ at' = at
    BY <2>2, NotOrphaned
  <2>3. \A t \in smbusDeviceTable' : t \in smbusDeviceTable
    BY <1>1
  <2>4. ASSUME ~ orphaned', NEW d \in Devices, NEW t \in smbusDeviceTable', devEid'[d] = t.eid
        PROVE  Answers(d, t.slot)'
    BY <1>0, <2>2, <2>3, <2>4, SamePlaces DEF Located
  <2> QED
    BY <1>0, <1>1, <2>1, <2>2, <2>4, NotOrphaned DEF Located
<1>8. ScanSound'
  BY <1>0, <1>1, ScanSoundKept
<1> QED
  BY <1>2, <1>3, <1>4, <1>5, <1>6, <1>7, <1>8 DEF Inv

\* A registration that succeeds leaves one entry for its slot and EID.
LEMMA SucceedKeeps ==
    ASSUME Inv, step # "idle", NoteOrphans, NEW e \in PoolEids, Succeed(e),
           e \in {reg.eid, reg.reported}, UNCHANGED <<eidPool, assigned, deviceVars, ignoreList>>,
           UNCHANGED <<todo, rootDeviceMap>>,
           uuidTable' \in Seq(Entry), endpointInterface' \in SUBSET PoolEids
    PROVE  Inv'
<1> DEFINE new == [eid |-> e, slot |-> reg.slot]
           others == {t \in smbusDeviceTable : t.eid # reg.registeredEid}
<1>0. /\ Tables /\ Rest /\ OnePerSlot /\ ScanSound
      /\ DeviceTableIsOneToOne /\ RegSound /\ Located
  BY DEF Inv
<1>1. /\ smbusDeviceTable' =
            (IF e # reg.registeredEid THEN others ELSE smbusDeviceTable)
            \cup (IF \E t \in smbusDeviceTable : t.eid = e THEN {} ELSE {new})
      /\ step' = "idle" /\ reg' = NoRegistration
  BY DEF Succeed
<1>2. \A t \in smbusDeviceTable' : t \in smbusDeviceTable \/ t = new
  BY <1>1
<1>3. Tables'
  <2>1. new \in [eid : PoolEids, slot : Slots]
    BY <1>0 DEF RegSound
  <2>2. PoolSound'
    BY <1>0 DEF Tables, PoolSound, PoolKept
  <2> HIDE DEF new
  <2> QED
    BY <1>0, <1>2, <2>1, <2>2 DEF Tables
<1>4. Rest' /\ OnePerSlot' /\ RegSound'
  BY <1>0, <1>1, NullFacts DEF Rest, OnePerSlot, RegSound, deviceVars
<1>5. DeviceTableIsOneToOne'
  <2>1. ASSUME new \in smbusDeviceTable', new \notin smbusDeviceTable,
               NEW t \in smbusDeviceTable', t # new
        PROVE  t.eid # e /\ t.slot # reg.slot
    <3>1. t \in smbusDeviceTable
      BY <1>2, <2>1
    <3>2. \A u \in smbusDeviceTable : u.eid # e
      BY <1>1, <2>1
    <3>3. t.eid # reg.registeredEid
      BY <1>1, <2>1, <3>1, <3>2
    <3> QED
      BY <1>0, <3>1, <3>2, <3>3 DEF RegSound
  <2>2. \A t, u \in smbusDeviceTable' : t.slot = u.slot \/ t.eid = u.eid => t = u
    <3>0. new.eid = e /\ new.slot = reg.slot
      OBVIOUS
    <3> HIDE DEF new
    <3> QED
      BY <1>0, <1>2, <2>1, <3>0 DEF DeviceTableIsOneToOne
  <2>3. \A t \in smbusDeviceTable' : t.slot \notin ignoreList
    BY <1>0, <1>2 DEF DeviceTableIsOneToOne, RegSound
  <2> QED
    BY <2>2, <2>3 DEF DeviceTableIsOneToOne
<1>6. Located'
  <2>1. ASSUME ~ orphaned' PROVE ~ orphaned
    BY <2>1, NotOrphaned
  <2>2. ASSUME ~ orphaned', NEW d \in Devices, NEW t \in smbusDeviceTable', devEid[d] = t.eid
        PROVE  Answers(d, t.slot)
    <3>1. CASE t \in smbusDeviceTable
      BY <1>0, <2>1, <2>2, <3>1 DEF Located
    <3>2. CASE t = new
      BY <1>0, <2>1, <2>2, <3>2, NullFacts DEF Located
    <3> QED
      BY <1>2, <2>2, <3>1, <3>2
  <2>3. ASSUME ~ orphaned', NEW t \in smbusDeviceTable'
        PROVE  t.eid \in assigned
    BY <1>0, <1>2, <2>1, <2>3, NullFacts DEF Located
  <2>4. ASSUME ~ orphaned', NEW d \in Devices, NEW t \in smbusDeviceTable', devEid'[d] = t.eid
        PROVE  Answers(d, t.slot)'
    BY <2>2, <2>4, SamePlaces DEF deviceVars
  <2> QED
    BY <1>0, <1>1, <2>1, <2>3, <2>4 DEF Located, deviceVars
<1>7. ScanSound'
  <2>1. Scanned(reg.slot) /\ new.slot = reg.slot
    BY <1>0 DEF ScanSound
  <2> HIDE DEF new
  <2> QED
    BY <1>0, <1>1, <1>2, <2>1, ScanSoundKept
<1> QED
  BY <1>3, <1>4, <1>5, <1>6, <1>7 DEF Inv

-----------------------------------------------------------------------------
(***************************************************************************)
(* The steps of the scan.                                                  *)
(***************************************************************************)
\* Nothing changes in the tables.
SameTables == UNCHANGED <<tableVars, ignoreList>>

\* While the coroutine only looks, the tables stay sound.
LEMMA SameTablesKeep ==
    ASSUME Inv, SameTables
    PROVE  Tables' /\ DeviceTableIsOneToOne'
  BY DEF Inv, SameTables, tableVars, Tables, PoolSound, PoolKept, DeviceTableIsOneToOne

\* A new scan touches no table.
LEMMA StartScanStep == Inv /\ StartScan => Inv'
<1> SUFFICES ASSUME Inv, StartScan PROVE Inv'
  OBVIOUS
<1>0. /\ Tables /\ Rest /\ OnePerSlot /\ ScanSound
      /\ DeviceTableIsOneToOne /\ RegSound /\ Located
  BY DEF Inv
<1>1. /\ SameTables /\ UNCHANGED <<at, devEid, reg, step, assigned, smbusDeviceTable, ignoreList>>
      /\ NoteOrphans /\ step = "idle" /\ rootDeviceMap' = rootDeviceMap
      /\ todo' \subseteq Found \cup rootDeviceMap
  BY DEF StartScan, SameTables, deviceVars, tableVars
<1>2. Rest' /\ OnePerSlot' /\ RegSound'
  BY <1>0, <1>1 DEF Rest, OnePerSlot, RegSound
<1>3. Located'
  BY <1>0, <1>1, LocatedKept
<1>4. ScanSound'
  <2>1. \A s \in todo' : Scanned(s)
    BY <1>0, <1>1 DEF Found, Scanned, Rest
  <2>2. \A s : Scanned(s)' <=> Scanned(s)
    BY <1>1, SamePlaces
  <2> QED
    BY <1>0, <1>1, <2>1, <2>2 DEF ScanSound
<1> QED
  BY <1>0, <1>1, <1>2, <1>3, <1>4, SameTablesKeep DEF Inv

\* The entry of the slot, or none, is what the registration starts from.
LEMMA NextDeviceStep == \A s \in Slots : Inv /\ NextDevice(s) => Inv'
<1> SUFFICES ASSUME Inv, NEW s \in Slots, NextDevice(s) PROVE Inv'
  OBVIOUS
<1>0. /\ Tables /\ Rest /\ OnePerSlot /\ ScanSound
      /\ DeviceTableIsOneToOne /\ RegSound /\ Located
  BY DEF Inv
<1>1. /\ SameTables /\ UNCHANGED <<at, devEid, assigned, smbusDeviceTable, ignoreList>>
      /\ NoteOrphans /\ step = "idle" /\ rootDeviceMap' = rootDeviceMap
      /\ s \in todo /\ todo' \subseteq todo
  BY DEF NextDevice, SameTables, deviceVars, tableVars, watcherVars, rootVars
<1>2. CASE UNCHANGED <<step, reg>>
  <2>1. Rest' /\ OnePerSlot' /\ RegSound'
    BY <1>0, <1>1, <1>2 DEF Rest, OnePerSlot, RegSound
  <2>2. ScanSound' /\ Located'
    BY <1>0, <1>1, <1>2, ScanSoundKept, LocatedKept
  <2> QED
    BY <1>0, <1>1, <2>1, <2>2, SameTablesKeep DEF Inv
<1>3. ASSUME s \notin ignoreList, NEW e \in Eids,
             \/ [eid |-> e, slot |-> s] \in smbusDeviceTable
             \/ e = Null /\ \A t \in smbusDeviceTable : t.slot # s,
             reg' = [NoRegistration EXCEPT !.slot = s, !.registeredEid = e, !.eid = e],
             step' = "getEid"
      PROVE  Inv'
  <2>1. /\ reg' \in Registration /\ reg'.slot = s /\ reg'.registeredEid = e
        /\ reg'.eid = e /\ reg'.reported = Null
    BY <1>3, NullFacts DEF Registration, NoRegistration
  <2>2. RegSound'
    <3>1. \A t \in smbusDeviceTable : t.slot = s <=> t.eid = e
      <4>1. CASE [eid |-> e, slot |-> s] \in smbusDeviceTable
        BY <1>0, <4>1 DEF DeviceTableIsOneToOne
      <4>2. CASE e = Null /\ \A t \in smbusDeviceTable : t.slot # s
        BY <1>0, <4>2, NullFacts DEF Tables
      <4> QED
        BY <1>3, <4>1, <4>2
    <3> QED
      BY <1>1, <1>3, <2>1, <3>1 DEF RegSound
  <2>3. Located'
    <3>1. ASSUME ~ orphaned', e # Null
          PROVE  /\ e \in assigned
                 /\ \A d \in Devices : devEid[d] = e => Answers(d, s)
                 /\ \A t \in smbusDeviceTable : t.eid = e => t.slot = s
      BY <1>0, <1>1, <1>3, <3>1, NotOrphaned DEF Located, DeviceTableIsOneToOne
    <3> QED
      BY <1>0, <1>1, <2>1, <3>1, LocatedKept
  <2>4. Rest' /\ OnePerSlot'
    BY <1>0, <1>1, <2>1 DEF Rest, OnePerSlot
  <2>5. ScanSound'
    BY <1>0, <1>1, <2>1, ScanSoundKept DEF ScanSound
  <2> QED
    BY <1>0, <1>1, <2>2, <2>3, <2>4, <2>5, SameTablesKeep DEF Inv
<1> QED
  BY <1>2, <1>3 DEF NextDevice

\* The EID the device reports is held by this device alone.
LEMMA EidStep ==
    Inv /\ (EidUnanswered \/ \E d \in Devices : EidAnswered(d)) => Inv'
<1> SUFFICES ASSUME Inv, EidUnanswered \/ \E d \in Devices : EidAnswered(d) PROVE Inv'
  OBVIOUS
<1>0. /\ Tables /\ Rest /\ OnePerSlot /\ ScanSound
      /\ DeviceTableIsOneToOne /\ RegSound /\ Located
  BY DEF Inv
<1>1. /\ step = "getEid" /\ NoteOrphans
      /\ UNCHANGED <<at, devEid, ignoreList, todo, rootDeviceMap>>
  BY DEF EidUnanswered, EidAnswered, deviceVars, watcherVars, rootVars
<1>2. CASE Fail(eidPool, assigned, endpointInterface)
  BY <1>0, <1>1, <1>2, FailKeeps DEF Tables, Rest, PoolSound, PoolKept
<1>3. ASSUME NEW d \in DeviceAt(reg.slot), UNCHANGED tableVars, step' = "getUuid",
             reg' = [reg EXCEPT !.reported = devEid[d], !.eid = IF @ = Null THEN devEid[d] ELSE @]
      PROVE  Inv'
  <2>1. d \in Devices /\ Answers(d, reg.slot) /\ devEid[d] \in Eids
    BY <1>0, <1>3 DEF DeviceAt, Rest
  <2>2. /\ reg' \in Registration /\ reg'.slot = reg.slot /\ reg'.reported = devEid[d]
        /\ reg'.registeredEid = reg.registeredEid /\ reg'.eid \in {reg.eid, devEid[d]}
    BY <1>0, <1>3, <2>1 DEF Rest, Registration
  <2>3. SameTables /\ UNCHANGED <<smbusDeviceTable, assigned>>
    BY <1>1, <1>3 DEF SameTables, tableVars
  <2>4. RegSound'
    BY <1>0, <1>1, <1>3, <2>2, <2>3 DEF RegSound
  <2>5. Located'
    <3>1. ASSUME ~ orphaned', NEW e \in {reg'.eid, reg'.reported} \ {Null}
          PROVE  /\ e \in assigned
                 /\ \A x \in Devices : devEid[x] = e => Answers(x, reg.slot)
                 /\ \A t \in smbusDeviceTable : t.eid = e => t.slot = reg.slot
      <4>1. ~ orphaned
        BY <1>1, <3>1, NotOrphaned
      <4>2. CASE e = devEid[d]
        <5>1. /\ e \in assigned /\ \A x \in Devices : devEid[x] = e => x = d
              /\ \A t \in smbusDeviceTable : t.eid = e => Answers(d, t.slot)
          BY <1>0, <2>1, <3>1, <4>1, <4>2 DEF Located
        <5>2. reg.slot \in Slots /\ Scanned(reg.slot)
          BY <1>0, <1>1 DEF RegSound, ScanSound
        <5>3. \A t \in smbusDeviceTable : t.slot \in Slots /\ Scanned(t.slot)
          BY <1>0 DEF Tables, ScanSound
        <5>4. \A t \in smbusDeviceTable : t.eid = e => t.slot = reg.slot
          BY <1>0, <2>1, <5>1, <5>2, <5>3, OneScanned
        <5> QED
          BY <2>1, <5>1, <5>4
      <4>3. CASE e = reg.eid
        BY <1>0, <1>1, <3>1, <4>1, <4>3 DEF Located
      <4> QED
        BY <2>2, <3>1, <4>2, <4>3
    <3> QED
      BY <1>0, <1>1, <2>2, <2>3, <3>1, LocatedKept
  <2>6. Rest' /\ OnePerSlot'
    BY <1>0, <1>1, <2>2 DEF Rest, OnePerSlot
  <2>7. ScanSound'
    BY <1>0, <1>1, <2>2, <2>3, ScanSoundKept DEF ScanSound
  <2> QED
    BY <2>3, <2>4, <2>5, <2>6, <2>7, SameTablesKeep DEF Inv
<1> QED
  BY <1>2, <1>3 DEF EidUnanswered, EidAnswered

\* The EID that is taken from the pool is one that nobody holds.
LEMMA AssignEidKeeps ==
    ASSUME Inv, step = "getUuid", NoteOrphans, NEW u \in Uuids,
           UNCHANGED <<at, devEid, todo, rootDeviceMap>>,
           NEW interfaces \in SUBSET PoolEids, AssignEid(u, interfaces)
    PROVE  Inv'
<1>0. /\ Tables /\ Rest /\ OnePerSlot /\ ScanSound
      /\ DeviceTableIsOneToOne /\ RegSound /\ Located
  BY DEF Inv
<1>1. ignoreList' = ignoreList \/ ignoreList' = ignoreList \cup {reg.slot}
  BY DEF AssignEid, CountInit
<1>2. CASE Fail(eidPool, assigned, interfaces)
  BY <1>0, <1>1, <1>2, FailKeeps DEF Tables, Rest, PoolSound, PoolKept
<1>3. ASSUME ignoreList' = ignoreList, reg.eid = Null => Free # {},
             assigned' = IF reg.eid = Null THEN assigned \cup {FirstFree} ELSE assigned,
             reg' = [reg EXCEPT !.uuid = u, !.eid = IF reg.eid = Null THEN FirstFree ELSE @],
             endpointInterface' = interfaces, step' = "setEid",
             UNCHANGED <<eidPool, uuidTable, smbusDeviceTable>>
      PROVE  Inv'
  <2>1. reg.eid = Null => FirstFree \in PoolEids \ assigned
    <3>1. SUFFICES ASSUME Free # {} PROVE FirstFree \in PoolEids \ assigned
      BY <1>3
    <3>2. eidPool \in Seq(PoolEids) /\ Free \subseteq Nat /\ Free \subseteq DOMAIN eidPool
      BY <1>0, LenProperties DEF Tables, PoolSound, Free
    <3>3. \E i \in Free : \A j \in Free : i <= j
      BY <3>1, <3>2, Least
    <3>4. \E i \in Free : FirstFree = eidPool[i]
      BY <3>3 DEF FirstFree
    <3>5. \A i \in Free : eidPool[i] \in PoolEids \ assigned
      BY <3>2, LenProperties DEF Free
    <3> QED
      BY <3>4, <3>5
  <2> DEFINE e == IF reg.eid = Null THEN FirstFree ELSE reg.eid
  <2>2. e \in PoolEids /\ e \in Eids
    BY <1>0, <2>1, NullFacts DEF Rest, Registration, Eids
  <2> HIDE DEF e
  <2>3. /\ reg' \in Registration /\ reg'.slot = reg.slot /\ reg'.registeredEid = reg.registeredEid
        /\ reg'.eid = e /\ reg'.reported = reg.reported
    <3>1. reg' = [reg EXCEPT !.uuid = u, !.eid = e]
      BY <1>0, <1>3 DEF e, Rest, Registration
    <3> QED
      BY <1>0, <2>2, <3>1 DEF Rest, Registration
  <2>4. Tables'
    BY <1>0, <1>3, <2>1 DEF Tables, PoolSound, PoolKept
  <2>5. DeviceTableIsOneToOne'
    BY <1>0, <1>3 DEF DeviceTableIsOneToOne
  <2>6. RegSound'
    BY <1>0, <1>3, <2>2, <2>3 DEF RegSound
  <2>7. Located'
    <3>1. ASSUME ~ orphaned', NEW f \in {e, reg.reported} \ {Null}
          PROVE  /\ f \in assigned'
                 /\ \A x \in Devices : devEid[x] = f => Answers(x, reg.slot)
                 /\ \A t \in smbusDeviceTable : t.eid = f => t.slot = reg.slot
      <4>1. ~ orphaned /\ assigned \subseteq assigned'
        BY <1>3, <3>1, NotOrphaned
      <4>2. CASE f \in {reg.eid, reg.reported}
        BY <1>0, <3>1, <4>1, <4>2 DEF Located
      <4>3. CASE reg.eid = Null /\ f = FirstFree
        <5>1. f \in assigned' /\ f \notin assigned /\ f # Null
          BY <1>3, <2>1, <4>3, NullFacts
        <5> QED
          BY <1>0, <4>1, <5>1 DEF Located
      <4> QED
        BY <3>1, <4>2, <4>3 DEF e
    <3>2. assigned \subseteq assigned'
      BY <1>3
    <3> QED
      BY <1>0, <1>3, <2>3, <3>1, <3>2, LocatedKept
  <2>8. Rest' /\ OnePerSlot'
    BY <1>0, <2>3 DEF Rest, OnePerSlot
  <2>9. ScanSound'
    BY <1>0, <1>3, <2>3, ScanSoundKept DEF ScanSound
  <2> QED
    BY <2>4, <2>5, <2>6, <2>7, <2>8, <2>9 DEF Inv
<1> QED
  BY <1>2, <1>3 DEF AssignEid

\* Get Endpoint UUID: the endpoint is found registered, or goes on to an EID.
LEMMA UuidStep ==
    Inv /\ (UuidUnanswered \/ \E d \in Devices : UuidAnswered(d)) => Inv'
<1>1. ASSUME Inv, NEW d \in Devices, UuidAnswered(d) PROVE Inv'
  <2>0. /\ step = "getUuid" /\ NoteOrphans /\ d \in Devices \ NoUuid
        /\ UNCHANGED <<at, devEid, todo, rootDeviceMap>>
        /\ uuidTable \in Seq(Entry) /\ endpointInterface \in SUBSET PoolEids
    BY <1>1 DEF UuidAnswered, deviceVars, rootVars, Inv, Tables
  <2>1. MappedEids(d) \subseteq PoolEids
    <3>1. \A i \in 1 .. Len(uuidTable) : uuidTable[i].eid \in PoolEids
      <4>1. \A i \in 1 .. Len(uuidTable) : uuidTable[i] \in Entry
        BY <2>0, LenProperties
      <4> QED
        BY <4>1 DEF Entry
    <3> QED
      BY <3>1 DEF MappedEids
  <2>2. CASE AssignEid(d, endpointInterface \ MappedEids(d))
    BY <1>1, <2>0, <2>2, AssignEidKeeps DEF Uuids
  <2>3. CASE /\ reg.reported \in MappedEids(d) /\ Succeed(reg.reported)
             /\ UNCHANGED <<eidPool, assigned, uuidTable, endpointInterface, watcherVars>>
    BY <1>1, <2>0, <2>1, <2>3, SucceedKeeps DEF deviceVars, watcherVars
  <2> QED
    BY <1>1, <2>2, <2>3 DEF UuidAnswered
<1>2. ASSUME Inv, UuidUnanswered PROVE Inv'
  <2>0. /\ step = "getUuid" /\ NoteOrphans /\ None \in Uuids
        /\ UNCHANGED <<at, devEid, todo, rootDeviceMap>>
        /\ uuidTable \in Seq(Entry) /\ endpointInterface \in SUBSET PoolEids
    BY <1>2 DEF UuidUnanswered, deviceVars, rootVars, Inv, Tables, Uuids
  <2>1. CASE AssignEid(None, endpointInterface \ {reg.eid})
    BY <1>2, <2>0, <2>1, AssignEidKeeps
  <2>2. CASE /\ reg.reported \in endpointInterface /\ Succeed(reg.reported)
             /\ UNCHANGED <<eidPool, assigned, uuidTable, endpointInterface, watcherVars>>
    BY <1>2, <2>0, <2>2, SucceedKeeps DEF deviceVars, watcherVars
  <2> QED
    BY <1>2, <2>1, <2>2 DEF UuidUnanswered
<1> QED
  BY <1>1, <1>2

\* Set Endpoint ID gives an EID that no other device holds, or orphans it.
LEMMA SetEidStep ==
    Inv /\ (SetEidUnanswered \/ \E d \in Devices : SetEidAnswered(d)) => Inv'
<1> SUFFICES ASSUME Inv, SetEidUnanswered \/ \E d \in Devices : SetEidAnswered(d) PROVE Inv'
  OBVIOUS
<1>0. /\ Tables /\ Rest /\ OnePerSlot /\ ScanSound
      /\ DeviceTableIsOneToOne /\ RegSound /\ Located
  BY DEF Inv
<1>1. /\ step = "setEid" /\ NoteOrphans /\ UNCHANGED <<at, ignoreList, todo, rootDeviceMap>>
      /\ reg.eid \in PoolEids /\ reg.slot \in Slots
  BY <1>0 DEF SetEidUnanswered, SetEidAnswered, watcherVars, rootVars, RegSound
<1>2. /\ MovedToBack(reg.eid) \in Seq(PoolEids) /\ IsInjective(MovedToBack(reg.eid))
      /\ ToSet(MovedToBack(reg.eid)) = PoolEids
  <2>1. /\ eidPool \in Seq(PoolEids) /\ IsInjective(eidPool) /\ ToSet(eidPool) = PoolEids
        /\ reg.eid \in ToSet(eidPool)
    BY <1>0, <1>1 DEF Tables, PoolSound, PoolKept
  <2> QED
    BY <1>1, <2>1, PutLastFacts DEF MovedToBack
<1>3. ASSUME SetEidUnanswered PROVE Inv'
  <2>1. Fail(MovedToBack(reg.eid), assigned \ {reg.eid}, endpointInterface)
    BY <1>3 DEF SetEidUnanswered
  <2>2. /\ endpointInterface \in SUBSET PoolEids
        /\ assigned \ {reg.eid} \in SUBSET PoolEids
        /\ devEid \in [Devices -> Eids] /\ reg.eid \in Eids /\ reg.eid # Null
    BY <1>0, <1>1, NullFacts DEF Tables, Rest
  <2>3. devEid' \in [Devices -> Eids]
    BY <1>3, <2>2 DEF SetEidUnanswered
  <2>4. reg.eid \notin assigned'
    BY <2>1 DEF Fail
  <2>5. devEid' = devEid \/ orphaned'
    <3>1. CASE devEid' = devEid
      BY <3>1
    <3>2. ASSUME NEW d \in DeviceAt(reg.slot), devEid' = [devEid EXCEPT ![d] = reg.eid]
          PROVE  orphaned'
      <4>1. d \in Devices /\ devEid'[d] = reg.eid
        BY <2>2, <3>2 DEF DeviceAt
      <4> QED
        BY <1>1, <2>2, <2>4, <4>1 DEF NoteOrphans
    <3> QED
      BY <1>3, <3>1, <3>2 DEF SetEidUnanswered
  <2> QED
    BY <1>1, <1>2, <2>1, <2>2, <2>3, <2>5, FailKeeps
<1>4. ASSUME NEW d \in Devices, SetEidAnswered(d) PROVE Inv'
  <2>1. /\ Answers(d, reg.slot) /\ devEid' = [devEid EXCEPT ![d] = reg.eid]
        /\ eidPool' = MovedToBack(reg.eid) /\ assigned' = assigned \cup {reg.eid}
        /\ step' = "getMsgType" /\ UNCHANGED <<uuidTable, endpointInterface, smbusDeviceTable, reg>>
    BY <1>1, <1>4 DEF SetEidAnswered, DeviceAt
  <2>2. Tables'
    BY <1>0, <1>1, <1>2, <2>1 DEF Tables, PoolSound, PoolKept
  <2>3. Rest' /\ OnePerSlot' /\ ScanSound' /\ DeviceTableIsOneToOne' /\ RegSound'
    <3>1. devEid' \in [Devices -> Eids]
      BY <1>0, <1>1, <2>1, NullFacts DEF Rest
    <3>2. ScanSound'
      BY <1>0, <1>1, <2>1, ScanSoundKept DEF ScanSound
    <3> QED
      BY <1>0, <1>1, <2>1, <3>1, <3>2 DEF Rest, OnePerSlot, DeviceTableIsOneToOne, RegSound
  <2>4. Located'
    <3>1. \A x \in Devices : devEid'[x] = IF x = d THEN reg.eid ELSE devEid[x]
      BY <1>0, <2>1 DEF Rest
    <3>2. ASSUME ~ orphaned', NEW x \in Devices, devEid'[x] = reg.eid PROVE x = d
      <4>1. CASE devEid[x] = reg.eid
        <5>1. Answers(x, reg.slot)
          BY <1>0, <1>1, <3>2, <4>1, NotOrphaned, NullFacts DEF Located
        <5> QED
          BY <1>0, <2>1, <5>1, OneAnswers
      <4> QED
        BY <3>1, <3>2, <4>1
    <3>3. ASSUME ~ orphaned'
          PROVE  \A x, y \in Devices : devEid'[x] # Null /\ devEid'[x] = devEid'[y] => x = y
      BY <1>0, <1>1, <3>1, <3>2, <3>3, NotOrphaned DEF Located
    <3>4. ASSUME ~ orphaned', NEW x \in Devices
          PROVE  \A t \in smbusDeviceTable : devEid'[x] = t.eid => Answers(x, t.slot)'
      <4>0. \A u, q : Answers(u, q)' <=> Answers(u, q)
        BY <1>1, SamePlaces
      <4>1. CASE x = d
        BY <1>0, <1>1, <2>1, <3>1, <3>4, <4>0, <4>1, NotOrphaned, NullFacts DEF Located
      <4>2. CASE x # d
        BY <1>0, <1>1, <3>1, <3>4, <4>0, <4>2, NotOrphaned DEF Located
      <4> QED
        BY <4>1, <4>2
    <3>5. ASSUME ~ orphaned', NEW e \in {reg.eid, reg.reported} \ {Null}
          PROVE  /\ e \in assigned
                 /\ \A x \in Devices : devEid'[x] = e => Answers(x, reg.slot)'
                 /\ \A t \in smbusDeviceTable : t.eid = e => t.slot = reg.slot
      BY <1>0, <1>1, <2>1, <3>1, <3>5, NotOrphaned, SamePlaces DEF Located
    <3>6. ASSUME ~ orphaned'
          PROVE  \A t \in smbusDeviceTable : t.eid \in assigned
      BY <1>0, <1>1, <3>6, NotOrphaned DEF Located
    <3>7. ASSUME ~ orphaned'
          PROVE  \A x \in Devices : devEid'[x] # Null => devEid'[x] \in assigned'
      BY <1>1, <3>7, NotOrphaned
    <3> QED
      BY <1>1, <2>1, <3>3, <3>4, <3>5, <3>6, <3>7 DEF Located
  <2> QED
    BY <2>2, <2>3, <2>4 DEF Inv
<1> QED
  BY <1>3, <1>4

\* The endpoint is published, or its registration fails.
LEMMA MsgTypeStep ==
    Inv /\ (MsgTypeUnanswered \/ \E d \in Devices : MsgTypeAnswered(d)) => Inv'
<1> SUFFICES ASSUME Inv, MsgTypeUnanswered \/ \E d \in Devices : MsgTypeAnswered(d) PROVE Inv'
  OBVIOUS
<1>0. /\ Tables /\ Rest /\ OnePerSlot /\ ScanSound
      /\ DeviceTableIsOneToOne /\ RegSound /\ Located
  BY DEF Inv
<1>1. /\ step = "getMsgType" /\ NoteOrphans /\ UNCHANGED <<at, devEid, deviceVars, ignoreList>>
      /\ UNCHANGED <<todo, rootDeviceMap>> /\ reg.eid \in PoolEids /\ reg.uuid \in Uuids
      /\ uuidTable \in Seq(Entry) /\ endpointInterface \in SUBSET PoolEids
  BY <1>0 DEF MsgTypeUnanswered, MsgTypeAnswered, deviceVars, watcherVars, rootVars, RegSound,
              Rest, Registration, Tables
<1>2. CASE Fail(eidPool, assigned, endpointInterface)
  BY <1>0, <1>1, <1>2, FailKeeps DEF Tables, Rest, PoolSound, PoolKept
<1>3. ASSUME endpointInterface' = endpointInterface \cup {reg.eid},
             uuidTable' = IF reg.uuid = None THEN uuidTable
                          ELSE Append(uuidTable, [eid |-> reg.eid, uuid |-> reg.uuid]),
             Succeed(reg.eid), UNCHANGED <<eidPool, assigned>>
      PROVE  Inv'
  <2>1. reg.uuid # None => [eid |-> reg.eid, uuid |-> reg.uuid] \in Entry
    BY <1>1 DEF Entry, Uuids
  <2>2. uuidTable' \in Seq(Entry)
    BY <1>1, <1>3, <2>1, AppendProperties
  <2> QED
    BY <1>1, <1>3, <2>2, SucceedKeeps
<1> QED
  BY <1>2, <1>3 DEF MsgTypeUnanswered, MsgTypeAnswered

-----------------------------------------------------------------------------
(***************************************************************************)
(* What happens to the devices and to the daemon.                          *)
(***************************************************************************)
\* A device that comes, goes or is reset loses its EID.
LEMMA DeviceEventStep == Inv /\ DeviceEvent => Inv'
<1> SUFFICES ASSUME Inv, DeviceEvent PROVE Inv'
  OBVIOUS
<1>0. /\ Tables /\ Rest /\ OnePerSlot /\ ScanSound
      /\ DeviceTableIsOneToOne /\ RegSound /\ Located
  BY DEF Inv
<1>1. /\ SameTables /\ NoteOrphans
      /\ UNCHANGED <<smbusDeviceTable, assigned, ignoreList, step, reg, todo, rootDeviceMap>>
  BY DEF DeviceEvent, SameTables, tableVars, watcherVars, scanVars, rootVars
<1>2. PICK d \in Devices : (\E s \in Slots : Plug(d, s)) \/ Unplug(d) \/ Reset(d)
  BY DEF DeviceEvent
<1>3. /\ devEid' = [devEid EXCEPT ![d] = Null]
      /\ at' \in [Devices -> Slots \cup {None}]
      /\ \A x \in Devices \ {d} : at'[x] = at[x]
      /\ \/ at'[d] \in {at[d], None}
         \/ \A x \in Devices : at[x] # None => ~ Clash(at[x], at'[d])
  <2>1. CASE \E s \in Slots : Plug(d, s)
    <3>1. PICK s \in Slots : Plug(d, s)
      BY <2>1
    <3> QED
      BY <1>0, <3>1 DEF Plug, Rest
  <2>2. CASE Unplug(d)
    BY <1>0, <2>2 DEF Unplug, Rest
  <2>3. CASE Reset(d)
    BY <1>0, <2>3 DEF Reset, Rest
  <2> QED
    BY <1>2, <2>1, <2>2, <2>3
<1>4. \A x \in Devices : devEid'[x] = IF x = d THEN Null ELSE devEid[x]
  BY <1>0, <1>3 DEF Rest
<1>5. Rest'
  BY <1>0, <1>1, <1>3 DEF Rest, Eids
<1>6. OnePerSlot'
  <2>1. \A s, u : Clash(s, u) => Clash(u, s)
    BY DEF Clash
  <2>2. ASSUME NEW x \in Devices, NEW y \in Devices, x # y, at'[x] # None, at'[y] # None
        PROVE  ~ Clash(at'[x], at'[y])
    BY <1>0, <1>3, <2>1, <2>2 DEF OnePerSlot
  <2> QED
    BY <2>2 DEF OnePerSlot, Clash
<1>7. RegSound'
  BY <1>0, <1>1 DEF RegSound
<1>8. Located'
  <2>1. \A t \in smbusDeviceTable : t.eid # Null
    BY <1>0, NullFacts DEF Tables
  <2>2. ASSUME ~ orphaned', NEW x \in Devices, devEid'[x] # Null
        PROVE  x # d /\ devEid'[x] = devEid[x] /\ at'[x] = at[x]
    BY <1>3, <1>4, <2>2
  <2>3. ASSUME ~ orphaned', NEW x \in Devices, devEid'[x] # Null, NEW s, Answers(x, s)
        PROVE  Answers(x, s)'
    BY <2>2, <2>3 DEF Answers, Clash
  <2> QED
    BY <1>0, <1>1, <2>1, <2>2, <2>3, NotOrphaned DEF Located
<1>9. ScanSound'
  BY <1>0, <1>1, ScanSoundKept DEF ScanSound
<1> QED
  BY <1>1, <1>5, <1>6, <1>7, <1>8, <1>9, SameTablesKeep DEF Inv

\* A restart forgets the tables; what devices still hold is orphaned.
LEMMA RestartStep == Inv /\ Restart => Inv'
<1> SUFFICES ASSUME Inv, Restart PROVE Inv'
  OBVIOUS
<1>1. /\ NoteOrphans /\ UNCHANGED <<at, devEid>> /\ eidPool' \in InitialPool
      /\ assigned' = {} /\ uuidTable' = <<>> /\ endpointInterface' = {}
      /\ smbusDeviceTable' = {} /\ step' = "idle" /\ reg' = NoRegistration
      /\ todo' = {} /\ rootDeviceMap' \in SUBSET RootSlots
  BY DEF Restart, deviceVars, FoundOnRoot
<1>2. Tables'
  BY <1>1, InitialPoolSound, EmptySeq DEF Tables, PoolSound, PoolKept
<1>3. Rest' /\ OnePerSlot' /\ ScanSound' /\ DeviceTableIsOneToOne' /\ RegSound'
  BY <1>1, NullFacts DEF Inv, Rest, OnePerSlot, ScanSound, DeviceTableIsOneToOne, RegSound
<1>4. Located'
  BY <1>1, NotOrphaned DEF Inv, Located
<1> QED
  BY <1>2, <1>3, <1>4 DEF Inv

\* What the daemon starts from.
LEMMA StartsSound == Init => Inv
<1> SUFFICES ASSUME Init PROVE Inv
  OBVIOUS
<1>1. Tables
  BY InitialPoolSound, EmptySeq DEF Init, Tables, PoolSound, PoolKept
<1>2. Rest /\ OnePerSlot
  BY NullFacts DEF Init, Rest, OnePerSlot, Eids, FoundOnRoot
<1>3. ScanSound /\ DeviceTableIsOneToOne /\ RegSound
  BY DEF Init, ScanSound, DeviceTableIsOneToOne, RegSound
<1>4. Located
  BY DEF Init, Located
<1> QED
  BY <1>1, <1>2, <1>3, <1>4 DEF Inv

\* Every step keeps the invariant.
LEMMA InvIsKept == Inv /\ [Next]_vars => Inv'
<1>1. ASSUME Inv, UNCHANGED vars PROVE Inv'
  <2>1. UNCHANGED <<at, devEid, eidPool, assigned, uuidTable, endpointInterface,
                    smbusDeviceTable, ignoreList, todo, step, reg, rootDeviceMap, orphaned>>
    BY <1>1 DEF vars, deviceVars, tableVars, watcherVars, scanVars, rootVars
  <2>2. /\ \A d, s : Answers(d, s)' <=> Answers(d, s)
        /\ \A s : Scanned(s)' <=> Scanned(s)
    BY <2>1, SamePlaces
  <2> QED
    BY <1>1, <2>1, <2>2 DEF Inv, Tables, PoolSound, PoolKept, Rest, OnePerSlot, ScanSound,
                            DeviceTableIsOneToOne, RegSound, Located
<1>2. Inv /\ Scan => Inv'
  BY StartScanStep, NextDeviceStep, EidStep, UuidStep, SetEidStep, MsgTypeStep DEF Scan
<1> QED
  BY <1>1, <1>2, DeviceEventStep, RestartStep DEF Next

\* The invariant holds throughout.
LEMMA Invariant == Spec => []Inv
  BY StartsSound, InvIsKept, PTL DEF Spec

\* Whatever is given out, taken back, refused or forgotten, the EID pool
\* (eid_pool.cpp) has each EID that was configured exactly once.
THEOREM PoolIsKept == Spec => []PoolKept
<1>1. Inv => PoolKept
  BY DEF Inv, Tables, PoolSound
<1> QED
  BY <1>1, Invariant, PTL

\* In smbusDeviceTable an EID has one slot and a slot one EID, and no slot
\* is one that the device watcher ignores.
THEOREM DeviceTableStaysOneToOne == Spec => []DeviceTableIsOneToOne
<1>1. Inv => DeviceTableIsOneToOne
  BY DEF Inv
<1> QED
  BY <1>1, Invariant, PTL

\* An EID is held by two devices only after one that was held was freed or
\* forgotten: Set Endpoint ID never gives out what is in use and known to be.
THEOREM SharedEidsWereOrphaned == Spec => []SharedOnlyAfterOrphan
<1>1. Inv => SharedOnlyAfterOrphan
  BY DEF Inv, Located, SharedOnlyAfterOrphan
<1> QED
  BY <1>1, Invariant, PTL
=============================================================================
