------------------------- MODULE PldmTerminusProofs -------------------------
(***************************************************************************)
(* pldmd keeps the TIDs of its termini apart and follows the termini, for  *)
(* any termini, endpoints, coroutines and pool, and any number of changes  *)
(* and faults.                                                             *)
(*                                                                         *)
(* A step either leaves the TIDs and who has them alone, or is one of a    *)
(* few that StepKinds lists.  What holds of the TIDs as long as none was   *)
(* given twice is TidsApart, which is inductive with OncePerEid; what      *)
(* becomes of an endpoint until it is registered and monitored rests on it.*)
(***************************************************************************)
EXTENDS PldmTerminus, SequenceTheorems, FiniteSetTheorems, WellFoundedInduction, TLAPS

-----------------------------------------------------------------------------
(***************************************************************************)
(* The pool.                                                               *)
(***************************************************************************)
\* A set of natural numbers has a least one.
LEMMA Least ==
    ASSUME NEW S, S \subseteq Nat, S # {}
    PROVE  \E n \in S : \A m \in S : n <= m
<1>1. IsWellFoundedOn(OpToRel(<, Nat), Nat)
  BY NatLessThanWellFounded
<1>2. PICK n \in S : \A m \in S : ~ (<<m, n>> \in OpToRel(<, Nat))
  BY <1>1, WFMin
<1>3. \A m \in S : ~ (m < n)
  BY <1>2, Zenon DEF OpToRel
<1> QED
  BY <1>3

PoolOK == pool \in Seq(Tids) /\ ToSet(pool) = Tids /\ Len(pool) = MaxTid

\* A TID that getFreeTID finds is not flagged.
LEMMA FirstFreeIsFree ==
    ASSUME PoolOK, MaxTid \in Nat, Free # {}
    PROVE  FirstFree \in Tids \ used
<1>1. DOMAIN pool = 1 .. MaxTid /\ \A k \in 1 .. MaxTid : pool[k] \in Tids
  BY LenProperties DEF PoolOK
<1>2. Free \subseteq Nat
  BY <1>1 DEF Free
<1>3. \E k \in Free : \A n \in Free : k <= n
  BY <1>2, Least
<1>4. \E k \in Free : FirstFree = pool[k]
  BY <1>3, Zenon DEF FirstFree
<1> QED
  BY <1>1, <1>4 DEF Free

\* The pool keeps its TIDs when one goes to the back.
LEMMA PutLastKeeps ==
    ASSUME PoolOK, MaxTid \in Nat, NEW t \in Tids
    PROVE  /\ PutLast(t) \in Seq(Tids) /\ ToSet(PutLast(t)) = Tids
           /\ Len(PutLast(t)) = MaxTid
<1> DEFINE n == MaxTid
           place == CHOOSE k \in 1 .. n : pool[k] = t
           p == [k \in 1 .. n |-> IF k < place THEN pool[k]
                                  ELSE IF k < n THEN pool[k + 1] ELSE t]
<1>1. /\ DOMAIN pool = 1 .. n /\ \A k \in 1 .. n : pool[k] \in Tids
      /\ {pool[k] : k \in 1 .. n} = Tids
  BY LenProperties DEF PoolOK, ToSet
<1>2. place \in 1 .. n /\ pool[place] = t
  <2>1. \E k \in 1 .. n : pool[k] = t
    BY <1>1
  <2> QED
    BY <2>1, Zenon
<1>3. PutLast(t) = p
  BY DEF PutLast, PoolOK
<1> HIDE DEF place
<1>4. p \in [1 .. n -> Tids]
  BY <1>1, <1>2
<1>5. p \in Seq(Tids) /\ Len(p) = n /\ DOMAIN p = 1 .. n
  <2>1. p \in Seq(Tids)
    <3> HIDE DEF p
    <3> QED
      BY <1>4, SeqDef
  <2> QED
    BY <1>4, <2>1, LenProperties
<1>6. \A k \in 1 .. n : \E m \in 1 .. n : p[m] = pool[k]
  <2> SUFFICES ASSUME NEW k \in 1 .. n PROVE \E m \in 1 .. n : p[m] = pool[k]
    OBVIOUS
  <2>1. CASE k < place
    BY <1>2, <2>1
  <2>2. CASE k = place
    BY <1>2, <2>2
  <2>3. CASE place < k
    <3>1. k - 1 \in 1 .. n /\ ~ (k - 1 < place) /\ k - 1 < n /\ (k - 1) + 1 = k
      BY <1>2, <2>3
    <3> QED
      BY <3>1
  <2> QED
    BY <1>2, <2>1, <2>2, <2>3
<1>7. ToSet(p) = Tids
  <2>1. ToSet(p) = {p[m] : m \in 1 .. n}
    BY <1>5, Zenon DEF ToSet
  <2> HIDE DEF p
  <2> QED
    BY ZenonT(40), <1>1, <1>4, <1>6, <2>1
<1> QED
  BY <1>3, <1>5, <1>7

-----------------------------------------------------------------------------
(***************************************************************************)
(* Types: a coroutine that waits knows its endpoint, and one that has a    *)
(* TID to give has one of the pool.                                        *)
(***************************************************************************)
Sound(r) ==
    /\ r.pc # "idle" => r.eid \in Eids
    /\ r.pc \in {"setTid", "tidSet", "platform"} => r.tid \in Tids

Types == TypeOK /\ \A i \in Coroutines : Sound(co[i])

\* The constants, as the proofs use them.
LEMMA Constants ==
    /\ MaxTid \in Nat /\ MaxChanges \in Nat /\ MaxFaults \in Nat
    /\ Main \in Coroutines /\ None \notin Termini /\ None \notin Eids
    /\ NoUuid \subseteq Termini /\ Tids \subseteq Nat \ {0}
    /\ Tids = (0 .. MaxTid) \ {0}
BY PldmTerminusAssumption DEF PldmTerminusAssumption, Tids

\* One coroutine goes on.
LEMMA CoroutineTypes ==
    ASSUME Types, NEW i \in Coroutines, NEW r \in Coroutine, Sound(r),
           co' = [co EXCEPT ![i] = r]
    PROVE  co' \in [Coroutines -> Coroutine] /\ \A j \in Coroutines : Sound(co'[j])
<1>1. co \in [Coroutines -> Coroutine] /\ \A j \in Coroutines : Sound(co[j])
  BY DEF Types, TypeOK
<1>2. \A j \in Coroutines : co'[j] = IF j = i THEN r ELSE co[j]
  BY <1>1
<1> QED
  BY <1>1, <1>2

LEMMA IdleIsSound == Idle \in Coroutine /\ Sound(Idle)
BY Constants DEF Idle, Coroutine, Sound

\* What Register and ChooseTid set, apart from irregular
ChoiceTypes ==
    /\ pool' \in Seq(Tids) /\ ToSet(pool') = Tids /\ Len(pool') = MaxTid
    /\ used' \in SUBSET Tids
    /\ uuidMapping' \in [Termini -> 0 .. MaxTid]
    /\ tidReclaimWindowTimers' \in SUBSET Tids
    /\ tidMap' \in [Tids -> Eids \cup {None}]
    /\ discoveryDataTable' \in [Tids -> SUBSET {"base", "platform"}]
    /\ tidsUnderInitialization' \in SUBSET Tids
    /\ platforms' \in SUBSET Tids
    /\ co' \in [Coroutines -> Coroutine] /\ \A j \in Coroutines : Sound(co'[j])

LEMMA RegisterTypes ==
    ASSUME Types, NEW i \in Coroutines, NEW c \in Coroutine, c.eid \in Eids, c.tid \in Tids,
           NEW inUse \in SUBSET Tids, Register(i, c, inUse),
           pool' = pool, tidReclaimWindowTimers' \in SUBSET Tids
    PROVE  ChoiceTypes
<1>1. TypeOK
  BY DEF Types
<1> DEFINE r == [c EXCEPT !.pc = "platform"]
<1>2. r \in Coroutine /\ Sound(r)
  BY DEF Coroutine, Sound
<1>3. CASE c.eid \in Mapped
  <2>1. /\ used' = inUse \ {c.tid} /\ co' = [co EXCEPT ![i] = Idle]
        /\ UNCHANGED <<mapVars, uuidMapping, platformVars>>
    BY <1>3 DEF Register, End
  <2>2. co' \in [Coroutines -> Coroutine] /\ \A j \in Coroutines : Sound(co'[j])
    BY <2>1, CoroutineTypes, IdleIsSound
  <2> QED
    BY <1>1, <2>1, <2>2 DEF ChoiceTypes, TypeOK, mapVars, platformVars
<1>4. CASE c.eid \notin Mapped
  <2>1. /\ used' = inUse
        /\ tidMap' = [tidMap EXCEPT ![c.tid] = c.eid]
        /\ discoveryDataTable' = [discoveryDataTable EXCEPT ![c.tid] = c.tables]
        /\ uuidMapping' = [d \in Termini |->
                               IF d = c.uuid /\ uuidMapping[d] = 0 THEN c.tid
                               ELSE uuidMapping[d]]
        /\ \/ co' = [co EXCEPT ![i] = r] /\ BeginPlatformInit(c.tid)
           \/ co' = [co EXCEPT ![i] = Idle] /\ UNCHANGED platformVars
    BY <1>4 DEF Register, End
  <2>2. co' \in [Coroutines -> Coroutine] /\ \A j \in Coroutines : Sound(co'[j])
    <3> HIDE DEF r
    <3> QED
      BY <1>2, <2>1, CoroutineTypes, IdleIsSound
  <2>3. c.tid \in 0 .. MaxTid /\ c.tables \in SUBSET {"base", "platform"}
    BY Constants DEF Coroutine
  <2>4. /\ uuidMapping' \in [Termini -> 0 .. MaxTid]
        /\ tidMap' \in [Tids -> Eids \cup {None}]
        /\ discoveryDataTable' \in [Tids -> SUBSET {"base", "platform"}]
    BY <1>1, <2>1, <2>3 DEF TypeOK
  <2>5. platforms' \in SUBSET Tids /\ tidsUnderInitialization' \in SUBSET Tids
    BY <1>1, <2>1 DEF TypeOK, platformVars, BeginPlatformInit
  <2> QED
    BY <1>1, <2>1, <2>2, <2>4, <2>5 DEF ChoiceTypes, TypeOK
<1> QED
  BY <1>3, <1>4

LEMMA SendTypes ==
    ASSUME Types, NEW i \in Coroutines, NEW c \in Coroutine, c.eid \in Eids, c.tid \in Tids,
           NEW inUse \in SUBSET Tids, SendSetTid(i, c, inUse),
           pool' = pool, tidReclaimWindowTimers' \in SUBSET Tids
    PROVE  ChoiceTypes
<1>1. CASE "base" \in c.tables
  <2> DEFINE r == [c EXCEPT !.pc = "setTid"]
  <2>1. r \in Coroutine /\ Sound(r)
    BY DEF Coroutine, Sound
  <2>2. /\ co' = [co EXCEPT ![i] = r] /\ used' = inUse
        /\ UNCHANGED <<mapVars, uuidMapping, platformVars>>
    BY <1>1 DEF SendSetTid
  <2>3. co' \in [Coroutines -> Coroutine] /\ \A j \in Coroutines : Sound(co'[j])
    <3> HIDE DEF r
    <3> QED
      BY <2>1, <2>2, CoroutineTypes
  <2> QED
    BY <2>2, <2>3 DEF ChoiceTypes, Types, TypeOK, mapVars, platformVars
<1>2. CASE "base" \notin c.tables
  BY <1>2, RegisterTypes DEF SendSetTid
<1> QED
  BY <1>1, <1>2

-----------------------------------------------------------------------------
(***************************************************************************)
(* What ChooseTid does: it gives up, or takes a TID for the terminus.      *)
(***************************************************************************)
GivesUp(i, c) ==
    /\ End(i)
    /\ UNCHANGED <<tidVars, mapVars, platformVars>>
    /\ \/ /\ DeviceAlreadyRegistered(c)
          /\ PrevTid(c) \in Registered \cup BeingSet => "moved" \in irregular'
          /\ unlucky' = unlucky
       \/ unlucky' = unlucky \cup {c.eid}

\* A free TID, or the one that is kept for the UUID
Takes(c, t, inUse) ==
    \/ /\ PrevTid(c) = 0
       /\ t \notin used /\ inUse = used \cup {t}
       /\ tidReclaimWindowTimers' = tidReclaimWindowTimers
    \/ /\ PrevTid(c) = t
       /\ inUse = used
       /\ tidReclaimWindowTimers' = tidReclaimWindowTimers \ {t}
       /\ t \in expired => "race" \in irregular'
       /\ t \in Registered \cup BeingSet => "moved" \in irregular'

LEMMA Chosen ==
    ASSUME Types, NEW i \in Coroutines, NEW c \in Coroutine, c.eid \in Eids,
           ChooseTid(i, c)
    PROVE  /\ irregular \subseteq irregular' /\ irregular' \in SUBSET Irregularities
           /\ \/ GivesUp(i, c)
              \/ /\ pool' = pool /\ unlucky' = unlucky
                 /\ \E t \in Tids, inUse \in SUBSET Tids :
                       Takes(c, t, inUse) /\ SendSetTid(i, [c EXCEPT !.tid = t], inUse)
<1>1. PoolOK /\ used \in SUBSET Tids /\ irregular \in SUBSET Irregularities
  BY DEF Types, TypeOK, PoolOK
<1>2. PrevTid(c) \in 0 .. MaxTid
  BY Constants DEF PrevTid, Coroutine, Types, TypeOK
<1>3. irregular \subseteq irregular' /\ irregular' \in SUBSET Irregularities
  BY <1>1 DEF ChooseTid, Irregularities
<1>4. CASE DeviceAlreadyRegistered(c) /\ End(i) /\ UNCHANGED <<tidVars, mapVars, platformVars, unlucky>>
  <2>1. PrevTid(c) \in Registered \cup BeingSet => "moved" \in irregular'
    BY DEF ChooseTid
  <2> QED
    BY <1>3, <1>4, <2>1 DEF GivesUp
<1>5. CASE /\ End(i) /\ unlucky' = unlucky \cup {c.eid}
           /\ UNCHANGED <<tidVars, mapVars, platformVars>>
  BY <1>3, <1>5 DEF GivesUp
<1>6. CASE /\ PrevTid(c) = 0 /\ Free # {}
           /\ SendSetTid(i, [c EXCEPT !.tid = FirstFree], used \cup {FirstFree})
           /\ UNCHANGED <<pool, tidReclaimWindowTimers, unlucky>>
  <2>1. FirstFree \in Tids \ used
    BY <1>1, <1>6, Constants, FirstFreeIsFree
  <2>2. used \cup {FirstFree} \in SUBSET Tids
    BY <1>1, <2>1
  <2>3. Takes(c, FirstFree, used \cup {FirstFree})
    BY <1>6, <2>1 DEF Takes
  <2> QED
    BY <1>3, <1>6, <2>1, <2>2, <2>3
<1>7. CASE /\ PrevTid(c) # 0 /\ ~DeviceAlreadyRegistered(c)
           /\ CancelTIDReclaimTimerIfExists(PrevTid(c))
           /\ SendSetTid(i, [c EXCEPT !.tid = PrevTid(c)], used)
           /\ UNCHANGED <<pool, unlucky>>
  <2>1. PrevTid(c) \in Tids
    BY <1>2, <1>7 DEF Tids
  <2>2. /\ PrevTid(c) \in expired => "race" \in irregular'
        /\ PrevTid(c) \in Registered \cup BeingSet => "moved" \in irregular'
    BY <1>7 DEF ChooseTid
  <2>3. Takes(c, PrevTid(c), used)
    BY <1>7, <2>1, <2>2 DEF Takes, CancelTIDReclaimTimerIfExists
  <2> QED
    BY <1>1, <1>3, <1>7, <2>1, <2>3
<1> QED
  BY <1>4, <1>5, <1>6, <1>7 DEF ChooseTid

LEMMA ChooseTypes ==
    ASSUME Types, NEW i \in Coroutines, NEW c \in Coroutine, c.eid \in Eids,
           ChooseTid(i, c)
    PROVE  ChoiceTypes /\ unlucky' \in SUBSET Eids /\ irregular' \in SUBSET Irregularities
<1>1. TypeOK
  BY DEF Types
<1>2. irregular' \in SUBSET Irregularities
  BY Chosen
<1>3. CASE GivesUp(i, c)
  <2>1. co' \in [Coroutines -> Coroutine] /\ \A j \in Coroutines : Sound(co'[j])
    BY <1>3, CoroutineTypes, IdleIsSound DEF GivesUp, End
  <2>2. /\ unlucky' \in SUBSET Eids
        /\ UNCHANGED <<pool, used, uuidMapping, tidReclaimWindowTimers, tidMap, discoveryDataTable,
                       tidsUnderInitialization, platforms>>
    BY <1>1, <1>3 DEF GivesUp, TypeOK, tidVars, mapVars, platformVars
  <2> QED
    BY <1>1, <1>2, <2>1, <2>2 DEF ChoiceTypes, TypeOK
<1>4. ASSUME NEW t \in Tids, NEW inUse \in SUBSET Tids, Takes(c, t, inUse),
             SendSetTid(i, [c EXCEPT !.tid = t], inUse), pool' = pool, unlucky' = unlucky
      PROVE  ChoiceTypes /\ unlucky' \in SUBSET Eids
  <2> DEFINE d == [c EXCEPT !.tid = t]
  <2>1. d \in Coroutine /\ d.eid \in Eids /\ d.tid \in Tids
    BY Constants DEF Coroutine
  <2>2. tidReclaimWindowTimers' \in SUBSET Tids
    BY <1>1, <1>4 DEF Takes, TypeOK
  <2>3. ChoiceTypes
    <3> HIDE DEF d
    <3>1. SendSetTid(i, d, inUse)
      BY <1>4 DEF d
    <3> QED
      BY <1>4, <2>1, <2>2, <3>1, SendTypes
  <2> QED
    BY <1>1, <1>4, <2>3 DEF TypeOK
<1> QED
  BY <1>2, <1>3, <1>4, Chosen

LEMMA InitTypes == Init => Types
<1> SUFFICES ASSUME Init PROVE Types
  OBVIOUS
<1>1. pool \in Seq(Tids) /\ ToSet(pool) = Tids /\ Len(pool) = MaxTid
  <2>1. pool = [t \in 1 .. MaxTid |-> t] /\ pool \in [1 .. MaxTid -> Tids]
    BY DEF Init, Tids
  <2>2. pool \in Seq(Tids) /\ Len(pool) = MaxTid /\ DOMAIN pool = Tids
    <3>1. pool \in Seq(Tids)
      BY <2>1, Constants, SeqDef
    <3> QED
      BY <2>1, <3>1, Constants, LenProperties DEF Tids
  <2>3. ToSet(pool) = {pool[k] : k \in Tids}
    BY <2>2, Zenon DEF ToSet
  <2> QED
    BY <2>1, <2>2, <2>3 DEF Tids
<1>2. events \in [Eids -> Seq(Event)]
  BY EmptySeq DEF Init
<1>3. co \in [Coroutines -> Coroutine] /\ \A i \in Coroutines : Sound(co[i])
  BY IdleIsSound DEF Init
<1>4. todo \in SUBSET Eids
  BY DEF Init
<1>5. /\ tidOf \in [Termini -> 0 .. MaxTid] /\ uuidMapping \in [Termini -> 0 .. MaxTid]
      /\ changes \in 0 .. MaxChanges /\ faults \in 0 .. MaxFaults
  BY Constants DEF Init
<1>6. /\ tidMap \in [Tids -> Eids \cup {None}]
      /\ discoveryDataTable \in [Tids -> SUBSET {"base", "platform"}]
      /\ eidOf \in [Termini -> Eids \cup {None}]
      /\ used = {} /\ tidReclaimWindowTimers = {} /\ expired = {} /\ unlucky = {} /\ irregular = {}
      /\ tidsUnderInitialization = {} /\ platforms = {}
  BY DEF Init
<1> QED
  BY <1>1, <1>2, <1>3, <1>4, <1>5, <1>6, Zenon DEF Types, TypeOK

\* A callback has come.
LEMMA NextEventFacts ==
    ASSUME Types, NEW e \in Eids, NEW type, NextEvent(e, type)
    PROVE  /\ events' \in [Eids -> Seq(Event)]
           /\ events[e] # <<>> /\ events[e][1] = type
           /\ events'[e] = Tail(events[e])
           /\ Len(events'[e]) = Len(events[e]) - 1
           /\ \A k \in 1 .. Len(events'[e]) : events'[e][k] = events[e][k + 1]
           /\ \A f \in Eids \ {e} : events'[f] = events[f]
<1>1. events \in [Eids -> Seq(Event)]
  BY DEF Types, TypeOK
<1>2. events[e] # <<>> /\ Head(events[e]) = type /\ events' = [events EXCEPT ![e] = Tail(events[e])]
  BY DEF NextEvent
<1> DEFINE s == events[e]
<1>3. s \in Seq(Event) /\ s # <<>>
  BY <1>1, <1>2
<1>4. /\ Head(s) = s[1] /\ Tail(s) \in Seq(Event) /\ Len(Tail(s)) = Len(s) - 1
      /\ \A k \in 1 .. Len(Tail(s)) : Tail(s)[k] = s[k + 1]
  <2> HIDE DEF s
  <2> QED
    BY <1>3, HeadTailProperties
<1>5. events'[e] = Tail(s) /\ \A f \in Eids \ {e} : events'[f] = events[f]
  BY <1>1, <1>2
<1> HIDE DEF s
<1>6. events' \in [Eids -> Seq(Event)]
  BY <1>1, <1>2, <1>4 DEF s
<1> QED
  BY <1>2, <1>4, <1>5, <1>6 DEF s

\* mctpd has signalled another one.
LEMMA AppendFacts ==
    ASSUME Types, NEW e \in Eids, NEW type \in Event,
           events' = [events EXCEPT ![e] = Append(@, type)]
    PROVE  /\ events' \in [Eids -> Seq(Event)]
           /\ Len(events[e]) \in Nat /\ Len(events'[e]) = Len(events[e]) + 1
           /\ events'[e] # <<>> /\ events'[e][Len(events'[e])] = type
           /\ \A k \in 1 .. Len(events[e]) : events'[e][k] = events[e][k]
           /\ \A f \in Eids \ {e} : events'[f] = events[f]
<1>1. events \in [Eids -> Seq(Event)]
  BY DEF Types, TypeOK
<1> DEFINE s == events[e]
<1>2. s \in Seq(Event)
  BY <1>1
<1>3. events'[e] = Append(s, type) /\ \A f \in Eids \ {e} : events'[f] = events[f]
  BY <1>1
<1>4. events' = [events EXCEPT ![e] = Append(s, type)]
  OBVIOUS
<1> HIDE DEF s
<1>5. /\ Append(s, type) \in Seq(Event) /\ Len(s) \in Nat
      /\ Len(Append(s, type)) = Len(s) + 1
      /\ \A k \in 1 .. Len(s) : Append(s, type)[k] = s[k]
      /\ Append(s, type)[Len(s) + 1] = type
  BY <1>2, AppendProperties, LenProperties
<1>6. Append(s, type) # <<>>
  BY <1>5, EmptySeq
<1>7. events' \in [Eids -> Seq(Event)]
  BY <1>1, <1>4, <1>5
<1> QED
  BY <1>3, <1>5, <1>6, <1>7 DEF s

LEMMA NextTypes == Types /\ [Next]_vars => Types'
<1> SUFFICES ASSUME Types, [Next]_vars PROVE Types'
  OBVIOUS
<1> USE Constants
<1>1. TypeOK
  BY DEF Types
<1>2. ASSUME UNCHANGED vars PROVE Types'
  BY <1>1, <1>2 DEF Types, TypeOK, vars, envVars, tidVars, platformVars, mapVars
<1>3. ASSUME NEW d \in Termini, NEW e \in Eids, Plug(d, e) PROVE Types'
  <2>1. events' \in [Eids -> Seq(Event)]
    BY <1>3, AppendFacts DEF Plug, Event
  <2>2. changes' \in 0 .. MaxChanges
    BY <1>1, <1>3 DEF Plug, Change, TypeOK
  <2>3. eidOf' \in [Termini -> Eids \cup {None}] /\ tidOf' \in [Termini -> 0 .. MaxTid]
        /\ unlucky' \in SUBSET Eids
    <3>1. /\ eidOf \in [Termini -> Eids \cup {None}] /\ tidOf \in [Termini -> 0 .. MaxTid]
          /\ unlucky \in SUBSET Eids /\ 0 \in 0 .. MaxTid
      BY <1>1 DEF TypeOK
    <3>2. /\ eidOf' = [eidOf EXCEPT ![d] = e] /\ unlucky' = unlucky \ {e}
          /\ tidOf' = tidOf \/ tidOf' = [tidOf EXCEPT ![d] = 0]
      BY <1>3 DEF Plug
    <3> QED
      BY <3>1, <3>2
  <2> QED
    BY <1>1, <1>3, <2>1, <2>2, <2>3 DEF Plug, Change, Types, TypeOK, tidVars, platformVars, mapVars
<1>4. ASSUME NEW d \in Termini, Unplug(d) PROVE Types'
  <2>1. eidOf[d] \in Eids
    BY <1>1, <1>4 DEF Unplug, TypeOK
  <2>2. events' \in [Eids -> Seq(Event)]
    BY <1>4, <2>1, AppendFacts DEF Unplug, Event
  <2>3. changes' \in 0 .. MaxChanges
    BY <1>1, <1>4 DEF Unplug, Change, TypeOK
  <2>4. eidOf' \in [Termini -> Eids \cup {None}]
    BY <1>1, <1>4 DEF Unplug, TypeOK
  <2> QED
    BY <1>1, <1>4, <2>2, <2>3, <2>4
    DEF Unplug, Change, Types, TypeOK, tidVars, platformVars, mapVars
<1>5. ASSUME NEW i \in Coroutines, NEW e \in Eids, BaseInit(i, e)
      PROVE  /\ co' \in [Coroutines -> Coroutine] /\ \A j \in Coroutines : Sound(co'[j])
             /\ irregular' \in SUBSET Irregularities
  <2> DEFINE r == [Idle EXCEPT !.pc = "types", !.eid = e]
  <2>1. r \in Coroutine /\ Sound(r)
    BY IdleIsSound DEF Coroutine, Sound
  <2>2. co' = [co EXCEPT ![i] = Idle] \/ co' = [co EXCEPT ![i] = r]
    BY <1>5 DEF BaseInit, End
  <2>3. irregular' \in SUBSET Irregularities
    BY <1>1, <1>5 DEF BaseInit, TypeOK, Irregularities
  <2> HIDE DEF r
  <2> QED
    BY <2>1, <2>2, <2>3, CoroutineTypes, IdleIsSound
<1>6. ASSUME InitNext PROVE Types'
  <2>1. PICK e \in todo : todo' = todo \ {e} /\ BaseInit(Main, e)
    BY <1>6 DEF InitNext
  <2>2. e \in Eids
    BY <1>1 DEF TypeOK
  <2> QED
    BY <1>1, <1>5, <1>6, <2>1, <2>2
    DEF InitNext, Types, TypeOK, envVars, tidVars, platformVars, mapVars
<1>7. ASSUME NEW i \in Coroutines, NEW e \in Eids, DeviceAdded(i, e) PROVE Types'
  <2> DEFINE r == [Idle EXCEPT !.pc = "added", !.eid = e]
  <2>1. r \in Coroutine /\ Sound(r)
    BY IdleIsSound DEF Coroutine, Sound
  <2>2. co' = [co EXCEPT ![i] = r] /\ events' \in [Eids -> Seq(Event)]
    BY <1>7, NextEventFacts DEF DeviceAdded
  <2>3. co' \in [Coroutines -> Coroutine] /\ \A j \in Coroutines : Sound(co'[j])
    <3> HIDE DEF r
    <3> QED
      BY <2>1, <2>2, CoroutineTypes
  <2> QED
    BY <1>1, <1>7, <2>2, <2>3
    DEF DeviceAdded, Types, TypeOK, envVars, tidVars, platformVars, mapVars
<1>8. ASSUME NEW i \in Coroutines, InitDevice(i) PROVE Types'
  <2>1. co[i].eid \in Eids
    BY <1>8 DEF InitDevice, Types, Sound
  <2> QED
    BY <1>1, <1>5, <1>8, <2>1
    DEF InitDevice, Types, TypeOK, envVars, tidVars, platformVars, mapVars
<1>9. ASSUME NEW e \in Eids, Fails(e)
      PROVE  /\ faults' \in 0 .. MaxFaults /\ unlucky' \in SUBSET Eids
             /\ UNCHANGED <<eidOf, changes>>
  BY <1>1, <1>9 DEF Fails, TypeOK
<1>10. ASSUME NEW i \in Coroutines, co[i].pc # "idle"
       PROVE  co[i] \in Coroutine /\ co[i].eid \in Eids
  BY <1>1, <1>10 DEF Types, TypeOK, Sound
<1>11. ASSUME NEW i \in Coroutines, TypesAnswered(i) PROVE Types'
  <2>1. PICK d \in Termini, lost \in {{}, {"base"}, {"platform"}} :
           /\ faults + Cardinality(lost) <= MaxFaults
           /\ faults' = faults + Cardinality(lost)
           /\ LET c == [co[i] EXCEPT !.assigned = tidOf[d],
                                     !.tables = {"base", "platform"} \ lost]
              IN  \/ /\ co' = [co EXCEPT ![i] = [c EXCEPT !.pc = "uuid"]]
                     /\ UNCHANGED <<tidVars, mapVars, platformVars, unlucky, irregular>>
                  \/ ChooseTid(i, c)
    BY <1>11 DEF TypesAnswered
  <2> DEFINE c == [co[i] EXCEPT !.assigned = tidOf[d],
                                !.tables = {"base", "platform"} \ lost]
             r == [c EXCEPT !.pc = "uuid"]
  <2>2. co[i] \in Coroutine /\ co[i].eid \in Eids
    BY <1>10, <1>11 DEF TypesAnswered
  <2>3. c \in Coroutine /\ c.eid \in Eids /\ r \in Coroutine /\ Sound(r)
    BY <1>1, <2>2 DEF Coroutine, Sound, TypeOK
  <2>4. faults' \in 0 .. MaxFaults
    <3>1. Cardinality(lost) \in Nat
      <4>1. /\ Cardinality({}) = 0 /\ Cardinality({"base"}) = 1
            /\ Cardinality({"platform"}) = 1
        BY FS_EmptySet, FS_Singleton, Zenon
      <4>2. lost = {} \/ lost = {"base"} \/ lost = {"platform"}
        BY <2>1, Zenon
      <4>3. Cardinality(lost) = 0 \/ Cardinality(lost) = 1
        BY <4>1, <4>2, Zenon
      <4> QED
        BY <4>3
    <3> QED
      BY <1>1, <2>1, <3>1 DEF TypeOK
  <2>5. UNCHANGED <<eidOf, tidOf, changes, events, expired, todo>>
    BY <1>11 DEF TypesAnswered
  <2>6. CASE /\ co' = [co EXCEPT ![i] = r]
             /\ UNCHANGED <<tidVars, mapVars, platformVars, unlucky, irregular>>
    <3>1. co' \in [Coroutines -> Coroutine] /\ \A j \in Coroutines : Sound(co'[j])
      <4> HIDE DEF r
      <4> QED
        BY <2>3, <2>6, CoroutineTypes
    <3> QED
      BY <1>1, <2>4, <2>5, <2>6, <3>1 DEF Types, TypeOK, tidVars, mapVars, platformVars
  <2>7. CASE ChooseTid(i, c)
    <3> HIDE DEF c
    <3>1. ChoiceTypes /\ unlucky' \in SUBSET Eids /\ irregular' \in SUBSET Irregularities
      BY <2>3, <2>7, ChooseTypes
    <3> QED
      BY <1>1, <2>4, <2>5, <3>1 DEF Types, TypeOK, ChoiceTypes
  <2> QED
    BY <2>1, <2>6, <2>7
<1>12. ASSUME NEW i \in Coroutines, TypesFail(i) PROVE Types'
  <2>1. co' \in [Coroutines -> Coroutine] /\ \A j \in Coroutines : Sound(co'[j])
    BY <1>12, CoroutineTypes, IdleIsSound DEF TypesFail, End
  <2>2. faults' \in 0 .. MaxFaults /\ unlucky' \in SUBSET Eids /\ UNCHANGED <<eidOf, changes>>
    BY <1>9, <1>10, <1>12 DEF TypesFail
  <2> QED
    BY <1>1, <1>12, <2>1, <2>2 DEF TypesFail, Types, TypeOK, tidVars, platformVars, mapVars
<1>13. ASSUME NEW i \in Coroutines, UuidAnswered(i) PROVE Types'
  <2>1. PICK d \in Termini : ChooseTid(i, [co[i] EXCEPT !.uuid = d])
    BY <1>13 DEF UuidAnswered
  <2> DEFINE c == [co[i] EXCEPT !.uuid = d]
  <2>2. c \in Coroutine /\ c.eid \in Eids
    BY <1>10, <1>13 DEF Coroutine, UuidAnswered
  <2> HIDE DEF c
  <2>3. ChoiceTypes /\ unlucky' \in SUBSET Eids /\ irregular' \in SUBSET Irregularities
    BY <2>1, <2>2, ChooseTypes DEF c
  <2> QED
    BY <1>1, <1>13, <2>3 DEF UuidAnswered, Types, TypeOK, ChoiceTypes, envVars
<1>14. ASSUME NEW i \in Coroutines, UuidFails(i) PROVE Types'
  <2>1. ChoiceTypes /\ unlucky' \in SUBSET Eids /\ irregular' \in SUBSET Irregularities
    BY <1>10, <1>14, ChooseTypes DEF UuidFails
  <2>2. faults' \in 0 .. MaxFaults
    BY <1>1, <1>14 DEF UuidFails, TypeOK
  <2> QED
    BY <1>1, <1>14, <2>1, <2>2 DEF UuidFails, Types, TypeOK, ChoiceTypes
<1>15. ASSUME NEW i \in Coroutines, SetTidArrives(i) PROVE Types'
  <2> DEFINE r == [co[i] EXCEPT !.pc = "tidSet"]
  <2>5. co[i] \in Coroutine /\ co[i].tid \in Tids /\ co[i].eid \in Eids
    BY <1>1, <1>15 DEF SetTidArrives, Types, TypeOK, Sound
  <2>1. co[i].tid \in Tids /\ r \in Coroutine /\ Sound(r)
    BY <2>5 DEF Coroutine, Sound
  <2>2. co' = [co EXCEPT ![i] = r]
    BY <1>15 DEF SetTidArrives
  <2>3. co' \in [Coroutines -> Coroutine] /\ \A j \in Coroutines : Sound(co'[j])
    <3> HIDE DEF r
    <3> QED
      BY <2>1, <2>2, CoroutineTypes
  <2>4. tidOf' \in [Termini -> 0 .. MaxTid]
    BY <1>1, <1>15, <2>1 DEF SetTidArrives, TypeOK
  <2> QED
    BY <1>1, <1>15, <2>3, <2>4 DEF SetTidArrives, Types, TypeOK, tidVars, platformVars, mapVars
<1>16. ASSUME NEW i \in Coroutines, SetTidAnswered(i) PROVE Types'
  <2>1. co[i] \in Coroutine /\ co[i].eid \in Eids /\ co[i].tid \in Tids
    BY <1>1, <1>16 DEF SetTidAnswered, Types, TypeOK, Sound
  <2>2. ChoiceTypes
    BY <1>1, <1>16, <2>1, RegisterTypes DEF SetTidAnswered, TypeOK
  <2> QED
    BY <1>1, <1>16, <2>2 DEF SetTidAnswered, Types, TypeOK, ChoiceTypes, envVars
<1>17. ASSUME NEW i \in Coroutines, SetTidFails(i) PROVE Types'
  <2>1. co' \in [Coroutines -> Coroutine] /\ \A j \in Coroutines : Sound(co'[j])
    BY <1>17, CoroutineTypes, IdleIsSound DEF SetTidFails, End
  <2>2. faults' \in 0 .. MaxFaults /\ unlucky' \in SUBSET Eids /\ UNCHANGED <<eidOf, changes>>
    BY <1>9, <1>10, <1>17 DEF SetTidFails
  <2>3. used' \in SUBSET Tids /\ irregular' \in SUBSET Irregularities
    BY <1>1, <1>17 DEF SetTidFails, PushFrontUnusedTID, TypeOK, Irregularities
  <2> QED
    BY <1>1, <1>17, <2>1, <2>2, <2>3 DEF SetTidFails, Types, TypeOK, platformVars, mapVars
<1>18. ASSUME NEW i \in Coroutines, PlatformDone(i) PROVE Types'
  <2>1. co' \in [Coroutines -> Coroutine] /\ \A j \in Coroutines : Sound(co'[j])
    BY <1>18, CoroutineTypes, IdleIsSound DEF PlatformDone, End
  <2>2. platforms' \in SUBSET Tids /\ tidsUnderInitialization' \in SUBSET Tids
    BY <1>1, <1>18 DEF PlatformDone, TypeOK
  <2> QED
    BY <1>1, <1>18, <2>1, <2>2 DEF PlatformDone, Types, TypeOK, envVars, tidVars, mapVars
<1>19. ASSUME NEW i \in Coroutines, PlatformFails(i) PROVE Types'
  <2>1. co' \in [Coroutines -> Coroutine] /\ \A j \in Coroutines : Sound(co'[j])
    BY <1>19, CoroutineTypes, IdleIsSound DEF PlatformFails, End
  <2>2. faults' \in 0 .. MaxFaults /\ unlucky' \in SUBSET Eids /\ UNCHANGED <<eidOf, changes>>
    BY <1>9, <1>10, <1>19 DEF PlatformFails
  <2> QED
    BY <1>1, <1>19, <2>1, <2>2 DEF PlatformFails, Types, TypeOK, tidVars, mapVars
<1>20. ASSUME NEW e \in Eids, DeviceRemoved(e) PROVE Types'
  <2>1. events' \in [Eids -> Seq(Event)]
    BY <1>20, NextEventFacts DEF DeviceRemoved
  <2>2. irregular' \in SUBSET Irregularities
    BY <1>1, <1>20 DEF DeviceRemoved, TypeOK, Irregularities
  <2>3. /\ platforms' \in SUBSET Tids /\ tidsUnderInitialization' \in SUBSET Tids
        /\ tidReclaimWindowTimers' \in SUBSET Tids
        /\ tidMap' \in [Tids -> Eids \cup {None}]
        /\ discoveryDataTable' \in [Tids -> SUBSET {"base", "platform"}]
    <3>1. CASE UNCHANGED <<platformVars, tidReclaimWindowTimers, mapVars>>
      BY <1>1, <3>1 DEF TypeOK, platformVars, mapVars
    <3>2. ASSUME NEW t \in Tids, DeleteDevice(t)
          PROVE  /\ platforms' \in SUBSET Tids /\ tidsUnderInitialization' \in SUBSET Tids
                 /\ tidReclaimWindowTimers' \in SUBSET Tids
                 /\ tidMap' \in [Tids -> Eids \cup {None}]
                 /\ discoveryDataTable' \in [Tids -> SUBSET {"base", "platform"}]
      BY <1>1, <3>2
      DEF DeleteDevice, DeletePlatform, ReleaseTIDAfterReclaimInterval, TypeOK, platformVars
    <3> QED
      BY <1>20, <3>1, <3>2 DEF DeviceRemoved
  <2> QED
    BY <1>1, <1>20, <2>1, <2>2, <2>3 DEF DeviceRemoved, Types, TypeOK, envVars
<1>21. ASSUME NEW t \in Tids, ReclaimWindowEnds(t) PROVE Types'
  BY <1>1, <1>21
  DEF ReclaimWindowEnds, Types, TypeOK, envVars, tidVars, platformVars, mapVars
<1>22. ASSUME NEW t \in Tids, ReleaseTid(t) PROVE Types'
  <2>1. pool' \in Seq(Tids) /\ ToSet(pool') = Tids /\ Len(pool') = MaxTid
    BY <1>1, <1>22, PutLastKeeps DEF ReleaseTid, PushBackFreedTID, PoolOK, TypeOK
  <2>2. /\ uuidMapping' \in [Termini -> 0 .. MaxTid] /\ used' \in SUBSET Tids
        /\ expired' \in SUBSET Tids /\ tidReclaimWindowTimers' \in SUBSET Tids
    BY <1>1, <1>22 DEF ReleaseTid, PushBackFreedTID, TypeOK
  <2> QED
    BY <1>1, <1>22, <2>1, <2>2 DEF ReleaseTid, Types, TypeOK, envVars, platformVars, mapVars
<1> QED
  BY <1>2, <1>3, <1>4, <1>6, <1>7, <1>8, <1>11, <1>12, <1>13, <1>14, <1>15, <1>16, <1>17,
     <1>18, <1>19, <1>20, <1>21, <1>22
  DEF Next

\* Every variable stays in its range.
THEOREM TypeCorrect == Spec => []TypeOK
<1>1. Types => TypeOK
  BY DEF Types
<1> QED
  BY <1>1, InitTypes, NextTypes, PTL DEF Spec

-----------------------------------------------------------------------------
(***************************************************************************)
(* The steps, as far as they matter to the TIDs.                           *)
(***************************************************************************)
Setting(i) == co[i].pc \in {"setTid", "tidSet"}

Asking(i) == co[i].pc \in {"types", "uuid"} \/ Setting(i)

\* No TID is touched; a coroutine that has none may go on, and may begin with
\* an endpoint that is not known.
Aside ==
    /\ UNCHANGED <<used, uuidMapping, tidReclaimWindowTimers, expired, tidMap,
                   discoveryDataTable, tidsUnderInitialization, platforms>>
    /\ \/ co' = co
       \/ \E i \in Coroutines, r \in Coroutine :
             /\ co[i].pc \in {"idle", "added", "types", "uuid"}
             /\ r.pc \in {"idle", "added", "types", "uuid"}
             /\ co' = [co EXCEPT ![i] = r]
             /\ r.pc \in {"types", "uuid"} =>
                   \/ co[i].pc \in {"types", "uuid"} /\ r.eid = co[i].eid
                   \/ /\ r.pc = "types" /\ r.eid \notin Mapped
                      /\ Initialising(r.eid) \subseteq {i} \/ "overlap" \in irregular'

\* The coroutine i, which has become c, has a TID to set or to enter.
Has(i, c, inUse) ==
    /\ c.eid = co[i].eid /\ c.eid \in Eids /\ c.tid \in Tids
    /\ \/ co[i].pc \in {"types", "uuid"} /\ Takes(c, c.tid, inUse)
       \/ /\ co[i] = c /\ c.pc = "tidSet" /\ inUse = used
          /\ tidReclaimWindowTimers' = tidReclaimWindowTimers

Sends(i, c, inUse) ==
    /\ Has(i, c, inUse) /\ co[i].pc \in {"types", "uuid"}
    /\ co' = [co EXCEPT ![i] = [c EXCEPT !.pc = "setTid"]]
    /\ used' = inUse
    /\ UNCHANGED <<uuidMapping, expired, tidMap, discoveryDataTable,
                   tidsUnderInitialization, platforms>>

Drops(i, c, inUse) ==
    /\ Has(i, c, inUse) /\ c.eid \in Mapped
    /\ co' = [co EXCEPT ![i] = Idle]
    /\ used' = inUse \ {c.tid}
    /\ UNCHANGED <<uuidMapping, expired, tidMap, discoveryDataTable,
                   tidsUnderInitialization, platforms>>

Enters(i, c, inUse) ==
    /\ Has(i, c, inUse) /\ c.eid \notin Mapped
    /\ used' = inUse
    /\ tidMap' = [tidMap EXCEPT ![c.tid] = c.eid]
    /\ discoveryDataTable' = [discoveryDataTable EXCEPT ![c.tid] = c.tables]
    /\ uuidMapping' = [d \in Termini |->
                          IF d = c.uuid /\ uuidMapping[d] = 0 THEN c.tid
                          ELSE uuidMapping[d]]
    /\ UNCHANGED expired
    /\ \/ /\ "platform" \in c.tables
          /\ co' = [co EXCEPT ![i] = [c EXCEPT !.pc = "platform"]]
          /\ tidsUnderInitialization' = tidsUnderInitialization \cup {c.tid}
          /\ platforms' = platforms \ {c.tid}
       \/ /\ "platform" \notin c.tables
          /\ co' = [co EXCEPT ![i] = Idle]
          /\ UNCHANGED <<tidsUnderInitialization, platforms>>

StepKind ==
    /\ irregular \subseteq irregular'
    /\ \/ Aside
       \/ \E i \in Coroutines :
             \/ \E c \in Coroutine, inUse \in SUBSET Tids :
                   Sends(i, c, inUse) \/ Drops(i, c, inUse) \/ Enters(i, c, inUse)
             \/ SetTidArrives(i) \/ SetTidFails(i)
             \/ PlatformDone(i) \/ PlatformFails(i)
       \/ \E e \in Eids : DeviceRemoved(e)
       \/ \E t \in Tids : ReclaimWindowEnds(t) \/ ReleaseTid(t)

LEMMA RegisterKinds ==
    ASSUME NEW i \in Coroutines, NEW c \in Coroutine, NEW inUse \in SUBSET Tids,
           Has(i, c, inUse), Register(i, c, inUse), UNCHANGED expired
    PROVE  Drops(i, c, inUse) \/ Enters(i, c, inUse)
BY DEF Register, Drops, Enters, End, BeginPlatformInit, mapVars, platformVars

LEMMA ChooseKinds ==
    ASSUME Types, NEW i \in Coroutines, NEW c \in Coroutine, c.eid \in Eids,
           co[i].pc \in {"types", "uuid"}, c.eid = co[i].eid,
           ChooseTid(i, c), UNCHANGED expired
    PROVE  StepKind
<1>1. irregular \subseteq irregular'
  BY Chosen
<1>2. CASE GivesUp(i, c)
  <2>1. Idle.pc = "idle" /\ Idle \in Coroutine
    BY IdleIsSound DEF Idle
  <2>2. Aside
    BY <1>2, <2>1 DEF GivesUp, End, Aside, tidVars, mapVars, platformVars
  <2> QED
    BY <1>1, <2>2 DEF StepKind
<1>3. ASSUME NEW t \in Tids, NEW inUse \in SUBSET Tids, Takes(c, t, inUse),
             SendSetTid(i, [c EXCEPT !.tid = t], inUse)
      PROVE  StepKind
  <2> DEFINE d == [c EXCEPT !.tid = t]
  <2>1. d \in Coroutine /\ d.eid = co[i].eid /\ d.eid \in Eids /\ d.tid = t /\ d.uuid = c.uuid
    BY Constants DEF Coroutine
  <2>2. PrevTid(d) = PrevTid(c)
    BY <2>1 DEF PrevTid
  <2> HIDE DEF d
  <2>3. Has(i, d, inUse)
    BY <1>3, <2>1, <2>2 DEF Has, Takes
  <2>4. Sends(i, d, inUse) \/ Drops(i, d, inUse) \/ Enters(i, d, inUse)
    <3>1. SendSetTid(i, d, inUse)
      BY <1>3 DEF d
    <3>2. CASE Register(i, d, inUse)
      BY <2>1, <2>3, <3>2, RegisterKinds
    <3>3. CASE /\ co' = [co EXCEPT ![i] = [d EXCEPT !.pc = "setTid"]]
               /\ used' = inUse
               /\ UNCHANGED <<mapVars, uuidMapping, platformVars>>
      BY <2>3, <3>3 DEF Sends, mapVars, platformVars
    <3> QED
      BY <3>1, <3>2, <3>3 DEF SendSetTid
  <2> QED
    BY <1>1, <2>1, <2>4, Zenon DEF StepKind
<1> QED
  BY <1>2, <1>3, Chosen

LEMMA BaseInitKinds ==
    ASSUME Types, NEW i \in Coroutines, NEW e \in Eids, BaseInit(i, e),
           co[i].pc \in {"idle", "added"},
           UNCHANGED <<tidVars, expired, mapVars, platformVars>>
    PROVE  StepKind
<1>1. irregular \subseteq irregular'
  BY DEF BaseInit
<1> DEFINE r == [Idle EXCEPT !.pc = "types", !.eid = e]
<1>2. r \in Coroutine /\ r.pc = "types" /\ r.eid = e /\ Idle \in Coroutine /\ Idle.pc = "idle"
  BY IdleIsSound DEF Idle, Coroutine
<1>3. \/ co' = [co EXCEPT ![i] = Idle]
      \/ /\ co' = [co EXCEPT ![i] = r]
         /\ e \notin Mapped
         /\ Initialising(e) \subseteq {i} \/ "overlap" \in irregular'
  BY DEF BaseInit, End
<1> HIDE DEF r
<1>4. Aside
  BY <1>2, <1>3 DEF Aside, tidVars, mapVars, platformVars
<1> QED
  BY <1>1, <1>4 DEF StepKind

LEMMA StepKinds == Types /\ [Next]_vars => StepKind
<1> SUFFICES ASSUME Types, [Next]_vars PROVE StepKind
  OBVIOUS
<1>1. /\ co \in [Coroutines -> Coroutine] /\ todo \subseteq Eids
      /\ \A i \in Coroutines : Sound(co[i])
      /\ used \in SUBSET Tids
  BY DEF Types, TypeOK
<1>2. CASE UNCHANGED vars
  BY <1>2 DEF vars, envVars, tidVars, platformVars, mapVars, StepKind, Aside
<1>3. ASSUME NEW d \in Termini, NEW e \in Eids, Plug(d, e) PROVE StepKind
  BY <1>3 DEF Plug, Change, tidVars, platformVars, mapVars, StepKind, Aside
<1>4. ASSUME NEW d \in Termini, Unplug(d) PROVE StepKind
  BY <1>4 DEF Unplug, Change, tidVars, platformVars, mapVars, StepKind, Aside
<1>5. CASE InitNext
  <2>1. PICK e \in Eids : BaseInit(Main, e)
    BY <1>1, <1>5 DEF InitNext
  <2>2. co[Main].pc = "idle" /\ UNCHANGED <<tidVars, expired, mapVars, platformVars>>
    BY <1>5 DEF InitNext, Idle
  <2> QED
    BY <2>1, <2>2, Constants, BaseInitKinds
<1>6. ASSUME NEW e \in Eids, NEW i \in Coroutines, DeviceAdded(i, e) PROVE StepKind
  <2> DEFINE r == [Idle EXCEPT !.pc = "added", !.eid = e]
  <2>1. r \in Coroutine /\ r.pc = "added"
    BY IdleIsSound DEF Idle, Coroutine
  <2>2. co[i].pc = "idle" /\ co' = [co EXCEPT ![i] = r]
    BY <1>6 DEF DeviceAdded, Idle
  <2> HIDE DEF r
  <2>3. Aside
    BY <1>6, <2>1, <2>2 DEF DeviceAdded, Aside, tidVars, platformVars, mapVars
  <2> QED
    BY <1>6, <2>3 DEF DeviceAdded, StepKind
<1>7. ASSUME NEW i \in Coroutines, InitDevice(i) PROVE StepKind
  <2>1. co[i].eid \in Eids /\ BaseInit(i, co[i].eid)
    BY <1>1, <1>7 DEF InitDevice, Sound
  <2> QED
    BY <1>7, <2>1, BaseInitKinds DEF InitDevice
<1>8. ASSUME NEW i \in Coroutines, TypesAnswered(i) PROVE StepKind
  <2>1. PICK d \in Termini, lost \in {{}, {"base"}, {"platform"}} :
             LET c == [co[i] EXCEPT !.assigned = tidOf[d], !.tables = {"base", "platform"} \ lost]
             IN  \/ /\ co' = [co EXCEPT ![i] = [c EXCEPT !.pc = "uuid"]]
                    /\ UNCHANGED <<tidVars, mapVars, platformVars, unlucky, irregular>>
                 \/ ChooseTid(i, c)
    BY <1>8, Zenon DEF TypesAnswered
  <2> DEFINE c == [co[i] EXCEPT !.assigned = tidOf[d], !.tables = {"base", "platform"} \ lost]
             r == [c EXCEPT !.pc = "uuid"]
  <2>2. /\ c \in Coroutine /\ c.eid \in Eids /\ c.eid = co[i].eid
        /\ r \in Coroutine /\ r.eid = co[i].eid /\ r.pc = "uuid"
        /\ co[i].pc = "types" /\ UNCHANGED expired
    <3>1. /\ co[i] \in Coroutine /\ co[i].eid \in Eids /\ tidOf[d] \in 0 .. MaxTid
          /\ co[i].pc = "types" /\ UNCHANGED expired
      BY <1>1, <1>8 DEF TypesAnswered, Types, TypeOK, Sound
    <3>2. {"base", "platform"} \ lost \in SUBSET {"base", "platform"}
      OBVIOUS
    <3> QED
      BY <3>1, <3>2 DEF Coroutine
  <2>3. CASE /\ co' = [co EXCEPT ![i] = r]
             /\ UNCHANGED <<tidVars, mapVars, platformVars, unlucky, irregular>>
    <3> HIDE DEF r
    <3>1. Aside
      BY <2>2, <2>3 DEF Aside, tidVars, mapVars, platformVars
    <3> QED
      BY <2>3, <3>1 DEF StepKind
  <2>4. CASE ChooseTid(i, c)
    <3> HIDE DEF c
    <3> QED
      BY <2>2, <2>4, ChooseKinds
  <2> QED
    BY <2>1, <2>3, <2>4
<1>9. ASSUME NEW i \in Coroutines, TypesFail(i) PROVE StepKind
  <2>1. Idle \in Coroutine /\ Idle.pc = "idle"
    BY IdleIsSound DEF Idle
  <2>2. Aside
    BY <1>9, <2>1 DEF TypesFail, End, Aside, tidVars, platformVars, mapVars
  <2> QED
    BY <1>9, <2>2 DEF TypesFail, StepKind
<1>10. ASSUME NEW i \in Coroutines, UuidAnswered(i) PROVE StepKind
  <2>1. PICK d \in Termini : ChooseTid(i, [co[i] EXCEPT !.uuid = d])
    BY <1>10 DEF UuidAnswered
  <2> DEFINE c == [co[i] EXCEPT !.uuid = d]
  <2>2. c \in Coroutine /\ c.eid \in Eids /\ c.eid = co[i].eid /\ co[i].pc = "uuid"
    BY <1>1, <1>10 DEF Coroutine, UuidAnswered, Sound
  <2> HIDE DEF c
  <2>3. ChooseTid(i, c) /\ UNCHANGED expired
    BY <1>10, <2>1 DEF c, UuidAnswered
  <2> QED
    BY <2>2, <2>3, ChooseKinds
<1>11. ASSUME NEW i \in Coroutines, UuidFails(i) PROVE StepKind
  <2>1. co[i] \in Coroutine /\ co[i].eid \in Eids /\ co[i].pc = "uuid"
    BY <1>1, <1>11 DEF UuidFails, Sound
  <2> QED
    BY <1>11, <2>1, ChooseKinds DEF UuidFails
<1>12. ASSUME NEW i \in Coroutines, SetTidAnswered(i) PROVE StepKind
  <2>1. /\ co[i] \in Coroutine /\ co[i].eid \in Eids /\ co[i].tid \in Tids
        /\ co[i].pc = "tidSet"
    BY <1>1, <1>12 DEF SetTidAnswered, Sound
  <2>2. Has(i, co[i], used)
    BY <1>12, <2>1 DEF SetTidAnswered, Has
  <2>3. Drops(i, co[i], used) \/ Enters(i, co[i], used)
    BY <1>1, <1>12, <2>1, <2>2, RegisterKinds DEF SetTidAnswered
  <2> QED
    BY <1>1, <1>12, <2>1, <2>3, Zenon DEF SetTidAnswered, StepKind
<1>13. ASSUME NEW i \in Coroutines,
              SetTidArrives(i) \/ SetTidFails(i) \/ PlatformDone(i) \/ PlatformFails(i)
       PROVE  StepKind
  <2>1. irregular \subseteq irregular'
    BY <1>13 DEF SetTidArrives, SetTidFails, PlatformDone, PlatformFails
  <2> QED
    BY <1>13, <2>1 DEF StepKind
<1>14. ASSUME NEW e \in Eids, DeviceRemoved(e) PROVE StepKind
  BY <1>14 DEF DeviceRemoved, StepKind
<1>15. ASSUME NEW t \in Tids, ReclaimWindowEnds(t) \/ ReleaseTid(t) PROVE StepKind
  <2>1. irregular \subseteq irregular'
    BY <1>15 DEF ReclaimWindowEnds, ReleaseTid
  <2> QED
    BY <1>15, <2>1 DEF StepKind
<1> QED
  BY <1>2, <1>3, <1>4, <1>5, <1>6, <1>7, <1>8, <1>9, <1>10, <1>11, <1>12, <1>13, <1>14, <1>15
  DEF Next

-----------------------------------------------------------------------------
(***************************************************************************)
(* An endpoint has one TID, and is asked by one coroutine at a time unless *)
(* two have overlapped.                                                    *)
(***************************************************************************)
MapInjective ==
    \A t, u \in Tids : tidMap[t] = tidMap[u] /\ tidMap[t] # None => t = u

AskedOnce ==
    Regular({"overlap"}) =>
        \A i \in Coroutines : Asking(i) =>
            /\ co[i].eid \notin Mapped
            /\ \A j \in Coroutines : Asking(j) /\ co[j].eid = co[i].eid => j = i

OncePerEid == MapInjective /\ AskedOnce

LEMMA RegularBefore ==
    ASSUME irregular \subseteq irregular', NEW S, Regular(S)'
    PROVE  Regular(S)
BY DEF Regular

\* One coroutine goes on, is done with its endpoint, or begins with one.
LEMMA OneGoesOn ==
    ASSUME AskedOnce, irregular \subseteq irregular', NEW i \in Coroutines,
           \A j \in Coroutines \ {i} : co'[j] = co[j],
           \/ /\ Mapped' \subseteq Mapped
              /\ Asking(i)' =>
                    \/ Asking(i) /\ co'[i].eid = co[i].eid
                    \/ /\ co'[i].eid \notin Mapped
                       /\ \/ Initialising(co'[i].eid) \subseteq {i}
                          \/ "overlap" \in irregular'
           \/ Mapped' \subseteq Mapped \cup {co[i].eid} /\ Asking(i) /\ ~Asking(i)'
    PROVE  AskedOnce'
<1> SUFFICES ASSUME Regular({"overlap"})'
             PROVE  (\A j \in Coroutines : Asking(j) =>
                        /\ co[j].eid \notin Mapped
                        /\ \A k \in Coroutines : Asking(k) /\ co[k].eid = co[j].eid => k = j)'
  BY DEF AskedOnce
<1>1. \A j \in Coroutines : Asking(j) =>
          /\ co[j].eid \notin Mapped
          /\ \A k \in Coroutines : Asking(k) /\ co[k].eid = co[j].eid => k = j
  BY RegularBefore DEF AskedOnce
<1>2. "overlap" \notin irregular'
  BY DEF Regular
<1>3. \A j \in Coroutines \ {i} : Asking(j)' <=> Asking(j)
  BY DEF Asking, Setting
<1>4. \A j \in Coroutines : Asking(j) => j \in Initialising(co[j].eid)
  BY DEF Asking, Setting, Initialising
<1> QED
  BY <1>1, <1>2, <1>3, <1>4

LEMMA OnceInit == Init => OncePerEid
BY DEF Init, OncePerEid, MapInjective, AskedOnce, Asking, Setting, Idle

LEMMA OnceNext == Types /\ OncePerEid /\ StepKind => OncePerEid'
<1> SUFFICES ASSUME Types, OncePerEid, StepKind PROVE OncePerEid'
  OBVIOUS
<1>1. /\ co \in [Coroutines -> Coroutine] /\ tidMap \in [Tids -> Eids \cup {None}]
      /\ irregular \subseteq irregular' /\ AskedOnce /\ MapInjective
  BY DEF Types, TypeOK, StepKind, OncePerEid
<1>2. Idle.pc = "idle"
  BY DEF Idle
<1>3. CASE Aside
  <2>1. MapInjective'
    BY <1>1, <1>3 DEF Aside, MapInjective
  <2>2. Mapped' = Mapped
    BY <1>3 DEF Aside, Mapped
  <2>3. ASSUME co' = co PROVE AskedOnce'
    <3>1. Mapped' \subseteq Mapped
      BY <2>2
    <3> QED
      BY <1>1, <2>3, <3>1 DEF AskedOnce, Regular, Asking, Setting
  <2>4. ASSUME NEW i \in Coroutines, NEW r \in Coroutine,
               co[i].pc \in {"idle", "added", "types", "uuid"},
               r.pc \in {"idle", "added", "types", "uuid"},
               co' = [co EXCEPT ![i] = r],
               r.pc \in {"types", "uuid"} =>
                   \/ co[i].pc \in {"types", "uuid"} /\ r.eid = co[i].eid
                   \/ /\ r.pc = "types" /\ r.eid \notin Mapped
                      /\ Initialising(r.eid) \subseteq {i} \/ "overlap" \in irregular'
        PROVE  AskedOnce'
    <3>1. co'[i] = r /\ \A j \in Coroutines \ {i} : co'[j] = co[j]
      BY <1>1, <2>4
    <3>2. Asking(i)' =>
              \/ Asking(i) /\ co'[i].eid = co[i].eid
              \/ /\ co'[i].eid \notin Mapped
                 /\ Initialising(co'[i].eid) \subseteq {i} \/ "overlap" \in irregular'
      BY <2>4, <3>1 DEF Asking, Setting
    <3> QED
      BY <1>1, <2>2, <3>1, <3>2, OneGoesOn
  <2> QED
    BY <1>3, <2>1, <2>3, <2>4 DEF Aside, OncePerEid
<1>4. ASSUME NEW i \in Coroutines, NEW c \in Coroutine, NEW inUse \in SUBSET Tids,
             Sends(i, c, inUse)
      PROVE  OncePerEid'
  <2>1. /\ \A j \in Coroutines \ {i} : co'[j] = co[j]
        /\ Asking(i) /\ co'[i].eid = co[i].eid
        /\ Mapped' = Mapped /\ tidMap' = tidMap
    BY <1>1, <1>4 DEF Sends, Has, Asking, Mapped, Coroutine
  <2>2. AskedOnce'
    BY <1>1, <2>1, OneGoesOn
  <2> QED
    BY <1>1, <2>1, <2>2 DEF OncePerEid, MapInjective
<1>5. ASSUME NEW i \in Coroutines, NEW c \in Coroutine, NEW inUse \in SUBSET Tids,
             Drops(i, c, inUse)
      PROVE  OncePerEid'
  <2>1. /\ \A j \in Coroutines \ {i} : co'[j] = co[j]
        /\ ~Asking(i)' /\ Mapped' = Mapped /\ tidMap' = tidMap
    BY <1>1, <1>2, <1>5 DEF Drops, Asking, Setting, Mapped
  <2>2. AskedOnce'
    BY <1>1, <2>1, OneGoesOn
  <2> QED
    BY <1>1, <2>1, <2>2 DEF OncePerEid, MapInjective
<1>6. ASSUME NEW i \in Coroutines, NEW c \in Coroutine, NEW inUse \in SUBSET Tids,
             Enters(i, c, inUse)
      PROVE  OncePerEid'
  <2>1. /\ c.eid = co[i].eid /\ c.eid \in Eids /\ c.eid \notin Mapped /\ c.tid \in Tids
        /\ tidMap' = [tidMap EXCEPT ![c.tid] = c.eid] /\ Asking(i)
    BY <1>6 DEF Enters, Has, Asking, Setting
  <2>2. \A j \in Coroutines \ {i} : co'[j] = co[j]
    BY <1>1, <1>6 DEF Enters
  <2>3. ~Asking(i)'
    BY <1>1, <1>2, <1>6 DEF Enters, Asking, Setting, Coroutine
  <2>4. Mapped' \subseteq Mapped \cup {co[i].eid}
    BY <1>1, <2>1 DEF Mapped
  <2>5. MapInjective'
    BY <1>1, <2>1, Constants DEF MapInjective, Mapped
  <2>6. AskedOnce'
    BY <1>1, <2>1, <2>2, <2>3, <2>4, OneGoesOn
  <2> QED
    BY <2>5, <2>6 DEF OncePerEid
<1>7. ASSUME NEW i \in Coroutines,
             SetTidArrives(i) \/ SetTidFails(i) \/ PlatformDone(i) \/ PlatformFails(i)
      PROVE  OncePerEid'
  <2>1. tidMap' = tidMap
    BY <1>7 DEF SetTidArrives, SetTidFails, PlatformDone, PlatformFails, mapVars
  <2>2. /\ \A j \in Coroutines \ {i} : co'[j] = co[j]
        /\ Asking(i)' => Asking(i) /\ co'[i].eid = co[i].eid
    BY <1>1, <1>2, <1>7
    DEF SetTidArrives, SetTidFails, PlatformDone, PlatformFails, End, Asking, Setting, Coroutine
  <2>3. Mapped' = Mapped
    BY <2>1 DEF Mapped
  <2>4. AskedOnce'
    BY <1>1, <2>2, <2>3, OneGoesOn
  <2> QED
    BY <1>1, <2>1, <2>4 DEF OncePerEid, MapInjective
<1>8. ASSUME NEW e \in Eids, DeviceRemoved(e) PROVE OncePerEid'
  <2>1. co' = co /\ \/ tidMap' = tidMap
                    \/ \E t \in Tids : tidMap' = [tidMap EXCEPT ![t] = None]
    BY <1>8 DEF DeviceRemoved, DeleteDevice, mapVars
  <2>2. MapInjective' /\ Mapped' \subseteq Mapped
    BY <1>1, <2>1 DEF MapInjective, Mapped
  <2>3. AskedOnce'
    BY <1>1, <2>1, <2>2 DEF AskedOnce, Regular, Asking, Setting
  <2> QED
    BY <2>2, <2>3 DEF OncePerEid
<1>9. ASSUME NEW t \in Tids, ReclaimWindowEnds(t) \/ ReleaseTid(t) PROVE OncePerEid'
  <2>1. co' = co /\ tidMap' = tidMap
    BY <1>9 DEF ReclaimWindowEnds, ReleaseTid, mapVars
  <2>2. Mapped' = Mapped
    BY <2>1 DEF Mapped
  <2> QED
    BY <1>1, <2>1, <2>2 DEF OncePerEid, MapInjective, AskedOnce, Regular, Asking, Setting
<1> QED
  BY <1>3, <1>4, <1>5, <1>6, <1>7, <1>8, <1>9 DEF StepKind

-----------------------------------------------------------------------------
(***************************************************************************)
(* The TIDs are apart: one that is registered, about to be set or in its   *)
(* reclaim window is used, and is only one of these; a TID that is kept    *)
(* for a UUID is one of these, and no other terminus is given it.          *)
(***************************************************************************)
Fresh == tidReclaimWindowTimers \cup expired

UsedApart ==
    /\ Registered \cup Fresh \subseteq used
    /\ Fresh \cap Registered = {}

SetApart ==
    \A i \in Coroutines : Setting(i) =>
        /\ co[i].tid \in used /\ co[i].tid \notin Fresh /\ co[i].tid \notin Registered
        /\ \A j \in Coroutines : Setting(j) /\ co[j].tid = co[i].tid => j = i

KeptApart ==
    \A d \in Termini : uuidMapping[d] # 0 =>
        /\ \/ uuidMapping[d] \in Registered \cup tidReclaimWindowTimers
           \/ \E i \in Coroutines : Setting(i) /\ co[i].tid = uuidMapping[d]
        /\ \A f \in Termini : uuidMapping[f] = uuidMapping[d] => f = d
        /\ \A i \in Coroutines : Setting(i) /\ co[i].tid = uuidMapping[d] => co[i].uuid = d

Apart == UsedApart /\ SetApart /\ KeptApart

TidsApart == Regular(TidMixUps) => Apart

LEMMA ApartInit == Init => TidsApart
BY DEF Init, TidsApart, Apart, UsedApart, SetApart, KeptApart, Registered, Fresh, Setting, Idle

LEMMA KeptIsUsed ==
    ASSUME Apart, NEW d \in Termini, uuidMapping[d] # 0
    PROVE  uuidMapping[d] \in used
BY DEF Apart, UsedApart, SetApart, KeptApart, Fresh

\* The TID that a coroutine has is nobody else's.
LEMMA HasApart ==
    ASSUME Types, OncePerEid, TidsApart, irregular \subseteq irregular', Regular(TidMixUps)',
           NEW i \in Coroutines, NEW c \in Coroutine, NEW inUse \in SUBSET Tids,
           Has(i, c, inUse)
    PROVE  /\ Apart /\ c.eid \notin Mapped /\ c.tid \notin Registered
           /\ c.tid \in inUse /\ used \subseteq inUse /\ inUse \subseteq used \cup {c.tid}
           /\ tidReclaimWindowTimers' \subseteq tidReclaimWindowTimers
           /\ tidReclaimWindowTimers \subseteq tidReclaimWindowTimers' \cup {c.tid}
           /\ c.tid \notin tidReclaimWindowTimers' /\ c.tid \notin expired
           /\ \A j \in Coroutines \ {i} : Setting(j) => co[j].tid # c.tid
           /\ \A d \in Termini : uuidMapping[d] = c.tid => c.uuid = d
           /\ Setting(i) => co[i] = c
<1>1. Apart /\ "overlap" \notin irregular /\ "race" \notin irregular' /\ "moved" \notin irregular'
  BY DEF TidsApart, Regular, TidMixUps
<1>2. Asking(i) /\ c.eid = co[i].eid /\ c.tid \in Tids /\ c.tid # 0
  BY Constants DEF Has, Asking, Setting
<1>3. c.eid \notin Mapped
  BY <1>1, <1>2 DEF OncePerEid, AskedOnce, Regular
<1>4. CASE co[i].pc \in {"types", "uuid"} /\ PrevTid(c) = 0
           /\ c.tid \notin used /\ inUse = used \cup {c.tid}
           /\ tidReclaimWindowTimers' = tidReclaimWindowTimers
  <2>1. /\ c.tid \notin Registered /\ c.tid \notin Fresh
        /\ \A j \in Coroutines : Setting(j) => co[j].tid # c.tid
    BY <1>1, <1>4 DEF Apart, UsedApart, SetApart
  <2>2. \A d \in Termini : uuidMapping[d] # c.tid
    BY <1>1, <1>2, <1>4, KeptIsUsed
  <2> QED
    BY <1>1, <1>3, <1>4, <2>1, <2>2 DEF Fresh, Setting
<1>5. CASE co[i].pc \in {"types", "uuid"} /\ PrevTid(c) = c.tid /\ inUse = used
           /\ tidReclaimWindowTimers' = tidReclaimWindowTimers \ {c.tid}
           /\ (c.tid \in expired => "race" \in irregular')
           /\ (c.tid \in Registered \cup BeingSet => "moved" \in irregular')
  <2>1. c.uuid \in Termini /\ uuidMapping[c.uuid] = c.tid
    BY <1>2, <1>5 DEF PrevTid, Coroutine
  <2>2. c.tid \notin Registered /\ c.tid \notin BeingSet /\ c.tid \notin expired
    BY <1>1, <1>5
  <2>3. \A j \in Coroutines : Setting(j) => co[j].tid # c.tid
    BY <2>2 DEF BeingSet, Setting
  <2>4. c.tid \in used
    BY <1>1, <1>2, <2>1, KeptIsUsed
  <2>5. \A d \in Termini : uuidMapping[d] = c.tid => c.uuid = d
    BY <1>1, <1>2, <2>1 DEF Apart, KeptApart
  <2> QED
    BY <1>1, <1>3, <1>5, <2>2, <2>3, <2>4, <2>5 DEF Setting
<1>6. CASE co[i] = c /\ c.pc = "tidSet" /\ inUse = used
           /\ tidReclaimWindowTimers' = tidReclaimWindowTimers
  <2>1. Setting(i)
    BY <1>6 DEF Setting
  <2>2. /\ c.tid \in used /\ c.tid \notin Fresh /\ c.tid \notin Registered
        /\ \A j \in Coroutines \ {i} : Setting(j) => co[j].tid # c.tid
    BY <1>1, <1>6, <2>1 DEF Apart, SetApart
  <2>3. \A d \in Termini : uuidMapping[d] = c.tid => c.uuid = d
    BY <1>1, <1>2, <1>6, <2>1 DEF Apart, KeptApart
  <2> QED
    BY <1>1, <1>3, <1>6, <2>2, <2>3 DEF Fresh
<1> QED
  BY <1>4, <1>5, <1>6 DEF Has, Takes

LEMMA ApartNext == Types /\ OncePerEid /\ TidsApart /\ StepKind => TidsApart'
<1> SUFFICES ASSUME Types, OncePerEid, TidsApart, StepKind, Regular(TidMixUps)'
             PROVE  Apart'
  BY DEF TidsApart
<1>1. /\ co \in [Coroutines -> Coroutine] /\ tidMap \in [Tids -> Eids \cup {None}]
      /\ uuidMapping \in [Termini -> 0 .. MaxTid] /\ tidReclaimWindowTimers \subseteq Tids
      /\ irregular \subseteq irregular' /\ \A i \in Coroutines : Sound(co[i])
  BY DEF Types, TypeOK, StepKind
<1>2. Apart
  BY <1>1, RegularBefore DEF TidsApart
<1>3. Idle.pc = "idle" /\ None \notin Eids /\ 0 \notin Tids
  BY Constants DEF Idle
<1>4. UsedApart /\ SetApart /\ KeptApart
  BY <1>2 DEF Apart
\* No TID is touched, and those who set one go on setting it.
<1>5. ASSUME /\ UNCHANGED <<used, uuidMapping, tidReclaimWindowTimers, expired, tidMap>>
             /\ \A j \in Coroutines :
                   /\ Setting(j)' <=> Setting(j)
                   /\ Setting(j) => co'[j].tid = co[j].tid /\ co'[j].uuid = co[j].uuid
      PROVE  Apart'
  <2>1. Registered' = Registered /\ Fresh' = Fresh
    BY <1>5 DEF Registered, Fresh
  <2>2. UsedApart' /\ SetApart'
    BY <1>4, <1>5, <2>1 DEF UsedApart, SetApart
  <2>3. KeptApart'
    <3> SUFFICES ASSUME NEW d \in Termini, uuidMapping[d] # 0
                 PROVE  (/\ \/ uuidMapping[d] \in Registered \cup tidReclaimWindowTimers
                            \/ \E i \in Coroutines : Setting(i) /\ co[i].tid = uuidMapping[d]
                         /\ \A f \in Termini : uuidMapping[f] = uuidMapping[d] => f = d
                         /\ \A i \in Coroutines :
                               Setting(i) /\ co[i].tid = uuidMapping[d] => co[i].uuid = d)'
      BY <1>5 DEF KeptApart
    <3> QED
      BY <1>4, <1>5, <2>1 DEF KeptApart
  <2> QED
    BY <2>2, <2>3 DEF Apart
<1>6. CASE Aside
  <2>1. \A j \in Coroutines :
            /\ Setting(j)' <=> Setting(j)
            /\ Setting(j) => co'[j].tid = co[j].tid /\ co'[j].uuid = co[j].uuid
    BY <1>1, <1>6 DEF Aside, Setting
  <2> QED
    BY <1>5, <1>6, <2>1 DEF Aside
<1>7. ASSUME NEW i \in Coroutines, NEW c \in Coroutine, NEW inUse \in SUBSET Tids,
             Sends(i, c, inUse)
      PROVE  Apart'
  <2>1. /\ Has(i, c, inUse) /\ c.tid \in Tids /\ used' = inUse
        /\ UNCHANGED <<uuidMapping, expired, tidMap>>
    BY <1>7 DEF Sends, Has
  <2>2. /\ co'[i].tid = c.tid /\ co'[i].uuid = c.uuid /\ Setting(i)' /\ ~Setting(i)
        /\ \A j \in Coroutines \ {i} : co'[j] = co[j]
    BY <1>1, <1>7 DEF Sends, Setting, Coroutine
  <2>3. /\ c.tid \notin Registered
        /\ c.tid \in inUse /\ used \subseteq inUse
        /\ tidReclaimWindowTimers' \subseteq tidReclaimWindowTimers
        /\ tidReclaimWindowTimers \subseteq tidReclaimWindowTimers' \cup {c.tid}
        /\ c.tid \notin tidReclaimWindowTimers' /\ c.tid \notin expired
        /\ \A j \in Coroutines \ {i} : Setting(j) => co[j].tid # c.tid
        /\ \A d \in Termini : uuidMapping[d] = c.tid => c.uuid = d
    BY <1>1, <2>1, HasApart
  <2>4. Registered' = Registered /\ Fresh' \subseteq Fresh /\ c.tid \notin Fresh'
    BY <2>1, <2>3 DEF Registered, Fresh
  <2>5. \A j \in Coroutines \ {i} : Setting(j)' <=> Setting(j)
    BY <2>2 DEF Setting
  <2>6. UsedApart'
    BY <1>4, <2>1, <2>3, <2>4 DEF UsedApart
  <2>7. SetApart'
    BY <1>4, <2>1, <2>2, <2>3, <2>4, <2>5 DEF SetApart
  <2>8. KeptApart'
    BY <1>4, <2>1, <2>2, <2>3, <2>4, <2>5 DEF KeptApart
  <2> QED
    BY <2>6, <2>7, <2>8 DEF Apart
<1>8. ASSUME NEW i \in Coroutines, NEW c \in Coroutine, NEW inUse \in SUBSET Tids,
             Drops(i, c, inUse)
      PROVE  FALSE
  BY <1>1, <1>8, HasApart DEF Drops
<1>9. ASSUME NEW i \in Coroutines, NEW c \in Coroutine, NEW inUse \in SUBSET Tids,
             Enters(i, c, inUse)
      PROVE  Apart'
  <2>1. /\ Has(i, c, inUse) /\ c.tid \in Tids /\ c.eid \in Eids /\ used' = inUse
        /\ expired' = expired /\ tidMap' = [tidMap EXCEPT ![c.tid] = c.eid]
        /\ uuidMapping' = [d \in Termini |->
                              IF d = c.uuid /\ uuidMapping[d] = 0 THEN c.tid
                              ELSE uuidMapping[d]]
    BY <1>9 DEF Enters, Has
  <2>2. ~Setting(i)' /\ \A j \in Coroutines \ {i} : co'[j] = co[j]
    BY <1>1, <1>3, <1>9 DEF Enters, Setting, Coroutine
  <2>3. /\ c.tid \notin Registered
        /\ c.tid \in inUse /\ used \subseteq inUse
        /\ tidReclaimWindowTimers' \subseteq tidReclaimWindowTimers
        /\ tidReclaimWindowTimers \subseteq tidReclaimWindowTimers' \cup {c.tid}
        /\ c.tid \notin tidReclaimWindowTimers' /\ c.tid \notin expired
        /\ \A j \in Coroutines \ {i} : Setting(j) => co[j].tid # c.tid
        /\ \A d \in Termini : uuidMapping[d] = c.tid => c.uuid = d
        /\ Setting(i) => co[i] = c
    BY <1>1, <2>1, HasApart
  <2>4. Registered' = Registered \cup {c.tid}
    BY <1>1, <1>3, <2>1 DEF Registered
  <2>5. Fresh' \subseteq Fresh /\ c.tid \notin Fresh'
    BY <2>1, <2>3 DEF Fresh
  <2>6. \A j \in Coroutines \ {i} : Setting(j)' <=> Setting(j)
    BY <2>2 DEF Setting
  <2>7. UsedApart'
    BY <1>4, <2>1, <2>3, <2>4, <2>5 DEF UsedApart
  <2>8. SetApart'
    BY <1>4, <2>1, <2>2, <2>3, <2>4, <2>5, <2>6 DEF SetApart
  <2>9. \A d \in Termini : /\ uuidMapping'[d] # uuidMapping[d] => d = c.uuid /\ uuidMapping'[d] = c.tid
                           /\ uuidMapping'[d] = c.tid => d = c.uuid
                           /\ uuidMapping'[d] = uuidMapping[d] \/ uuidMapping'[d] = c.tid
    BY <1>1, <2>1, <2>3
  <2>10. KeptApart'
    <3> SUFFICES ASSUME NEW d \in Termini, uuidMapping'[d] # 0
                 PROVE  (/\ \/ uuidMapping[d] \in Registered \cup tidReclaimWindowTimers
                            \/ \E k \in Coroutines : Setting(k) /\ co[k].tid = uuidMapping[d]
                         /\ \A f \in Termini : uuidMapping[f] = uuidMapping[d] => f = d
                         /\ \A k \in Coroutines :
                               Setting(k) /\ co[k].tid = uuidMapping[d] => co[k].uuid = d)'
      BY DEF KeptApart
    <3>1. CASE uuidMapping'[d] = c.tid
      BY <2>2, <2>3, <2>4, <2>6, <2>9, <3>1
    <3>2. CASE uuidMapping'[d] # c.tid
      <4>1. uuidMapping'[d] = uuidMapping[d] /\ uuidMapping[d] # 0
        BY <2>9, <3>2
      <4>2. /\ \/ uuidMapping[d] \in Registered \cup tidReclaimWindowTimers
               \/ \E k \in Coroutines : Setting(k) /\ co[k].tid = uuidMapping[d]
            /\ \A f \in Termini : uuidMapping[f] = uuidMapping[d] => f = d
            /\ \A k \in Coroutines : Setting(k) /\ co[k].tid = uuidMapping[d] => co[k].uuid = d
        BY <1>4, <4>1 DEF KeptApart
      <4> QED
        BY <2>2, <2>3, <2>4, <2>6, <2>9, <3>2, <4>1, <4>2
    <3> QED
      BY <3>1, <3>2
  <2> QED
    BY <2>7, <2>8, <2>10 DEF Apart
<1>10. ASSUME NEW i \in Coroutines, SetTidArrives(i) PROVE Apart'
  <2>1. UNCHANGED <<used, uuidMapping, tidReclaimWindowTimers, expired, tidMap>>
    BY <1>10 DEF SetTidArrives, tidVars, mapVars
  <2>2. \A j \in Coroutines :
            /\ Setting(j)' <=> Setting(j)
            /\ Setting(j) => co'[j].tid = co[j].tid /\ co'[j].uuid = co[j].uuid
    BY <1>1, <1>10 DEF SetTidArrives, Setting, Coroutine
  <2> QED
    BY <1>5, <2>1, <2>2
<1>11. ASSUME NEW i \in Coroutines, PlatformDone(i) \/ PlatformFails(i) PROVE Apart'
  <2>1. UNCHANGED <<used, uuidMapping, tidReclaimWindowTimers, expired, tidMap>>
    BY <1>11 DEF PlatformDone, PlatformFails, tidVars, mapVars
  <2>2. \A j \in Coroutines :
            /\ Setting(j)' <=> Setting(j)
            /\ Setting(j) => co'[j].tid = co[j].tid /\ co'[j].uuid = co[j].uuid
    BY <1>1, <1>3, <1>11 DEF PlatformDone, PlatformFails, End, Setting
  <2> QED
    BY <1>5, <2>1, <2>2
<1>12. ASSUME NEW i \in Coroutines, SetTidFails(i) PROVE Apart'
  <2>1. /\ Setting(i) /\ used' = used \ {co[i].tid} /\ co[i].tid \in Tids
        /\ UNCHANGED <<uuidMapping, tidReclaimWindowTimers, expired, tidMap>>
    BY <1>1, <1>12 DEF SetTidFails, PushFrontUnusedTID, Setting, mapVars, Sound
  <2>2. ~Setting(i)' /\ \A j \in Coroutines \ {i} : co'[j] = co[j] /\ (Setting(j)' <=> Setting(j))
    BY <1>1, <1>3, <1>12 DEF SetTidFails, End, Setting
  <2>3. PrevTid(co[i]) = 0
    BY <1>12 DEF SetTidFails, Regular, TidMixUps
  <2>4. \A d \in Termini : uuidMapping[d] # co[i].tid
    BY <1>3, <1>4, <2>1, <2>3, Constants DEF KeptApart, PrevTid
  <2>5. Registered' = Registered /\ Fresh' = Fresh
    BY <2>1 DEF Registered, Fresh
  <2>6. /\ co[i].tid \notin Registered /\ co[i].tid \notin Fresh
        /\ \A j \in Coroutines \ {i} : Setting(j) => co[j].tid # co[i].tid
    BY <1>4, <2>1 DEF SetApart
  <2>7. UsedApart' /\ SetApart'
    BY <1>4, <2>1, <2>2, <2>5, <2>6 DEF UsedApart, SetApart
  <2>8. KeptApart'
    BY <1>4, <2>1, <2>2, <2>4, <2>5 DEF KeptApart
  <2> QED
    BY <2>7, <2>8 DEF Apart
<1>13. ASSUME NEW e \in Eids, DeviceRemoved(e) PROVE Apart'
  <2>1. UNCHANGED <<used, uuidMapping, expired, co>>
    BY <1>13 DEF DeviceRemoved
  <2>2. CASE UNCHANGED <<tidReclaimWindowTimers, mapVars>>
    BY <1>5, <2>1, <2>2 DEF mapVars, Setting
  <2>3. ASSUME NEW t \in Tids, tidMap[t] = e, DeleteDevice(t) PROVE Apart'
    <3>1. /\ t \in Registered /\ Registered' = Registered \ {t}
          /\ tidReclaimWindowTimers' =
                 tidReclaimWindowTimers \cup {u \in {t} : \E d \in Termini : uuidMapping[d] = u}
      BY <1>1, <1>3, <2>3 DEF DeleteDevice, ReleaseTIDAfterReclaimInterval, Registered
    <3>2. UsedApart'
      BY <1>4, <2>1, <3>1 DEF UsedApart, Fresh
    <3>3. SetApart'
      BY <1>4, <2>1, <3>1 DEF SetApart, Setting, Fresh
    <3>4. KeptApart'
      BY <1>4, <2>1, <3>1 DEF KeptApart, Setting
    <3> QED
      BY <3>2, <3>3, <3>4 DEF Apart
  <2> QED
    BY <1>13, <2>2, <2>3 DEF DeviceRemoved
<1>14. ASSUME NEW t \in Tids, ReclaimWindowEnds(t) PROVE Apart'
  <2>1. /\ t \in tidReclaimWindowTimers /\ expired' = expired \cup {t}
        /\ UNCHANGED <<used, uuidMapping, tidReclaimWindowTimers, tidMap, co>>
    BY <1>14 DEF ReclaimWindowEnds, tidVars, mapVars
  <2>2. Registered' = Registered /\ Fresh' = Fresh
    BY <2>1 DEF Registered, Fresh
  <2> QED
    BY <1>4, <2>1, <2>2 DEF Apart, UsedApart, SetApart, KeptApart, Setting
<1>15. ASSUME NEW t \in Tids, ReleaseTid(t) PROVE Apart'
  <2>1. /\ t \in Fresh /\ used' = used \ {t} /\ Fresh' = Fresh \ {t} /\ t # 0
        /\ tidReclaimWindowTimers' = tidReclaimWindowTimers \ {t}
        /\ co' = co /\ tidMap' = tidMap
    BY <1>3, <1>15 DEF ReleaseTid, PushBackFreedTID, Fresh, mapVars
  <2>2. Registered' = Registered /\ t \notin Registered
    BY <1>4, <2>1 DEF Registered, UsedApart
  <2>3. \A d \in Termini : IF uuidMapping[d] = t THEN uuidMapping'[d] = 0
                                                 ELSE uuidMapping'[d] = uuidMapping[d]
    <3>1. CASE UNCHANGED uuidMapping /\ \A d \in Termini : uuidMapping[d] # t
      BY <3>1
    <3>2. ASSUME NEW d \in Termini, uuidMapping[d] = t,
                 uuidMapping' = [uuidMapping EXCEPT ![d] = 0]
          PROVE  \A f \in Termini : IF uuidMapping[f] = t THEN uuidMapping'[f] = 0
                                                          ELSE uuidMapping'[f] = uuidMapping[f]
      BY <1>1, <1>4, <2>1, <3>2 DEF KeptApart
    <3> QED
      BY <1>15, <3>1, <3>2 DEF ReleaseTid
  <2>4. UsedApart'
    BY <1>4, <2>1, <2>2 DEF UsedApart
  <2>5. SetApart'
    BY <1>4, <2>1, <2>2 DEF SetApart, Setting
  <2>6. KeptApart'
    BY <1>4, <2>1, <2>2, <2>3 DEF KeptApart, Setting
  <2> QED
    BY <2>4, <2>5, <2>6 DEF Apart
<1> QED
  BY <1>6, <1>7, <1>8, <1>9, <1>10, <1>11, <1>12, <1>13, <1>14, <1>15 DEF StepKind

Inv == Types /\ OncePerEid /\ TidsApart

LEMMA InvInit == Init => Inv
BY InitTypes, OnceInit, ApartInit DEF Inv

LEMMA InvNext == Inv /\ [Next]_vars => Inv'
BY NextTypes, StepKinds, OnceNext, ApartNext DEF Inv

\* A TID that is registered, about to be set, or kept for a UUID is used, unless
\* a failed SetTID, an overlap, a late reclaim handler or a move has mixed TIDs up.
THEOREM HeldTidsStayUsed == Spec => []HeldTidsAreUsed
<1>1. Inv => HeldTidsAreUsed
  <2> SUFFICES ASSUME Inv, Regular(TidMixUps)
               PROVE  BeingSet \cup Kept \cup Registered \subseteq used
    BY DEF HeldTidsAreUsed
  <2>1. Apart
    BY DEF Inv, TidsApart
  <2>2. BeingSet \subseteq used
    BY <2>1 DEF Apart, SetApart, BeingSet, Setting
  <2>3. Kept \subseteq used
    BY <2>1, KeptIsUsed DEF Kept
  <2> QED
    BY <2>1, <2>2, <2>3 DEF Apart, UsedApart
<1> QED
  BY <1>1, InvInit, InvNext, PTL DEF Spec

LEMMA UsedReturnNext == Types /\ Types' /\ UsedTidsReturn /\ StepKind => UsedTidsReturn'
<1> SUFFICES ASSUME Types, Types', UsedTidsReturn, StepKind, Regular({"noUuid"})'
             PROVE  used' \subseteq BeingSet' \cup Registered' \cup tidReclaimWindowTimers'
  BY DEF UsedTidsReturn
<1>0. used' \subseteq Tids
  BY DEF Types, TypeOK
<1> SUFFICES ASSUME NEW t \in Tids, t \in used'
             PROVE  \/ t \in Registered' \/ t \in tidReclaimWindowTimers'
                    \/ \E j \in Coroutines : Setting(j)' /\ co'[j].tid = t
  BY <1>0 DEF BeingSet, Setting
<1>1. /\ co \in [Coroutines -> Coroutine] /\ tidMap \in [Tids -> Eids \cup {None}]
      /\ irregular \subseteq irregular'
  BY DEF Types, TypeOK, StepKind
<1>2. t \in used => \/ t \in Registered \/ t \in tidReclaimWindowTimers
                    \/ \E j \in Coroutines : Setting(j) /\ co[j].tid = t
  BY <1>1, RegularBefore DEF UsedTidsReturn, BeingSet, Setting
<1>3. Idle.pc = "idle" /\ None \notin Eids
  BY Constants DEF Idle
<1>4. ASSUME used' \subseteq used, Registered' = Registered,
             tidReclaimWindowTimers \subseteq tidReclaimWindowTimers',
             \A j \in Coroutines : Setting(j) => Setting(j)' /\ co'[j].tid = co[j].tid
      PROVE  \/ t \in Registered' \/ t \in tidReclaimWindowTimers'
             \/ \E j \in Coroutines : Setting(j)' /\ co'[j].tid = t
  BY <1>2, <1>4
<1>5. ASSUME NEW i \in Coroutines, NEW c \in Coroutine, NEW inUse \in SUBSET Tids,
             Has(i, c, inUse)
      PROVE  /\ inUse \subseteq used \cup {c.tid}
             /\ tidReclaimWindowTimers \subseteq tidReclaimWindowTimers' \cup {c.tid}
             /\ Setting(i) => co[i].tid = c.tid
  BY <1>5 DEF Has, Takes, Setting
<1>6. CASE Aside
  <2>1. \A j \in Coroutines : Setting(j) => Setting(j)' /\ co'[j].tid = co[j].tid
    BY <1>1, <1>6 DEF Aside, Setting
  <2>2. /\ used' = used /\ tidReclaimWindowTimers' = tidReclaimWindowTimers
        /\ Registered' = Registered
    BY <1>6 DEF Aside, Registered
  <2> QED
    BY <1>4, <2>1, <2>2
<1>7. ASSUME NEW i \in Coroutines, NEW c \in Coroutine, NEW inUse \in SUBSET Tids,
             Sends(i, c, inUse)
      PROVE  \/ t \in Registered' \/ t \in tidReclaimWindowTimers'
             \/ \E j \in Coroutines : Setting(j)' /\ co'[j].tid = t
  <2>1. /\ co'[i].tid = c.tid /\ Setting(i)'
        /\ \A j \in Coroutines \ {i} : co'[j] = co[j] /\ (Setting(j)' <=> Setting(j))
    BY <1>1, <1>7 DEF Sends, Setting, Coroutine
  <2>2. Registered' = Registered /\ used' = inUse /\ Has(i, c, inUse)
    BY <1>7 DEF Sends, Registered
  <2> QED
    BY <1>2, <1>5, <2>1, <2>2
<1>8. ASSUME NEW i \in Coroutines, NEW c \in Coroutine, NEW inUse \in SUBSET Tids,
             Drops(i, c, inUse)
      PROVE  \/ t \in Registered' \/ t \in tidReclaimWindowTimers'
             \/ \E j \in Coroutines : Setting(j)' /\ co'[j].tid = t
  <2>1. \A j \in Coroutines \ {i} : co'[j] = co[j] /\ (Setting(j)' <=> Setting(j))
    BY <1>1, <1>8 DEF Drops, Setting
  <2>2. /\ Registered' = Registered /\ used' = inUse \ {c.tid} /\ Has(i, c, inUse)
    BY <1>8 DEF Drops, Registered
  <2> QED
    BY <1>2, <1>5, <2>1, <2>2
<1>9. ASSUME NEW i \in Coroutines, NEW c \in Coroutine, NEW inUse \in SUBSET Tids,
             Enters(i, c, inUse)
      PROVE  \/ t \in Registered' \/ t \in tidReclaimWindowTimers'
             \/ \E j \in Coroutines : Setting(j)' /\ co'[j].tid = t
  <2>1. \A j \in Coroutines \ {i} : co'[j] = co[j] /\ (Setting(j)' <=> Setting(j))
    BY <1>1, <1>9 DEF Enters, Setting
  <2>2. c.tid \in Registered' /\ Registered \subseteq Registered'
    BY <1>1, <1>3, <1>9 DEF Enters, Has, Registered
  <2>3. used' = inUse /\ Has(i, c, inUse)
    BY <1>9 DEF Enters
  <2> QED
    BY <1>2, <1>5, <2>1, <2>2, <2>3
<1>10. ASSUME NEW i \in Coroutines, SetTidArrives(i) \/ PlatformDone(i) \/ PlatformFails(i)
       PROVE  \/ t \in Registered' \/ t \in tidReclaimWindowTimers'
              \/ \E j \in Coroutines : Setting(j)' /\ co'[j].tid = t
  <2>1. /\ used' = used /\ tidReclaimWindowTimers' = tidReclaimWindowTimers
        /\ Registered' = Registered
    BY <1>10 DEF SetTidArrives, PlatformDone, PlatformFails, tidVars, mapVars, Registered
  <2>2. \A j \in Coroutines : Setting(j) => Setting(j)' /\ co'[j].tid = co[j].tid
    BY <1>1, <1>10 DEF SetTidArrives, PlatformDone, PlatformFails, End, Setting, Coroutine
  <2> QED
    BY <1>4, <2>1, <2>2
<1>11. ASSUME NEW i \in Coroutines, SetTidFails(i)
       PROVE  \/ t \in Registered' \/ t \in tidReclaimWindowTimers'
              \/ \E j \in Coroutines : Setting(j)' /\ co'[j].tid = t
  <2>1. /\ used' = used \ {co[i].tid} /\ tidReclaimWindowTimers' = tidReclaimWindowTimers
        /\ Registered' = Registered
    BY <1>11 DEF SetTidFails, PushFrontUnusedTID, mapVars, Registered
  <2>2. \A j \in Coroutines \ {i} : co'[j] = co[j] /\ (Setting(j)' <=> Setting(j))
    BY <1>1, <1>11 DEF SetTidFails, End, Setting
  <2> QED
    BY <1>2, <2>1, <2>2
<1>12. ASSUME NEW e \in Eids, DeviceRemoved(e)
       PROVE  \/ t \in Registered' \/ t \in tidReclaimWindowTimers'
              \/ \E j \in Coroutines : Setting(j)' /\ co'[j].tid = t
  <2>1. used' = used /\ co' = co
    BY <1>12 DEF DeviceRemoved
  <2>2. CASE UNCHANGED <<tidReclaimWindowTimers, mapVars>>
    BY <1>2, <2>1, <2>2 DEF Registered, Setting, mapVars
  <2>3. ASSUME NEW u \in Tids, tidMap[u] = e, DeleteDevice(u)
        PROVE  \/ t \in Registered' \/ t \in tidReclaimWindowTimers'
               \/ \E j \in Coroutines : Setting(j)' /\ co'[j].tid = t
    <3>1. /\ Registered' = Registered \ {u}
          /\ tidReclaimWindowTimers' =
                 tidReclaimWindowTimers \cup {v \in {u} : \E d \in Termini : uuidMapping[d] = v}
      BY <1>1, <2>3 DEF DeleteDevice, ReleaseTIDAfterReclaimInterval, Registered
    <3>2. \E d \in Termini : uuidMapping[d] = u
      BY <1>12, <2>3 DEF DeviceRemoved, Regular
    <3> QED
      BY <1>2, <2>1, <3>1, <3>2 DEF Setting
  <2> QED
    BY <1>12, <2>2, <2>3 DEF DeviceRemoved
<1>13. ASSUME NEW u \in Tids, ReclaimWindowEnds(u) \/ ReleaseTid(u)
       PROVE  \/ t \in Registered' \/ t \in tidReclaimWindowTimers'
              \/ \E j \in Coroutines : Setting(j)' /\ co'[j].tid = t
  <2>1. /\ co' = co /\ tidMap' = tidMap
        /\ \/ used' = used /\ tidReclaimWindowTimers' = tidReclaimWindowTimers
           \/ /\ used' = used \ {u}
              /\ tidReclaimWindowTimers' = tidReclaimWindowTimers \ {u}
    BY <1>13 DEF ReclaimWindowEnds, ReleaseTid, PushBackFreedTID, tidVars, mapVars
  <2> QED
    BY <1>2, <2>1 DEF Registered, Setting
<1> QED
  BY <1>6, <1>7, <1>8, <1>9, <1>10, <1>11, <1>12, <1>13 DEF StepKind

\* No TID is lost to the pool: a used one is registered, about to be set, or in
\* its reclaim window, unless a terminus without a UUID has gone.
THEOREM UsedTidsComeBack == Spec => []UsedTidsReturn
<1>1. Init => UsedTidsReturn
  BY DEF Init, UsedTidsReturn
<1>2. Types /\ UsedTidsReturn /\ [Next]_vars => UsedTidsReturn'
  BY NextTypes, StepKinds, UsedReturnNext
<1> QED
  BY <1>1, <1>2, InitTypes, NextTypes, PTL DEF Spec

PlatformsKnown ==
    Regular(TidMixUps) =>
        \A t \in platforms \cup tidsUnderInitialization :
            t \in Registered /\ "platform" \in discoveryDataTable[t]

LEMMA PlatformsKnownNext == Inv /\ PlatformsKnown /\ StepKind => PlatformsKnown'
<1> SUFFICES ASSUME Inv, PlatformsKnown, StepKind, Regular(TidMixUps)',
                    NEW t, t \in platforms' \cup tidsUnderInitialization'
             PROVE  t \in Registered' /\ "platform" \in discoveryDataTable'[t]
  BY DEF PlatformsKnown
<1>1. /\ tidMap \in [Tids -> Eids \cup {None}] /\ irregular \subseteq irregular'
      /\ discoveryDataTable \in [Tids -> SUBSET {"base", "platform"}]
      /\ Types /\ OncePerEid /\ TidsApart /\ None \notin Eids
  BY Constants DEF Inv, Types, TypeOK, StepKind
<1>2. t \in platforms \cup tidsUnderInitialization =>
          t \in Registered /\ "platform" \in discoveryDataTable[t]
  BY <1>1, RegularBefore DEF PlatformsKnown
<1>3. ASSUME /\ UNCHANGED <<tidMap, discoveryDataTable>>
             /\ platforms' \cup tidsUnderInitialization' \subseteq platforms \cup tidsUnderInitialization
      PROVE  t \in Registered' /\ "platform" \in discoveryDataTable'[t]
  BY <1>2, <1>3 DEF Registered
<1>4. CASE \/ Aside
           \/ \E i \in Coroutines, c \in Coroutine, inUse \in SUBSET Tids :
                 Sends(i, c, inUse) \/ Drops(i, c, inUse)
  BY <1>3, <1>4 DEF Aside, Sends, Drops
<1>5. ASSUME NEW i \in Coroutines, NEW c \in Coroutine, NEW inUse \in SUBSET Tids,
             Enters(i, c, inUse)
      PROVE  t \in Registered' /\ "platform" \in discoveryDataTable'[t]
  <2>1. /\ Has(i, c, inUse) /\ c.tid \in Tids /\ c.eid \in Eids
        /\ tidMap' = [tidMap EXCEPT ![c.tid] = c.eid]
        /\ discoveryDataTable' = [discoveryDataTable EXCEPT ![c.tid] = c.tables]
    BY <1>5 DEF Enters, Has
  <2>2. c.tid \notin Registered
    BY <1>1, <2>1, HasApart
  <2>3. CASE t = c.tid
    <3>1. "platform" \in c.tables
      BY <1>2, <1>5, <2>2, <2>3 DEF Enters
    <3> QED
      BY <1>1, <2>1, <2>3, <3>1 DEF Registered
  <2>4. CASE t # c.tid
    <3>1. t \in platforms \cup tidsUnderInitialization
      BY <1>5, <2>4 DEF Enters
    <3> QED
      BY <1>1, <1>2, <2>1, <2>4, <3>1 DEF Registered
  <2> QED
    BY <2>3, <2>4
<1>6. ASSUME NEW i \in Coroutines,
             SetTidArrives(i) \/ SetTidFails(i) \/ PlatformDone(i) \/ PlatformFails(i)
      PROVE  t \in Registered' /\ "platform" \in discoveryDataTable'[t]
  BY <1>3, <1>6
  DEF SetTidArrives, SetTidFails, PlatformDone, PlatformFails, platformVars, mapVars
<1>7. ASSUME NEW e \in Eids, DeviceRemoved(e)
      PROVE  t \in Registered' /\ "platform" \in discoveryDataTable'[t]
  <2>1. CASE UNCHANGED <<platformVars, mapVars>>
    BY <1>3, <2>1 DEF platformVars, mapVars
  <2>2. ASSUME NEW u \in Tids, DeleteDevice(u)
        PROVE  t \in Registered' /\ "platform" \in discoveryDataTable'[t]
    <3>1. t \in platforms \cup tidsUnderInitialization
      BY <2>2 DEF DeleteDevice, DeletePlatform, platformVars
    <3>2. t # u
      BY <1>2, <2>2, <3>1 DEF DeleteDevice, DeletePlatform, platformVars
    <3> QED
      BY <1>1, <1>2, <2>2, <3>1, <3>2 DEF DeleteDevice, Registered
  <2> QED
    BY <1>7, <2>1, <2>2 DEF DeviceRemoved
<1>8. ASSUME NEW u \in Tids, ReclaimWindowEnds(u) \/ ReleaseTid(u)
      PROVE  t \in Registered' /\ "platform" \in discoveryDataTable'[t]
  BY <1>3, <1>8 DEF ReclaimWindowEnds, ReleaseTid, platformVars, mapVars
<1> QED
  BY <1>4, <1>5, <1>6, <1>7, <1>8 DEF StepKind

\* Platform monitoring is only of registered termini, unless TIDs were mixed up.
THEOREM PlatformsStayRegistered == Spec => []PlatformsFollowTids
<1>1. Init => PlatformsKnown
  BY DEF Init, PlatformsKnown
<1>2. PlatformsKnown => PlatformsFollowTids
  BY DEF PlatformsKnown, PlatformsFollowTids
<1>3. Inv /\ PlatformsKnown /\ [Next]_vars => PlatformsKnown'
  BY StepKinds, PlatformsKnownNext DEF Inv
<1> QED
  BY <1>1, <1>2, <1>3, InvInit, InvNext, PTL DEF Spec

-----------------------------------------------------------------------------
(***************************************************************************)
(* What has happened to an endpoint, and what pldmd has still to hear.     *)
(***************************************************************************)
ToBeRemoved(e) == \E k \in 1 .. Len(events[e]) : events[e][k] = "deviceRemoved"

\* The last callback to come tells whether the endpoint is there.
LastEvent ==
    /\ \A d, f \in Termini : eidOf[d] = eidOf[f] /\ eidOf[d] # None => d = f
    /\ \A e \in Eids : events[e] # <<>> =>
          (events[e][Len(events[e])] = "deviceAdded" <=> e \in Present)

\* Nothing comes or goes, and no callback comes.
Still == UNCHANGED <<events, eidOf>> /\ unlucky \subseteq unlucky'

\* Any step that is not Still
Moves ==
    \/ \E d \in Termini, e \in Eids : Plug(d, e)
    \/ \E d \in Termini : Unplug(d)
    \/ \E e \in Eids : DeviceRemoved(e)
    \/ \E i \in Coroutines, e \in Eids : DeviceAdded(i, e)

LEMMA StillOrMoves == Types /\ [Next]_vars => Still \/ Moves
<1> SUFFICES ASSUME Types, [Next]_vars PROVE Still \/ Moves
  OBVIOUS
<1>1. CASE UNCHANGED vars
  BY <1>1 DEF vars, envVars, Still
<1>2. CASE InitNext
  BY <1>2 DEF InitNext, envVars, Still
<1>3. ASSUME NEW i \in Coroutines, InitDevice(i) PROVE Still
  BY <1>3 DEF InitDevice, envVars, Still
<1>4. ASSUME NEW i \in Coroutines, NEW c, ChooseTid(i, c) PROVE unlucky \subseteq unlucky'
  BY <1>4 DEF ChooseTid
<1>5. ASSUME NEW i \in Coroutines, TypesAnswered(i) PROVE Still
  <2>1. UNCHANGED <<events, eidOf>> /\ (unlucky' = unlucky \/ \E c : ChooseTid(i, c))
    BY <1>5, Zenon DEF TypesAnswered
  <2> QED
    BY <1>4, <2>1 DEF Still
<1>6. ASSUME NEW i \in Coroutines, UuidAnswered(i) PROVE Still
  BY <1>4, <1>6 DEF UuidAnswered, envVars, Still
<1>7. ASSUME NEW i \in Coroutines, UuidFails(i) PROVE Still
  BY <1>4, <1>7 DEF UuidFails, Still
<1>8. ASSUME NEW i \in Coroutines, TypesFail(i) \/ SetTidFails(i) \/ PlatformFails(i) PROVE Still
  BY <1>8 DEF TypesFail, SetTidFails, PlatformFails, Fails, Still
<1>9. ASSUME NEW i \in Coroutines, SetTidArrives(i) \/ SetTidAnswered(i) \/ PlatformDone(i) PROVE Still
  BY <1>9 DEF SetTidArrives, SetTidAnswered, PlatformDone, envVars, Still
<1>10. ASSUME NEW t \in Tids, ReclaimWindowEnds(t) \/ ReleaseTid(t) PROVE Still
  BY <1>10 DEF ReclaimWindowEnds, ReleaseTid, envVars, Still
<1> QED
  BY <1>1, <1>2, <1>3, <1>5, <1>6, <1>7, <1>8, <1>9, <1>10 DEF Next, Moves

\* A callback that comes leaves the ones behind it.
LEMMA CallbackLeaves ==
    ASSUME Types, LastEvent, NEW e \in Eids, NEW type \in Event, NextEvent(e, type)
    PROVE  /\ events'[e] # <<>> =>
                  /\ events'[e][Len(events'[e])] = events[e][Len(events[e])]
           /\ type = "deviceRemoved" /\ e \in Present => events'[e] # <<>>
           /\ type = "deviceAdded" => (ToBeRemoved(e) => ToBeRemoved(e)')
           /\ \A f \in Eids \ {e} : events'[f] = events[f]
<1>1. /\ events'[e] \in Seq(Event) /\ events[e] # <<>> /\ events[e] \in Seq(Event)
      /\ events[e][1] = type /\ Len(events'[e]) = Len(events[e]) - 1
      /\ \A k \in 1 .. Len(events'[e]) : events'[e][k] = events[e][k + 1]
      /\ \A f \in Eids \ {e} : events'[f] = events[f]
  BY NextEventFacts DEF Types, TypeOK
<1>2. /\ Len(events[e]) \in Nat /\ Len(events'[e]) \in Nat
      /\ events'[e] # <<>> => Len(events'[e]) # 0
      /\ events'[e] = <<>> => Len(events'[e]) = 0
  BY <1>1, EmptySeq, LenProperties
<1>3. ASSUME events'[e] # <<>>
      PROVE  events'[e][Len(events'[e])] = events[e][Len(events[e])]
  <2>1. Len(events'[e]) \in 1 .. Len(events'[e]) /\ Len(events'[e]) + 1 = Len(events[e])
    BY <1>1, <1>2, <1>3
  <2> QED
    BY <1>1, <2>1
<1>4. ASSUME type = "deviceRemoved", e \in Present, events'[e] = <<>> PROVE FALSE
  <2>1. Len(events[e]) = 1
    BY <1>1, <1>2, <1>4
  <2> QED
    BY <1>1, <1>4, <2>1 DEF LastEvent
<1>5. ASSUME type = "deviceAdded", NEW k \in 1 .. Len(events[e]), events[e][k] = "deviceRemoved"
      PROVE  ToBeRemoved(e)'
  <2>1. k # 1
    BY <1>1, <1>5
  <2>2. k - 1 \in 1 .. Len(events'[e]) /\ (k - 1) + 1 = k
    BY <1>1, <1>2, <2>1
  <2>3. events'[e][k - 1] = "deviceRemoved"
    BY <1>1, <1>5, <2>2
  <2> QED
    BY <2>2, <2>3 DEF ToBeRemoved
<1> QED
  BY <1>1, <1>3, <1>4, <1>5 DEF ToBeRemoved

LEMMA PresentAfter ==
    ASSUME Types, LastEvent
    PROVE  /\ \A d \in Termini, e \in Eids :
                  Plug(d, e) => Present' = Present \cup {e} /\ e \notin Present
           /\ \A d \in Termini :
                  Unplug(d) => Present' = Present \ {eidOf[d]} /\ eidOf[d] \in Eids
<1>1. eidOf \in [Termini -> Eids \cup {None}] /\ None \notin Eids
  BY Constants DEF Types, TypeOK
<1>2. ASSUME NEW d \in Termini, NEW e \in Eids, Plug(d, e)
      PROVE  Present' = Present \cup {e} /\ e \notin Present
  BY <1>1, <1>2 DEF Plug, Present
<1>3. ASSUME NEW d \in Termini, Unplug(d)
      PROVE  Present' = Present \ {eidOf[d]} /\ eidOf[d] \in Eids
  BY <1>1, <1>3 DEF Unplug, Present, LastEvent
<1> QED
  BY <1>2, <1>3

LEMMA LastEventInit == Init => LastEvent
BY DEF Init, LastEvent

LEMMA LastEventNext == Types /\ LastEvent /\ [Next]_vars => LastEvent'
<1> SUFFICES ASSUME Types, LastEvent, [Next]_vars PROVE LastEvent'
  OBVIOUS
<1>1. eidOf \in [Termini -> Eids \cup {None}] /\ None \notin Eids
  BY Constants DEF Types, TypeOK
<1>2. CASE Still
  <2>1. Present' = Present
    BY <1>2 DEF Still, Present
  <2> QED
    BY <1>2, <2>1 DEF Still, LastEvent
<1>3. ASSUME NEW d \in Termini, NEW e \in Eids, Plug(d, e) PROVE LastEvent'
  <2>1. Present' = Present \cup {e} /\ e \notin Present
    BY <1>3, PresentAfter
  <2>2. /\ events'[e][Len(events'[e])] = "deviceAdded"
        /\ \A f \in Eids \ {e} : events'[f] = events[f]
    BY <1>3, AppendFacts DEF Plug, Event
  <2>3. \A f, g \in Termini : eidOf'[f] = eidOf'[g] /\ eidOf'[f] # None => f = g
    BY <1>1, <1>3 DEF Plug, Present, LastEvent
  <2> QED
    BY <2>1, <2>2, <2>3 DEF LastEvent
<1>4. ASSUME NEW d \in Termini, Unplug(d) PROVE LastEvent'
  <2>1. Present' = Present \ {eidOf[d]} /\ eidOf[d] \in Eids
    BY <1>4, PresentAfter
  <2>2. /\ events'[eidOf[d]][Len(events'[eidOf[d]])] = "deviceRemoved"
        /\ \A f \in Eids \ {eidOf[d]} : events'[f] = events[f]
    BY <1>4, <2>1, AppendFacts DEF Unplug, Event
  <2>3. \A f, g \in Termini : eidOf'[f] = eidOf'[g] /\ eidOf'[f] # None => f = g
    BY <1>1, <1>4 DEF Unplug, LastEvent
  <2> QED
    BY <2>1, <2>2, <2>3 DEF LastEvent
<1>5. ASSUME NEW e \in Eids, NEW type \in Event, NextEvent(e, type), UNCHANGED eidOf
      PROVE  LastEvent'
  <2>1. Present' = Present
    BY <1>5 DEF Present
  <2> QED
    BY <1>5, <2>1, CallbackLeaves DEF LastEvent, NextEvent
<1>6. ASSUME NEW e \in Eids,
             DeviceRemoved(e) \/ \E i \in Coroutines : DeviceAdded(i, e)
      PROVE  LastEvent'
  BY <1>5, <1>6 DEF DeviceRemoved, DeviceAdded, envVars, Event
<1> QED
  BY <1>2, <1>3, <1>4, <1>6, StillOrMoves DEF Moves

Missable(e) == e \in Present \/ ToBeRemoved(e)

\* What pldmd knows of is there, or pldmd will hear that it has gone.
Missed ==
    Regular({"removed"}) =>
        /\ \A e \in Mapped : Missable(e)
        /\ \A i \in Coroutines : co[i].pc = "uuid" \/ Setting(i) => Missable(co[i].eid)

LEMMA MissableStays ==
    ASSUME Types, LastEvent, [Next]_vars, NEW e \in Eids, ~DeviceRemoved(e)
    PROVE  /\ ToBeRemoved(e) => ToBeRemoved(e)'
           /\ Missable(e) => Missable(e)'
<1>1. CASE Still
  BY <1>1 DEF Still, Missable, ToBeRemoved, Present
<1>2. ASSUME NEW d \in Termini, NEW f \in Eids, Plug(d, f)
      PROVE  /\ ToBeRemoved(e) => ToBeRemoved(e)'
             /\ Missable(e) => Missable(e)'
  <2>1. Present' = Present \cup {f}
    BY <1>2, PresentAfter
  <2>2. /\ Len(events[f]) \in Nat /\ Len(events'[f]) = Len(events[f]) + 1
        /\ \A k \in 1 .. Len(events[f]) : events'[f][k] = events[f][k]
        /\ \A g \in Eids \ {f} : events'[g] = events[g]
    BY <1>2, AppendFacts DEF Plug, Event
  <2>3. ToBeRemoved(e) => ToBeRemoved(e)'
    BY <2>2 DEF ToBeRemoved
  <2> QED
    BY <2>1, <2>3 DEF Missable
<1>3. ASSUME NEW d \in Termini, Unplug(d)
      PROVE  /\ ToBeRemoved(e) => ToBeRemoved(e)'
             /\ Missable(e) => Missable(e)'
  <2> DEFINE f == eidOf[d]
  <2>1. Present' = Present \ {f} /\ f \in Eids
    BY <1>3, PresentAfter
  <2>2. /\ Len(events[f]) \in Nat /\ Len(events'[f]) = Len(events[f]) + 1
        /\ events'[f][Len(events'[f])] = "deviceRemoved"
        /\ \A k \in 1 .. Len(events[f]) : events'[f][k] = events[f][k]
        /\ \A g \in Eids \ {f} : events'[g] = events[g]
    BY <1>3, <2>1, AppendFacts DEF Unplug, Event
  <2> HIDE DEF f
  <2>3. ToBeRemoved(e) => ToBeRemoved(e)'
    BY <2>2 DEF ToBeRemoved
  <2>4. e = f => ToBeRemoved(e)'
    <3>1. Len(events'[f]) \in 1 .. Len(events'[f])
      BY <2>2
    <3> QED
      BY <2>2, <3>1 DEF ToBeRemoved
  <2> QED
    BY <2>1, <2>3, <2>4 DEF Missable
<1>4. ASSUME NEW f \in Eids, NEW type \in Event, NextEvent(f, type), UNCHANGED eidOf,
             f # e \/ type = "deviceAdded"
      PROVE  /\ ToBeRemoved(e) => ToBeRemoved(e)'
             /\ Missable(e) => Missable(e)'
  <2>1. Present' = Present
    BY <1>4 DEF Present
  <2>2. ToBeRemoved(e) => ToBeRemoved(e)'
    <3>1. CASE f = e
      BY <1>4, <3>1, CallbackLeaves
    <3>2. CASE f # e
      BY <1>4, <3>2, CallbackLeaves DEF ToBeRemoved
    <3> QED
      BY <3>1, <3>2
  <2> QED
    BY <2>1, <2>2 DEF Missable
<1>5. ASSUME NEW f \in Eids,
             DeviceRemoved(f) \/ \E i \in Coroutines : DeviceAdded(i, f)
      PROVE  /\ ToBeRemoved(e) => ToBeRemoved(e)'
             /\ Missable(e) => Missable(e)'
  BY <1>4, <1>5 DEF DeviceRemoved, DeviceAdded, envVars, Event
<1> QED
  BY <1>1, <1>2, <1>3, <1>5, StillOrMoves DEF Moves

\* Only an endpoint that is there gets on from the first command.
LEMMA TypesLeft ==
    ASSUME Types, [Next]_vars, NEW i \in Coroutines, co[i].pc = "types"
    PROVE  \/ co'[i] = co[i] \/ co[i].eid \in Present
           \/ co'[i] = Idle /\ tidMap' = tidMap
<1> DEFINE P == \/ co'[i] = co[i] \/ co[i].eid \in Present
                \/ co'[i] = Idle /\ tidMap' = tidMap
<1>1. co \in [Coroutines -> Coroutine] /\ Idle.pc = "idle"
  BY DEF Types, TypeOK, Idle
<1>2. ASSUME NEW j \in Coroutines, NEW r, co' = [co EXCEPT ![j] = r], co[j].pc # "types" PROVE P
  BY <1>1, <1>2
<1>3. ASSUME NEW j \in Coroutines, NEW c, Register(j, c, used), co[j].pc # "types" PROVE P
  <2>1. \E r : co' = [co EXCEPT ![j] = r]
    BY <1>3 DEF Register, End
  <2> QED
    BY <1>2, <1>3, <2>1
<1>4. ASSUME NEW j \in Coroutines, NEW c, ChooseTid(j, c), co[j].pc # "types" PROVE P
  <2>1. \E r : co' = [co EXCEPT ![j] = r]
    BY <1>4 DEF ChooseTid, SendSetTid, Register, End
  <2> QED
    BY <1>2, <1>4, <2>1
<1>5. ASSUME NEW j \in Coroutines, NEW e, BaseInit(j, e), co[j].pc # "types" PROVE P
  <2>1. \E r : co' = [co EXCEPT ![j] = r]
    BY <1>5 DEF BaseInit, End
  <2> QED
    BY <1>2, <1>5, <2>1
<1>6. ASSUME co' = co PROVE P
  BY <1>6
<1>7. ASSUME InitNext PROVE P
  <2>1. co[Main].pc # "types" /\ Main \in Coroutines /\ \E e : BaseInit(Main, e)
    BY <1>1, <1>7, Constants DEF InitNext
  <2> QED
    BY <1>5, <2>1
<1>8. ASSUME NEW j \in Coroutines, NEW e \in Eids, DeviceAdded(j, e) PROVE P
  BY <1>1, <1>2, <1>8 DEF DeviceAdded
<1>9. ASSUME NEW j \in Coroutines, InitDevice(j) PROVE P
  BY <1>5, <1>9 DEF InitDevice
<1>10. ASSUME NEW j \in Coroutines, TypesAnswered(j) PROVE P
  <2>1. co[j].pc = "types" /\ \E d \in Termini : eidOf[d] = co[j].eid
    BY <1>10, Zenon DEF TypesAnswered, Answers
  <2>2. co[j].eid \in Eids
    BY <2>1 DEF Types, Sound
  <2>3. co[j].eid \in Present
    BY <2>1, <2>2, Constants DEF Present
  <2>4. \E r : co' = [co EXCEPT ![j] = r]
    <3>1. \/ \E r : co' = [co EXCEPT ![j] = r]
          \/ \E c : ChooseTid(j, c)
      BY <1>10, Zenon DEF TypesAnswered
    <3> QED
      BY <3>1 DEF ChooseTid, SendSetTid, Register, End
  <2> QED
    BY <1>1, <2>3, <2>4
<1>11. ASSUME NEW j \in Coroutines, TypesFail(j) PROVE P
  BY <1>1, <1>11 DEF TypesFail, End, mapVars
<1>12. ASSUME NEW j \in Coroutines,
              \/ UuidAnswered(j) \/ UuidFails(j)
              \/ SetTidArrives(j) \/ SetTidAnswered(j) \/ SetTidFails(j)
              \/ PlatformDone(j) \/ PlatformFails(j)
       PROVE  P
  <2>1. CASE UuidAnswered(j)
    BY <1>4, <2>1 DEF UuidAnswered
  <2>2. CASE UuidFails(j)
    BY <1>4, <2>2 DEF UuidFails
  <2>3. CASE SetTidAnswered(j)
    BY <1>3, <2>3 DEF SetTidAnswered
  <2>4. CASE SetTidArrives(j)
    BY <1>2, <2>4 DEF SetTidArrives
  <2>5. CASE SetTidFails(j) \/ PlatformDone(j) \/ PlatformFails(j)
    BY <1>2, <2>5 DEF SetTidFails, PlatformDone, PlatformFails, End
  <2> QED
    BY <1>12, <2>1, <2>2, <2>3, <2>4, <2>5
<1>13. ASSUME \/ \E d \in Termini, e \in Eids : Plug(d, e)
              \/ \E d \in Termini : Unplug(d)
              \/ \E e \in Eids : DeviceRemoved(e)
              \/ \E t \in Tids : ReclaimWindowEnds(t) \/ ReleaseTid(t)
       PROVE  co' = co
  BY <1>13 DEF Plug, Unplug, Change, DeviceRemoved, ReclaimWindowEnds, ReleaseTid
<1>14. ASSUME UNCHANGED vars PROVE co' = co
  BY <1>14 DEF vars
<1> HIDE DEF P
<1>15. P
  BY <1>6, <1>7, <1>8, <1>9, <1>10, <1>11, <1>12, <1>13, <1>14 DEF Next
<1> QED
  BY <1>15 DEF P

\* What a coroutine and the table of TIDs come from
LEMMA CameFrom ==
    ASSUME Types, StepKind
    PROVE  /\ \A j \in Coroutines : co'[j].pc = "uuid" \/ Setting(j)' =>
                  /\ co'[j].eid = co[j].eid /\ co'[j] # Idle
                  /\ co[j].pc \in {"types", "uuid"} \/ Setting(j)
                  /\ co[j].pc = "types" => co'[j] # co[j]
           /\ \A e \in Mapped' \ Mapped : \E i \in Coroutines :
                  /\ co[i].eid = e /\ tidMap' # tidMap /\ co'[i] # co[i]
                  /\ co[i].pc \in {"types", "uuid"} \/ Setting(i)
<1>1. /\ co \in [Coroutines -> Coroutine] /\ tidMap \in [Tids -> Eids \cup {None}]
      /\ Idle.pc = "idle"
  BY DEF Types, TypeOK, Idle
<1> DEFINE A == \A j \in Coroutines : co'[j].pc = "uuid" \/ Setting(j)' =>
                    /\ co'[j].eid = co[j].eid /\ co'[j] # Idle
                    /\ co[j].pc \in {"types", "uuid"} \/ Setting(j)
                    /\ co[j].pc = "types" => co'[j] # co[j]
           B == \A e \in Mapped' \ Mapped : \E i \in Coroutines :
                    /\ co[i].eid = e /\ tidMap' # tidMap /\ co'[i] # co[i]
                    /\ co[i].pc \in {"types", "uuid"} \/ Setting(i)
<1>2. ASSUME Aside PROVE A /\ B
  <2>1. B
    BY <1>2 DEF Aside, Mapped
  <2>2. A
    BY <1>1, <1>2 DEF Aside, Setting
  <2> QED
    BY <2>1, <2>2
<1>3. ASSUME NEW i \in Coroutines, NEW c \in Coroutine, NEW inUse \in SUBSET Tids,
             Sends(i, c, inUse) \/ Drops(i, c, inUse)
      PROVE  A /\ B
  <2>1. B
    BY <1>3 DEF Sends, Drops, Mapped
  <2>2. A
    BY <1>1, <1>3 DEF Sends, Drops, Has, Setting, Coroutine
  <2> QED
    BY <2>1, <2>2
<1>4. ASSUME NEW i \in Coroutines, NEW c \in Coroutine, NEW inUse \in SUBSET Tids,
             Enters(i, c, inUse)
      PROVE  A /\ B
  <2>1. /\ c.eid = co[i].eid
        /\ co[i].pc \in {"types", "uuid"} \/ Setting(i)
        /\ tidMap' = [tidMap EXCEPT ![c.tid] = c.eid] /\ c.tid \in Tids /\ c.eid \notin Mapped
        /\ c.eid \in Eids
    BY <1>4 DEF Enters, Has, Setting
  <2>2. co'[i].pc \in {"platform", "idle"} /\ \A j \in Coroutines \ {i} : co'[j] = co[j]
    BY <1>1, <1>4 DEF Enters, Coroutine
  <2>3. tidMap' # tidMap
    BY <1>1, <2>1, Constants DEF Mapped
  <2>4. co'[i] # co[i]
    BY <2>1, <2>2 DEF Setting
  <2>5. \A e \in Mapped' \ Mapped : e = c.eid
    BY <1>1, <2>1 DEF Mapped
  <2>6. B
    BY <2>1, <2>3, <2>4, <2>5
  <2>7. A
    BY <1>1, <2>2 DEF Setting
  <2> QED
    BY <2>6, <2>7
<1>5. ASSUME NEW i \in Coroutines,
             SetTidArrives(i) \/ SetTidFails(i) \/ PlatformDone(i) \/ PlatformFails(i)
      PROVE  A /\ B
  <2>1. B
    BY <1>5 DEF SetTidArrives, SetTidFails, PlatformDone, PlatformFails, Mapped, mapVars
  <2>2. A
    BY <1>1, <1>5
    DEF SetTidArrives, SetTidFails, PlatformDone, PlatformFails, End, Setting, Coroutine
  <2> QED
    BY <2>1, <2>2
<1>6. ASSUME NEW e \in Eids, DeviceRemoved(e) PROVE A /\ B
  <2>1. co' = co /\ \/ tidMap' = tidMap
                    \/ \E t \in Tids : tidMap' = [tidMap EXCEPT ![t] = None]
    BY <1>6 DEF DeviceRemoved, DeleteDevice, mapVars
  <2> QED
    BY <1>1, <2>1 DEF Mapped, Setting
<1>7. ASSUME NEW t \in Tids, ReclaimWindowEnds(t) \/ ReleaseTid(t) PROVE A /\ B
  <2>1. co' = co /\ tidMap' = tidMap
    BY <1>7 DEF ReclaimWindowEnds, ReleaseTid, mapVars
  <2> QED
    BY <1>1, <2>1 DEF Mapped, Setting
<1> HIDE DEF A, B
<1>8. A /\ B
  BY <1>2, <1>3, <1>4, <1>5, <1>6, <1>7 DEF StepKind
<1> QED
  BY <1>8 DEF A, B

LEMMA MissedInit == Init => Missed
BY DEF Init, Missed, Mapped, Setting, Idle

LEMMA MissedNext ==
    ASSUME Types, OncePerEid, LastEvent, Missed, [Next]_vars, StepKind
    PROVE  Missed'
<1> SUFFICES ASSUME Regular({"removed"})', NEW e \in Eids,
                    \/ e \in Mapped'
                    \/ \E i \in Coroutines : co'[i].eid = e /\ (co'[i].pc = "uuid" \/ Setting(i)')
             PROVE  Missable(e)'
  <2>1. Mapped' \subseteq Eids
    BY NextTypes DEF Mapped, Types, TypeOK
  <2>2. \A i \in Coroutines : co'[i].pc = "uuid" \/ Setting(i)' => co'[i].eid \in Eids
    BY NextTypes DEF Types, Sound, Setting
  <2> QED
    BY <2>1, <2>2 DEF Missed
<1>1. /\ co \in [Coroutines -> Coroutine] /\ tidMap \in [Tids -> Eids \cup {None}]
      /\ None \notin Eids /\ irregular \subseteq irregular'
  BY Constants DEF Types, TypeOK, StepKind
<1>2. /\ \A f \in Mapped : Missable(f)
      /\ \A i \in Coroutines : co[i].pc = "uuid" \/ Setting(i) => Missable(co[i].eid)
  BY <1>1, RegularBefore DEF Missed
<1>3. CASE DeviceRemoved(e)
  <2>1. Initialising(e) = {} /\ co' = co
    BY <1>3 DEF DeviceRemoved, Regular
  <2>2. e \notin Mapped'
    <3>1. CASE e \notin Mapped /\ UNCHANGED mapVars
      BY <3>1 DEF Mapped, mapVars
    <3>2. ASSUME NEW t \in Tids, tidMap[t] = e, tidMap' = [tidMap EXCEPT ![t] = None]
          PROVE  e \notin Mapped'
      BY <1>1, <3>2 DEF Mapped, OncePerEid, MapInjective
    <3> QED
      BY <1>3, <3>1, <3>2 DEF DeviceRemoved, DeleteDevice
  <2>3. PICK i \in Coroutines : co[i].eid = e /\ (co'[i].pc = "uuid" \/ Setting(i)')
    BY <2>1, <2>2
  <2> QED
    BY <2>1, <2>3 DEF Initialising, Setting
<1>4. CASE ~DeviceRemoved(e)
  <2>1. Missable(e) => Missable(e)'
    BY <1>4, MissableStays
  <2>2. Missable(e)
    <3>1. CASE e \in Mapped
      BY <1>2, <3>1
    <3>2. CASE e \in Mapped' \ Mapped
      <4>1. PICK i \in Coroutines :
                /\ co[i].eid = e /\ tidMap' # tidMap /\ co'[i] # co[i]
                /\ co[i].pc \in {"types", "uuid"} \/ Setting(i)
        BY <3>2, CameFrom
      <4>2. CASE co[i].pc = "types"
        BY <4>1, <4>2, TypesLeft DEF Missable
      <4> QED
        BY <1>2, <4>1, <4>2
    <3>3. ASSUME NEW i \in Coroutines, co'[i].eid = e, co'[i].pc = "uuid" \/ Setting(i)'
          PROVE  Missable(e)
      <4>1. /\ co'[i].eid = co[i].eid /\ co'[i] # Idle
            /\ co[i].pc \in {"types", "uuid"} \/ Setting(i)
            /\ co[i].pc = "types" => co'[i] # co[i]
        BY <3>3, CameFrom
      <4>2. CASE co[i].pc = "types"
        BY <3>3, <4>1, <4>2, TypesLeft DEF Missable
      <4> QED
        BY <1>2, <3>3, <4>1, <4>2
    <3> QED
      BY <3>1, <3>2, <3>3
  <2> QED
    BY <2>1, <2>2
<1> QED
  BY <1>3, <1>4

-----------------------------------------------------------------------------
(***************************************************************************)
(* Platform monitoring of a registered terminus is there, or under way.    *)
(***************************************************************************)
Late == TidMixUps \cup {"removedLate"}

PlatformsBegun ==
    Regular(Late) =>
        \A i \in Coroutines : co[i].pc = "platform" =>
            /\ co[i].tid \in Tids /\ tidMap[co[i].tid] = co[i].eid
            /\ \A j \in Coroutines :
                  co[j].pc = "platform" /\ co[j].tid = co[i].tid => j = i

LEMMA BegunNext == Inv /\ PlatformsBegun /\ StepKind => PlatformsBegun'
<1> SUFFICES ASSUME Inv, PlatformsBegun, StepKind, Regular(Late)'
             PROVE  \A i \in Coroutines : co'[i].pc = "platform" =>
                        /\ co'[i].tid \in Tids /\ tidMap'[co'[i].tid] = co'[i].eid
                        /\ \A j \in Coroutines :
                              co'[j].pc = "platform" /\ co'[j].tid = co'[i].tid => j = i
  BY DEF PlatformsBegun
<1> DEFINE P == \A i \in Coroutines : co'[i].pc = "platform" =>
                    /\ co'[i].tid \in Tids /\ tidMap'[co'[i].tid] = co'[i].eid
                    /\ \A j \in Coroutines :
                          co'[j].pc = "platform" /\ co'[j].tid = co'[i].tid => j = i
<1>1. /\ co \in [Coroutines -> Coroutine] /\ tidMap \in [Tids -> Eids \cup {None}]
      /\ irregular \subseteq irregular' /\ Idle.pc = "idle" /\ None \notin Eids
      /\ Types /\ OncePerEid /\ TidsApart
      /\ \A i \in Coroutines : Sound(co[i])
  BY Constants DEF Inv, Types, TypeOK, StepKind, Idle
<1>2. \A i \in Coroutines : co[i].pc = "platform" =>
          /\ co[i].tid \in Tids /\ tidMap[co[i].tid] = co[i].eid
          /\ \A j \in Coroutines : co[j].pc = "platform" /\ co[j].tid = co[i].tid => j = i
  BY <1>1, RegularBefore DEF PlatformsBegun
<1>3. Regular(TidMixUps)'
  BY DEF Regular, Late
<1>4. ASSUME tidMap' = tidMap,
             \A i \in Coroutines : co'[i].pc = "platform" => co'[i] = co[i]
      PROVE  P
  BY <1>2, <1>4
<1>5. ASSUME Aside PROVE P
  BY <1>1, <1>4, <1>5 DEF Aside
<1>6. ASSUME NEW i \in Coroutines, NEW c \in Coroutine, NEW inUse \in SUBSET Tids,
             Sends(i, c, inUse) \/ Drops(i, c, inUse)
      PROVE  P
  BY <1>1, <1>4, <1>6 DEF Sends, Drops, Coroutine
<1>7. ASSUME NEW i \in Coroutines, NEW c \in Coroutine, NEW inUse \in SUBSET Tids,
             Enters(i, c, inUse)
      PROVE  P
  <2>1. /\ Has(i, c, inUse) /\ c.tid \in Tids /\ c.eid \in Eids
        /\ tidMap' = [tidMap EXCEPT ![c.tid] = c.eid]
    BY <1>7 DEF Enters, Has
  <2>2. c.tid \notin Registered
    BY <1>1, <1>3, <2>1, HasApart
  <2>3. \A j \in Coroutines \ {i} : co'[j] = co[j]
    BY <1>1, <1>7 DEF Enters
  <2>4. co'[i].pc = "platform" => co'[i].tid = c.tid /\ co'[i].eid = c.eid
    BY <1>1, <1>7 DEF Enters, Coroutine
  <2>5. \A j \in Coroutines : co[j].pc = "platform" => co[j].tid # c.tid /\ co[j].tid \in Tids
    BY <1>1, <1>2, <2>1, <2>2 DEF Registered, Sound
  <2>6. \A t \in Tids \ {c.tid} : tidMap'[t] = tidMap[t]
    BY <1>1, <2>1
  <2>7. tidMap'[c.tid] = c.eid
    BY <1>1, <2>1
  <2> QED
    BY <1>2, <2>1, <2>3, <2>4, <2>5, <2>6, <2>7
<1>8. ASSUME NEW i \in Coroutines,
             SetTidArrives(i) \/ SetTidFails(i) \/ PlatformDone(i) \/ PlatformFails(i)
      PROVE  P
  <2>1. tidMap' = tidMap
    BY <1>8 DEF SetTidArrives, SetTidFails, PlatformDone, PlatformFails, mapVars
  <2>2. \A j \in Coroutines : co'[j].pc = "platform" => co'[j] = co[j]
    BY <1>1, <1>8
    DEF SetTidArrives, SetTidFails, PlatformDone, PlatformFails, End, Coroutine
  <2> QED
    BY <1>4, <2>1, <2>2
<1>9. ASSUME NEW e \in Eids, DeviceRemoved(e) PROVE P
  <2>1. co' = co
    BY <1>9 DEF DeviceRemoved
  <2>2. \A i \in Coroutines : co[i].pc = "platform" => tidMap[co[i].tid] # e
    BY <1>9 DEF DeviceRemoved, Regular, Late
  <2>3. \A t \in Tids : tidMap[t] # e => tidMap'[t] = tidMap[t]
    BY <1>1, <1>9 DEF DeviceRemoved, DeleteDevice, mapVars
  <2> QED
    BY <1>2, <2>1, <2>2, <2>3
<1>10. ASSUME NEW t \in Tids, ReclaimWindowEnds(t) \/ ReleaseTid(t) PROVE P
  BY <1>4, <1>10 DEF ReclaimWindowEnds, ReleaseTid, mapVars
<1> HIDE DEF P
<1>11. P
  BY <1>5, <1>6, <1>7, <1>8, <1>9, <1>10 DEF StepKind
<1> QED
  BY <1>11 DEF P

LEMMA BegunInit == Init => PlatformsBegun
BY DEF Init, PlatformsBegun, Idle

UnderWay(t) ==
    /\ t \in tidsUnderInitialization
    /\ \E i \in Coroutines : co[i].pc = "platform" /\ co[i].tid = t

Gone == TidMixUps \cup {"removed", "removedLate"}

Monitored ==
    Regular(Gone) =>
        \A t \in Registered : "platform" \in discoveryDataTable[t] =>
            \/ t \in platforms \/ UnderWay(t)
            \/ tidMap[t] \in unlucky \/ ToBeRemoved(tidMap[t])

\* What is monitored stays so, or fails; a registered TID is an old or a new one.
LEMMA MonitoringStays ==
    ASSUME Inv, PlatformsBegun, StepKind, Regular(Gone)', NEW t \in Tids, t \in Registered',
           "platform" \in discoveryDataTable'[t]
    PROVE  \/ t \in platforms' \/ UnderWay(t)'
           \/ /\ t \in Registered /\ "platform" \in discoveryDataTable[t]
              /\ tidMap'[t] = tidMap[t]
              /\ \A e \in Eids : DeviceRemoved(e) => tidMap[t] # e
              /\ t \in platforms \/ UnderWay(t) =>
                    \E i \in Coroutines : /\ co[i].pc = "platform" /\ tidMap[t] = co[i].eid
                                          /\ PlatformFails(i)
<1> DEFINE P == \/ t \in platforms' \/ UnderWay(t)'
                \/ /\ t \in Registered /\ "platform" \in discoveryDataTable[t]
                   /\ tidMap'[t] = tidMap[t]
                   /\ \A e \in Eids : DeviceRemoved(e) => tidMap[t] # e
                   /\ t \in platforms \/ UnderWay(t) =>
                         \E i \in Coroutines : /\ co[i].pc = "platform" /\ tidMap[t] = co[i].eid
                                               /\ PlatformFails(i)
<1>1. /\ co \in [Coroutines -> Coroutine] /\ tidMap \in [Tids -> Eids \cup {None}]
      /\ discoveryDataTable \in [Tids -> SUBSET {"base", "platform"}]
      /\ irregular \subseteq irregular' /\ Idle.pc = "idle" /\ None \notin Eids
      /\ Types /\ OncePerEid /\ TidsApart
  BY Constants DEF Inv, Types, TypeOK, StepKind, Idle
<1>2. \A i \in Coroutines : co[i].pc = "platform" => tidMap[co[i].tid] = co[i].eid
  <2>1. Regular(Late)
    BY <1>1 DEF Regular, Late, Gone
  <2> QED
    BY <2>1 DEF PlatformsBegun
<1>3. Regular(TidMixUps)'
  BY DEF Regular, Gone
<1>4. ASSUME NEW e \in Eids, DeviceRemoved(e) PROVE tidMap[t] # e
  <2>1. CASE e \notin Mapped /\ UNCHANGED mapVars
    BY <1>1, <2>1 DEF Mapped
  <2>2. ASSUME NEW u \in Tids, tidMap[u] = e, tidMap' = [tidMap EXCEPT ![u] = None]
        PROVE  tidMap[t] # e
    <3>1. t # u
      BY <1>1, <2>2 DEF Registered
    <3> QED
      BY <1>1, <2>2, <3>1 DEF OncePerEid, MapInjective
  <2> QED
    BY <1>4, <2>1, <2>2 DEF DeviceRemoved, DeleteDevice
<1>5. ASSUME tidMap'[t] = tidMap[t], discoveryDataTable'[t] = discoveryDataTable[t],
             t \in platforms => t \in platforms', UnderWay(t) => t \in platforms' \/ UnderWay(t)'
      PROVE  P
  BY <1>4, <1>5 DEF Registered
<1>6. ASSUME Aside PROVE P
  <2>1. UnderWay(t) => UnderWay(t)'
    BY <1>1, <1>6 DEF Aside, UnderWay
  <2> QED
    BY <1>5, <1>6, <2>1 DEF Aside
<1>7. ASSUME NEW i \in Coroutines, NEW c \in Coroutine, NEW inUse \in SUBSET Tids,
             Sends(i, c, inUse) \/ Drops(i, c, inUse)
      PROVE  P
  <2>1. co[i].pc # "platform"
    BY <1>7 DEF Sends, Drops, Has
  <2>2. UnderWay(t) => UnderWay(t)'
    BY <1>1, <1>7, <2>1 DEF Sends, Drops, UnderWay
  <2> QED
    BY <1>5, <1>7, <2>2 DEF Sends, Drops
<1>8. ASSUME NEW i \in Coroutines, NEW c \in Coroutine, NEW inUse \in SUBSET Tids,
             Enters(i, c, inUse)
      PROVE  P
  <2>1. /\ Has(i, c, inUse) /\ c.tid \in Tids
        /\ tidMap' = [tidMap EXCEPT ![c.tid] = c.eid]
        /\ discoveryDataTable' = [discoveryDataTable EXCEPT ![c.tid] = c.tables]
    BY <1>8 DEF Enters, Has
  <2>2. CASE t = c.tid
    <3>1. "platform" \in c.tables
      BY <1>1, <2>1, <2>2
    <3>2. UnderWay(t)'
      BY <1>1, <1>8, <2>2, <3>1 DEF Enters, UnderWay, Coroutine
    <3> QED
      BY <3>2
  <2>3. CASE t # c.tid
    <3>1. co[i].pc # "platform"
      BY <2>1 DEF Has
    <3>2. UnderWay(t) => UnderWay(t)'
      BY <1>1, <1>8, <2>3, <3>1 DEF Enters, UnderWay
    <3> QED
      BY <1>1, <1>5, <1>8, <2>1, <2>3, <3>2 DEF Enters
  <2> QED
    BY <2>2, <2>3
<1>9. ASSUME NEW i \in Coroutines, SetTidArrives(i) \/ SetTidFails(i) PROVE P
  <2>1. UnderWay(t) => UnderWay(t)'
    BY <1>1, <1>9 DEF SetTidArrives, SetTidFails, End, UnderWay, platformVars
  <2> QED
    BY <1>5, <1>9, <2>1 DEF SetTidArrives, SetTidFails, platformVars, mapVars
<1>10. ASSUME NEW i \in Coroutines, PlatformDone(i) PROVE P
  <2>1. UnderWay(t) => t \in platforms' \/ UnderWay(t)'
    BY <1>1, <1>10 DEF PlatformDone, End, UnderWay
  <2> QED
    BY <1>5, <1>10, <2>1 DEF PlatformDone, mapVars
<1>11. ASSUME NEW i \in Coroutines, PlatformFails(i) PROVE P
  <2>1. /\ co[i].pc = "platform" /\ UNCHANGED <<tidMap, discoveryDataTable, platforms>>
        /\ tidsUnderInitialization' = tidsUnderInitialization \ {co[i].tid}
        /\ co' = [co EXCEPT ![i] = Idle]
    BY <1>11 DEF PlatformFails, End, mapVars
  <2>2. CASE t = co[i].tid
    <3>1. tidMap[t] = co[i].eid
      BY <1>2, <2>1, <2>2
    <3> QED
      BY <1>4, <1>11, <2>1, <3>1 DEF Registered
  <2>3. CASE t # co[i].tid
    <3>1. UnderWay(t) => UnderWay(t)'
      BY <1>1, <2>1, <2>3 DEF UnderWay
    <3> QED
      BY <1>5, <2>1, <3>1
  <2> QED
    BY <2>2, <2>3
<1>12. ASSUME NEW e \in Eids, DeviceRemoved(e) PROVE P
  <2>1. tidMap[t] # e
    BY <1>4, <1>12
  <2>2. /\ tidMap'[t] = tidMap[t] /\ discoveryDataTable'[t] = discoveryDataTable[t] /\ co' = co
        /\ t \in platforms => t \in platforms'
        /\ t \in tidsUnderInitialization => t \in tidsUnderInitialization'
    BY <1>1, <1>12, <2>1
    DEF DeviceRemoved, DeleteDevice, DeletePlatform, mapVars, platformVars
  <2>3. UnderWay(t) => UnderWay(t)'
    BY <2>2 DEF UnderWay
  <2> QED
    BY <1>5, <2>2, <2>3
<1>13. ASSUME NEW u \in Tids, ReclaimWindowEnds(u) \/ ReleaseTid(u) PROVE P
  <2>1. /\ co' = co /\ tidMap' = tidMap /\ discoveryDataTable' = discoveryDataTable
        /\ platforms' = platforms /\ tidsUnderInitialization' = tidsUnderInitialization
    BY <1>13 DEF ReclaimWindowEnds, ReleaseTid, mapVars, platformVars
  <2>2. UnderWay(t) => UnderWay(t)'
    BY <2>1 DEF UnderWay
  <2> QED
    BY <1>5, <2>1, <2>2
<1> HIDE DEF P
<1>14. P
  BY <1>6, <1>7, <1>8, <1>9, <1>10, <1>11, <1>12, <1>13 DEF StepKind
<1> QED
  BY <1>14 DEF P

\* An endpoint whose initialisation has failed stays so, or comes again.
LEMMA UnluckyStays ==
    ASSUME Types, LastEvent, [Next]_vars, NEW e \in unlucky
    PROVE  e \in unlucky' \/ e \notin Present
<1>1. CASE Still
  BY <1>1 DEF Still
<1>2. ASSUME NEW d \in Termini, NEW f \in Eids, Plug(d, f) PROVE e \in unlucky' \/ e \notin Present
  BY <1>2 DEF Plug
<1>3. CASE \/ \E d \in Termini : Unplug(d)
           \/ \E f \in Eids : DeviceRemoved(f)
           \/ \E i \in Coroutines, f \in Eids : DeviceAdded(i, f)
  BY <1>3 DEF Unplug, DeviceRemoved, DeviceAdded
<1> QED
  BY <1>1, <1>2, <1>3, StillOrMoves DEF Moves

LEMMA MonitoredInit == Init => Monitored
BY DEF Init, Monitored, Registered

LEMMA MonitoredNext ==
    ASSUME Inv, LastEvent, Missed, PlatformsBegun, Monitored, [Next]_vars, StepKind
    PROVE  Monitored'
<1> SUFFICES ASSUME Regular(Gone)', NEW t \in Tids, t \in Registered',
                    "platform" \in discoveryDataTable'[t]
             PROVE  \/ t \in platforms' \/ UnderWay(t)'
                    \/ tidMap'[t] \in unlucky'
                    \/ \E k \in 1 .. Len(events'[tidMap'[t]]) : events'[tidMap'[t]][k] = "deviceRemoved"
  BY DEF Monitored, Registered, ToBeRemoved
<1>1. /\ tidMap \in [Tids -> Eids \cup {None}] /\ Types /\ None \notin Eids
      /\ irregular \subseteq irregular'
  BY Constants DEF Inv, Types, TypeOK, StepKind
<1>2. CASE t \in platforms' \/ UnderWay(t)'
  BY <1>2
<1>3. CASE /\ t \in Registered /\ "platform" \in discoveryDataTable[t]
           /\ tidMap'[t] = tidMap[t]
           /\ \A e \in Eids : DeviceRemoved(e) => tidMap[t] # e
           /\ t \in platforms \/ UnderWay(t) =>
                 \E i \in Coroutines : /\ co[i].pc = "platform" /\ tidMap[t] = co[i].eid
                                       /\ PlatformFails(i)
  <2>1. tidMap[t] \in Eids
    BY <1>1, <1>3 DEF Registered
  <2>2. PICK e \in Eids : e = tidMap[t]
    BY <2>1
  <2>3. e \in Mapped /\ ~DeviceRemoved(e)
    BY <1>3, <2>2, Constants DEF Mapped
  <2>4. Missable(e)
    <3>1. Regular({"removed"})
      BY <1>1 DEF Regular, Gone
    <3> QED
      BY <2>3, <3>1 DEF Missed
  <2>5. ToBeRemoved(e) => ToBeRemoved(e)'
    BY <1>1, <2>3, MissableStays
  <2>6. e \in unlucky' \/ ToBeRemoved(e)
    <3>1. CASE e \in unlucky
      BY <1>1, <2>4, <3>1, UnluckyStays DEF Missable
    <3>2. ASSUME NEW i \in Coroutines, e = co[i].eid, PlatformFails(i)
          PROVE  e \in unlucky' \/ ToBeRemoved(e)
      BY <2>4, <3>2 DEF PlatformFails, Fails, Missable
    <3>3. \/ t \in platforms \/ UnderWay(t) \/ e \in unlucky \/ ToBeRemoved(e)
      <4>1. Regular(Gone)
        BY <1>1 DEF Regular
      <4> QED
        BY <1>3, <2>2, <4>1 DEF Monitored
    <3> QED
      BY <1>3, <2>2, <3>1, <3>2, <3>3
  <2>7. e \in unlucky' \/ \E k \in 1 .. Len(events'[e]) : events'[e][k] = "deviceRemoved"
    BY <2>5, <2>6 DEF ToBeRemoved
  <2> QED
    BY <1>3, <2>7, <2>2
<1> QED
  BY <1>2, <1>3, MonitoringStays DEF Inv

-----------------------------------------------------------------------------
(***************************************************************************)
(* An endpoint is registered, or something about it is still to be done.   *)
(***************************************************************************)
Awaited ==
    Regular(TidMixUps) =>
        \A e \in Present \ unlucky :
            \/ e \in Mapped \/ e \in todo
            \/ events[e] # <<>> \/ Initialising(e) # {}

LEMMA RegisterMaps ==
    ASSUME Types, NEW i, NEW c, c.eid \in Eids, c.tid \in Tids, NEW inUse, Register(i, c, inUse)
    PROVE  c.eid \in Mapped'
<1>1. tidMap \in [Tids -> Eids \cup {None}] /\ None \notin Eids
  BY Constants DEF Types, TypeOK
<1>2. CASE c.eid \in Mapped
  BY <1>2 DEF Register, Mapped, mapVars
<1>3. CASE c.eid \notin Mapped
  <2>1. tidMap' = [tidMap EXCEPT ![c.tid] = c.eid]
    BY <1>3 DEF Register
  <2> QED
    BY <1>1, <2>1 DEF Mapped
<1> QED
  BY <1>2, <1>3

LEMMA ChooseAwaits ==
    ASSUME Types, TidsApart, NEW i \in Coroutines, NEW c \in Coroutine, c.eid \in Eids,
           ChooseTid(i, c), Regular(TidMixUps)'
    PROVE  i \in Initialising(c.eid)' \/ c.eid \in Mapped' \/ c.eid \in unlucky'
<1>1. co \in [Coroutines -> Coroutine] /\ irregular \subseteq irregular' /\ "moved" \notin irregular'
  BY Chosen DEF Types, TypeOK, Regular, TidMixUps
<1>2. Apart
  BY <1>1, RegularBefore DEF TidsApart
<1>3. CASE GivesUp(i, c)
  <2>1. CASE /\ DeviceAlreadyRegistered(c)
             /\ PrevTid(c) \in Registered \cup BeingSet => "moved" \in irregular'
    <3>1. c.uuid \in Termini /\ PrevTid(c) = uuidMapping[c.uuid] /\ PrevTid(c) # 0
          /\ PrevTid(c) \notin tidReclaimWindowTimers
      BY <2>1 DEF DeviceAlreadyRegistered, PrevTid, IsTerminusUnregistered, Coroutine
    <3>2. PrevTid(c) \in Registered \cup BeingSet
      BY <1>2, <3>1 DEF Apart, KeptApart, BeingSet, Setting
    <3> QED
      BY <1>1, <2>1, <3>2
  <2>2. CASE unlucky' = unlucky \cup {c.eid}
    BY <2>2
  <2> QED
    BY <1>3, <2>1, <2>2 DEF GivesUp
<1>4. ASSUME NEW t \in Tids, NEW inUse \in SUBSET Tids, SendSetTid(i, [c EXCEPT !.tid = t], inUse)
      PROVE  i \in Initialising(c.eid)' \/ c.eid \in Mapped'
  <2>1. PICK d \in Coroutine : d = [c EXCEPT !.tid = t]
    BY Constants DEF Coroutine
  <2>2. d.eid = c.eid /\ d.tid = t /\ SendSetTid(i, d, inUse)
    BY <1>4, <2>1 DEF Coroutine
  <2>3. CASE co' = [co EXCEPT ![i] = [d EXCEPT !.pc = "setTid"]]
    BY <1>1, <2>2, <2>3 DEF Initialising, Coroutine
  <2>4. CASE Register(i, d, inUse)
    BY <2>2, <2>4, RegisterMaps
  <2> QED
    BY <2>2, <2>3, <2>4 DEF SendSetTid
<1> QED
  BY <1>3, <1>4, Chosen

\* A coroutine goes on with its endpoint until it is registered or lost.
LEMMA InitialisingStays ==
    ASSUME Inv, [Next]_vars, Regular(TidMixUps)', NEW e \in Eids, NEW i \in Initialising(e)
    PROVE  i \in Initialising(e)' \/ e \in Mapped' \/ e \in unlucky' \/ e \notin Present
<1> DEFINE P == i \in Initialising(e)' \/ e \in Mapped' \/ e \in unlucky' \/ e \notin Present
<1>1. /\ co \in [Coroutines -> Coroutine] /\ Idle.pc = "idle" /\ Types /\ TidsApart
      /\ i \in Coroutines /\ co[i].eid = e /\ co[i] \in Coroutine
      /\ co[i].pc \in {"added", "types", "uuid", "setTid", "tidSet"}
  BY DEF Inv, Types, TypeOK, Idle, Initialising
<1>2. ASSUME co'[i] = co[i] PROVE P
  BY <1>1, <1>2 DEF Initialising
<1>3. ASSUME NEW j \in Coroutines, j # i, NEW r, co' = [co EXCEPT ![j] = r] PROVE P
  BY <1>1, <1>2, <1>3
<1>4. ASSUME NEW j \in Coroutines, NEW c \in Coroutine, c.eid = co[j].eid, c.eid \in Eids,
             ChooseTid(j, c)
      PROVE  P
  <2>1. CASE j = i
    <3>1. i \in Initialising(c.eid)' \/ c.eid \in Mapped' \/ c.eid \in unlucky'
      BY <1>1, <1>4, <2>1, ChooseAwaits
    <3> QED
      BY <1>1, <1>4, <2>1, <3>1
  <2>2. CASE j # i
    <3>1. \E r : co' = [co EXCEPT ![j] = r]
      BY <1>4 DEF ChooseTid, SendSetTid, Register, End
    <3> QED
      BY <1>3, <2>2, <3>1
  <2> QED
    BY <2>1, <2>2
<1>5. ASSUME NEW j \in Coroutines, NEW f, BaseInit(j, f), UNCHANGED mapVars,
             co[j].pc = "idle" \/ f = co[j].eid
      PROVE  P
  <2>1. CASE j # i
    <3>1. \E r : co' = [co EXCEPT ![j] = r]
      BY <1>5 DEF BaseInit, End
    <3> QED
      BY <1>3, <2>1, <3>1
  <2>2. CASE j = i
    <3>1. f = e
      BY <1>1, <1>5, <2>2
    <3>2. CASE e \in Mapped
      BY <1>5, <3>2 DEF Mapped, mapVars
    <3>3. CASE e \notin Mapped
      <4>1. co' = [co EXCEPT ![i] = [Idle EXCEPT !.pc = "types", !.eid = e]]
        BY <1>5, <2>2, <3>1, <3>3 DEF BaseInit
      <4>2. co'[i].pc = "types" /\ co'[i].eid = e
        BY <1>1, <4>1 DEF Idle
      <4> QED
        BY <1>1, <4>2 DEF Initialising
    <3> QED
      BY <3>2, <3>3
  <2> QED
    BY <2>1, <2>2
<1>6. ASSUME UNCHANGED vars PROVE P
  BY <1>2, <1>6 DEF vars
<1>7. ASSUME \/ \E d \in Termini, f \in Eids : Plug(d, f)
             \/ \E d \in Termini : Unplug(d)
             \/ \E f \in Eids : DeviceRemoved(f)
             \/ \E t \in Tids : ReclaimWindowEnds(t) \/ ReleaseTid(t)
      PROVE  P
  BY <1>2, <1>7 DEF Plug, Unplug, Change, DeviceRemoved, ReclaimWindowEnds, ReleaseTid
<1>8. ASSUME InitNext PROVE P
  <2>1. co[Main].pc = "idle" /\ Main \in Coroutines /\ UNCHANGED mapVars /\ \E f : BaseInit(Main, f)
    BY <1>1, <1>8, Constants DEF InitNext
  <2> QED
    BY <1>5, <2>1
<1>9. ASSUME NEW j \in Coroutines, NEW f \in Eids, DeviceAdded(j, f) PROVE P
  <2>1. j # i
    BY <1>1, <1>9 DEF DeviceAdded
  <2> QED
    BY <1>3, <1>9, <2>1 DEF DeviceAdded
<1>10. ASSUME NEW j \in Coroutines, InitDevice(j) PROVE P
  BY <1>5, <1>10 DEF InitDevice
<1>11. ASSUME NEW j \in Coroutines, TypesAnswered(j) PROVE P
  <2>1. PICK d \in Termini, lost \in {{}, {"base"}, {"platform"}} :
             LET c == [co[j] EXCEPT !.assigned = tidOf[d], !.tables = {"base", "platform"} \ lost]
             IN  \/ co' = [co EXCEPT ![j] = [c EXCEPT !.pc = "uuid"]]
                 \/ ChooseTid(j, c)
    BY <1>11, Zenon DEF TypesAnswered
  <2>2. /\ co[j] \in Coroutine /\ co[j].eid \in Eids /\ tidOf[d] \in 0 .. MaxTid
        /\ {"base", "platform"} \ lost \in SUBSET {"base", "platform"}
    BY <1>1, <1>11 DEF TypesAnswered, Types, TypeOK, Sound
  <2>3. PICK c \in Coroutine :
            c = [co[j] EXCEPT !.assigned = tidOf[d], !.tables = {"base", "platform"} \ lost]
    BY <2>2 DEF Coroutine
  <2>4. c.eid = co[j].eid
    BY <2>2, <2>3 DEF Coroutine
  <2>5. CASE co' = [co EXCEPT ![j] = [c EXCEPT !.pc = "uuid"]]
    <3>1. CASE j = i
      BY <1>1, <2>4, <2>5, <3>1 DEF Initialising, Coroutine
    <3>2. CASE j # i
      BY <1>3, <2>5, <3>2
    <3> QED
      BY <3>1, <3>2
  <2>6. CASE ChooseTid(j, c)
    BY <1>4, <2>2, <2>4, <2>6
  <2> QED
    BY <2>1, <2>3, <2>5, <2>6
<1>12. ASSUME NEW j \in Coroutines, Fails(co[j].eid), End(j) PROVE P
  <2>1. CASE j = i
    BY <1>1, <1>12, <2>1 DEF Fails
  <2>2. CASE j # i
    BY <1>3, <1>12, <2>2 DEF End
  <2> QED
    BY <2>1, <2>2
<1>13. ASSUME NEW j \in Coroutines, TypesFail(j) \/ SetTidFails(j) \/ PlatformFails(j) PROVE P
  BY <1>12, <1>13 DEF TypesFail, SetTidFails, PlatformFails
<1>14. ASSUME NEW j \in Coroutines, UuidAnswered(j) PROVE P
  <2>1. PICK d \in Termini : ChooseTid(j, [co[j] EXCEPT !.uuid = d])
    BY <1>14 DEF UuidAnswered
  <2>2. co[j] \in Coroutine /\ co[j].eid \in Eids
    BY <1>1, <1>14 DEF UuidAnswered, Types, Sound
  <2>3. PICK c \in Coroutine : c = [co[j] EXCEPT !.uuid = d]
    BY <2>2 DEF Coroutine
  <2>4. c.eid = co[j].eid
    BY <2>2, <2>3 DEF Coroutine
  <2> QED
    BY <1>4, <2>1, <2>2, <2>3, <2>4
<1>15. ASSUME NEW j \in Coroutines, UuidFails(j) PROVE P
  <2>1. co[j] \in Coroutine /\ co[j].eid \in Eids /\ ChooseTid(j, co[j])
    BY <1>1, <1>15 DEF UuidFails, Types, Sound
  <2> QED
    BY <1>4, <2>1
<1>16. ASSUME NEW j \in Coroutines, SetTidArrives(j) PROVE P
  <2>1. co' = [co EXCEPT ![j].pc = "tidSet"]
    BY <1>16 DEF SetTidArrives
  <2>2. CASE j = i
    BY <1>1, <2>1, <2>2 DEF Initialising, Coroutine
  <2>3. CASE j # i
    BY <1>1, <1>2, <2>1, <2>3
  <2> QED
    BY <2>2, <2>3
<1>17. ASSUME NEW j \in Coroutines, SetTidAnswered(j) PROVE P
  <2>1. Register(j, co[j], used) /\ co[j].eid \in Eids /\ co[j].tid \in Tids
    BY <1>1, <1>17 DEF SetTidAnswered, Types, Sound
  <2>2. CASE j = i
    BY <1>1, <2>1, <2>2, RegisterMaps
  <2>3. CASE j # i
    <3>1. \E r : co' = [co EXCEPT ![j] = r]
      BY <2>1 DEF Register, End
    <3> QED
      BY <1>3, <2>3, <3>1
  <2> QED
    BY <2>2, <2>3
<1>18. ASSUME NEW j \in Coroutines, PlatformDone(j) PROVE P
  <2>1. j # i /\ co' = [co EXCEPT ![j] = Idle]
    BY <1>1, <1>18 DEF PlatformDone, End
  <2> QED
    BY <1>3, <2>1
<1> HIDE DEF P
<1>19. P
  BY <1>6, <1>7, <1>8, <1>9, <1>10, <1>11, <1>13, <1>14, <1>15, <1>16, <1>17, <1>18 DEF Next
<1> QED
  BY <1>19 DEF P

\* An endpoint is registered until it is heard that it has gone.
LEMMA MappedStays ==
    ASSUME Inv, StepKind, Regular(TidMixUps)', NEW e \in Mapped, ~DeviceRemoved(e)
    PROVE  e \in Mapped'
<1>1. /\ tidMap \in [Tids -> Eids \cup {None}] /\ Types /\ OncePerEid /\ TidsApart
      /\ irregular \subseteq irregular' /\ e # None
  BY DEF Inv, Types, TypeOK, StepKind, Mapped
<1>2. PICK t \in Tids : tidMap[t] = e
  BY DEF Mapped
<1>3. ASSUME tidMap'[t] = e PROVE e \in Mapped'
  BY <1>1, <1>2, <1>3 DEF Mapped
<1>4. CASE tidMap' = tidMap
  BY <1>2, <1>3, <1>4
<1>5. ASSUME NEW i \in Coroutines, NEW c \in Coroutine, NEW inUse \in SUBSET Tids,
             Enters(i, c, inUse)
      PROVE  e \in Mapped'
  <2>1. Has(i, c, inUse) /\ tidMap' = [tidMap EXCEPT ![c.tid] = c.eid]
    BY <1>5 DEF Enters
  <2>2. c.tid \notin Registered
    BY <1>1, <2>1, HasApart
  <2> QED
    BY <1>1, <1>2, <1>3, <2>1, <2>2 DEF Registered
<1>6. ASSUME NEW f \in Eids, DeviceRemoved(f) PROVE e \in Mapped'
  <2>1. f # e
    BY <1>6
  <2>2. ASSUME NEW u \in Tids, tidMap[u] = f, tidMap' = [tidMap EXCEPT ![u] = None]
        PROVE  e \in Mapped'
    BY <1>1, <1>2, <1>3, <2>1, <2>2
  <2> QED
    BY <1>4, <1>6, <2>2 DEF DeviceRemoved, DeleteDevice, mapVars
<1> QED
  BY <1>4, <1>5, <1>6
  DEF StepKind, Aside, Sends, Drops, SetTidArrives, SetTidFails, PlatformDone, PlatformFails,
      ReclaimWindowEnds, ReleaseTid, mapVars

\* Main takes an endpoint up before it leaves its list.
LEMMA TodoStays ==
    ASSUME Types, [Next]_vars, NEW e \in todo
    PROVE  e \in todo' \/ e \in Mapped' \/ Initialising(e)' # {}
<1>1. /\ co \in [Coroutines -> Coroutine] /\ Main \in Coroutines
  BY Constants DEF Types, TypeOK
<1>2. CASE InitNext
  <2>1. CASE BaseInit(Main, e) /\ UNCHANGED mapVars
    <3>1. CASE e \in Mapped
      BY <2>1, <3>1 DEF Mapped, mapVars
    <3>2. CASE e \notin Mapped
      <4>1. co' = [co EXCEPT ![Main] = [Idle EXCEPT !.pc = "types", !.eid = e]]
        BY <2>1, <3>2 DEF BaseInit
      <4>2. co'[Main].pc = "types" /\ co'[Main].eid = e
        BY <1>1, <4>1 DEF Idle
      <4> QED
        BY <1>1, <4>2 DEF Initialising
    <3> QED
      BY <3>1, <3>2
  <2>2. CASE e \in todo'
    BY <2>2
  <2> QED
    BY <1>2, <2>1, <2>2 DEF InitNext
<1>3. CASE todo' = todo
  BY <1>3
<1>4. ASSUME Next, ~InitNext PROVE todo' = todo
  BY <1>4
  DEF Next, Plug, Unplug, Change, DeviceRemoved, DeviceAdded, InitDevice, TypesAnswered, TypesFail,
      UuidAnswered, UuidFails, SetTidArrives, SetTidAnswered, SetTidFails, PlatformDone,
      PlatformFails, ReclaimWindowEnds, ReleaseTid
<1> QED
  BY <1>2, <1>3, <1>4 DEF vars

LEMMA AwaitedInit == Init => Awaited
BY DEF Init, Awaited, Present

LEMMA AwaitedNext ==
    ASSUME Inv, LastEvent, Awaited, [Next]_vars, StepKind
    PROVE  Awaited'
<1> SUFFICES ASSUME Regular(TidMixUps)', NEW e \in Present', e \notin unlucky'
             PROVE  \/ e \in Mapped' \/ e \in todo'
                    \/ events'[e] # <<>> \/ Initialising(e)' # {}
  BY DEF Awaited
<1>1. Types /\ e \in Eids /\ eidOf \in [Termini -> Eids \cup {None}]
  BY NextTypes DEF Inv, Types, TypeOK, Present
<1>2. e \in Present \ unlucky =>
          \/ e \in Mapped \/ e \in todo
          \/ events[e] # <<>> \/ Initialising(e) # {}
  BY RegularBefore DEF Awaited, StepKind
\* What waits goes on waiting, unless a callback has come for the endpoint.
<1>3. ASSUME e \in Present, e \notin unlucky, ~DeviceRemoved(e),
             events[e] # <<>> => events'[e] # <<>> \/ Initialising(e)' # {}
      PROVE  \/ e \in Mapped' \/ e \in todo'
             \/ events'[e] # <<>> \/ Initialising(e)' # {}
  <2>1. e \in Mapped => e \in Mapped'
    BY <1>3, MappedStays
  <2>2. e \in todo => e \in todo' \/ e \in Mapped' \/ Initialising(e)' # {}
    BY <1>1, TodoStays
  <2>3. Initialising(e) # {} => e \in Mapped' \/ Initialising(e)' # {}
    BY <1>1, <1>3, InitialisingStays
  <2> QED
    BY <1>2, <1>3, <2>1, <2>2, <2>3
<1>4. CASE DeviceRemoved(e)
  <2>1. e \in Present
    BY <1>4 DEF DeviceRemoved, envVars, Present
  <2> QED
    BY <1>1, <1>4, <2>1, CallbackLeaves DEF DeviceRemoved, Event
<1>5. CASE ~DeviceRemoved(e) /\ Still
  <2>1. e \in Present /\ e \notin unlucky /\ events' = events
    BY <1>5 DEF Still, Present
  <2> QED
    BY <1>3, <1>5, <2>1
<1>6. ASSUME NEW d \in Termini, NEW f \in Eids, Plug(d, f), ~DeviceRemoved(e)
      PROVE  \/ e \in Mapped' \/ e \in todo'
             \/ events'[e] # <<>> \/ Initialising(e)' # {}
  <2>1. /\ events'[f] # <<>> /\ \A g \in Eids \ {f} : events'[g] = events[g]
    BY <1>1, <1>6, AppendFacts DEF Plug, Event
  <2>2. e # f => e \in Present /\ e \notin unlucky
    BY ZenonT(40), <1>1, <1>6, PresentAfter DEF Plug
  <2> QED
    BY <1>1, <1>3, <1>6, <2>1, <2>2
<1>7. ASSUME NEW d \in Termini, Unplug(d), ~DeviceRemoved(e)
      PROVE  \/ e \in Mapped' \/ e \in todo'
             \/ events'[e] # <<>> \/ Initialising(e)' # {}
  <2>1. e \in Present /\ e # eidOf[d] /\ eidOf[d] \in Eids
    BY <1>1, <1>7, PresentAfter
  <2>2. events'[e] = events[e]
    BY <1>1, <1>7, <2>1, AppendFacts DEF Unplug, Event
  <2> QED
    BY <1>3, <1>7, <2>1, <2>2 DEF Unplug
<1>8. ASSUME NEW f \in Eids, DeviceRemoved(f), ~DeviceRemoved(e)
      PROVE  \/ e \in Mapped' \/ e \in todo'
             \/ events'[e] # <<>> \/ Initialising(e)' # {}
  <2>1. e # f
    BY <1>8
  <2>2. events'[e] = events[e]
    BY <1>1, <1>8, <2>1, CallbackLeaves DEF DeviceRemoved, Event
  <2>3. e \in Present /\ e \notin unlucky
    BY <1>8 DEF DeviceRemoved, envVars, Present
  <2> QED
    BY <1>3, <1>8, <2>2, <2>3
<1>9. ASSUME NEW i \in Coroutines, NEW f \in Eids, DeviceAdded(i, f), ~DeviceRemoved(e)
      PROVE  \/ e \in Mapped' \/ e \in todo'
             \/ events'[e] # <<>> \/ Initialising(e)' # {}
  <2>1. e \in Present /\ e \notin unlucky
    BY <1>9 DEF DeviceAdded, envVars, Present
  <2>2. CASE e = f
    <3>1. co'[i].pc = "added" /\ co'[i].eid = e
      BY <1>1, <1>9, <2>2 DEF DeviceAdded, Types, TypeOK, Idle
    <3> QED
      BY <3>1 DEF Initialising
  <2>3. CASE e # f
    <3>1. events'[e] = events[e]
      BY <1>1, <1>9, <2>3, CallbackLeaves DEF DeviceAdded, Event
    <3> QED
      BY <1>3, <1>9, <2>1, <3>1
  <2> QED
    BY <2>2, <2>3
<1> QED
  BY <1>1, <1>4, <1>5, <1>6, <1>7, <1>8, <1>9, StillOrMoves DEF Moves

Known == Inv /\ LastEvent /\ Missed /\ PlatformsBegun /\ Monitored /\ Awaited

LEMMA KnownInit == Init => Known
BY InvInit, LastEventInit, MissedInit, BegunInit, MonitoredInit, AwaitedInit DEF Known

LEMMA KnownNext == Known /\ [Next]_vars => Known'
<1> SUFFICES ASSUME Known, [Next]_vars PROVE Known'
  OBVIOUS
<1>1. /\ Inv /\ LastEvent /\ Missed /\ PlatformsBegun /\ Monitored /\ Awaited
      /\ Types /\ OncePerEid
  BY DEF Known, Inv
<1>2. StepKind
  BY <1>1, StepKinds
<1>3. Inv' /\ LastEvent'
  BY <1>1, InvNext, LastEventNext
<1>4. Missed'
  BY <1>1, <1>2, MissedNext
<1>5. PlatformsBegun'
  BY <1>1, <1>2, BegunNext
<1>6. Monitored'
  BY <1>1, <1>2, MonitoredNext
<1>7. Awaited'
  BY <1>1, <1>2, AwaitedNext
<1> QED
  BY <1>3, <1>4, <1>5, <1>6, <1>7 DEF Known

\* When pldmd has nothing left to do, the platform monitoring of a registered
\* terminus is there unless its initialisation failed.
THEOREM RegisteredAreMonitored == Spec => []RegisteredIsMonitored
<1>1. Known => RegisteredIsMonitored
  <2> SUFFICES ASSUME Known, Quiet, Regular(Gone), NEW t \in Registered,
                      "platform" \in discoveryDataTable[t]
               PROVE  tidMap[t] \in unlucky \/ t \in platforms
    BY DEF RegisteredIsMonitored, Gone
  <2>1. \A i \in Coroutines : co[i].pc # "platform"
    BY DEF Quiet, Idle
  <2>2. tidMap[t] \in Eids
    BY DEF Known, Inv, Types, TypeOK, Registered
  <2>3. ~ToBeRemoved(tidMap[t])
    <3>1. Len(events[tidMap[t]]) = 0
      BY <2>2, EmptySeq DEF Quiet
    <3> QED
      BY <3>1 DEF ToBeRemoved
  <2> QED
    BY <2>1, <2>3 DEF Known, Monitored, UnderWay
<1> QED
  BY <1>1, KnownInit, KnownNext, PTL DEF Spec

\* When pldmd has nothing left to do, an endpoint that is there is registered,
\* unless its initialisation failed or TIDs were mixed up, and one that is gone
\* is not, unless it went while it was initialised.
THEOREM RegistrationIsTrue == Spec => []RegistrationFollowsPresence
<1>1. Known => RegistrationFollowsPresence
  <2> SUFFICES ASSUME Known, Quiet
               PROVE  /\ Regular(TidMixUps) => Present \ unlucky \subseteq Mapped
                      /\ Regular({"removed"}) => Mapped \subseteq Present
    BY DEF RegistrationFollowsPresence
  <2>1. \A e \in Eids : Initialising(e) = {} /\ events[e] = <<>> /\ e \notin todo
    BY DEF Quiet, Idle, Initialising
  <2>2. \A e \in Eids : ~ToBeRemoved(e)
    <3>1. \A e \in Eids : Len(events[e]) = 0
      BY <2>1, EmptySeq
    <3> QED
      BY <3>1 DEF ToBeRemoved
  <2>3. Present \subseteq Eids /\ Mapped \subseteq Eids
    BY DEF Known, Inv, Types, TypeOK, Present, Mapped
  <2>4. Regular(TidMixUps) => Present \ unlucky \subseteq Mapped
    BY <2>1, <2>3 DEF Known, Awaited
  <2>5. Regular({"removed"}) => Mapped \subseteq Present
    BY <2>2, <2>3 DEF Known, Missed, Missable
  <2> QED
    BY <2>4, <2>5
<1> QED
  BY <1>1, KnownInit, KnownNext, PTL DEF Spec

=============================================================================
