------------------------- MODULE PCIeEndpointProofs -------------------------
(***************************************************************************)
(* What mctpd publishes as a PCIe endpoint is what its routing table says, *)
(* for any endpoints and addresses, as long as the coroutines that read    *)
(* the table do not overlap; and its bus owner is the one that gave it its *)
(* EID, for any bus owners.                                                *)
(*                                                                         *)
(* No table that is read has an EID twice, as the entries come in the      *)
(* order of their EIDs (ReaderSound), so what the first loop unregisters   *)
(* is never in the new table.  While the second loop runs, what is in the  *)
(* new table is published, or is not in the stored one and still to be     *)
(* registered (HalfWay); when nothing is left the table is stored.         *)
(***************************************************************************)
EXTENDS PCIeEndpoint, FiniteSetTheorems, WellFoundedInduction, TLAPS

\* No EID is in the table twice.
Unique(table) == \A x, y \in table : x.eid = y.eid => x = y

Types ==
    /\ ownEid \in {0, OwnEid}
    /\ busTable \in [Eids -> Bdfs \cup {None}]
    /\ routingTable \in SUBSET Entries
    /\ reader \in [Readers -> Reader]

ReaderSound(r) ==
    /\ Unique(r.table)
    /\ r.pc = "read" => \A x \in r.table : x.eid <= r.position
    /\ r.pc = "register" => r.left # {} /\ r.left \subseteq r.table
    /\ r.pc = "idle" => r = Idle

\* What is published when nothing is being registered
Settled ==
    /\ endpointInterface \subseteq EidsOf(routingTable)
    /\ registrationFailed \/ EidsOf(routingTable) \ {OwnEid} \subseteq endpointInterface

\* What is published while the entries in left are still to be registered
HalfWay(published, failed, table, left) ==
    /\ published \subseteq EidsOf(table)
    /\ \/ failed
       \/ \A x \in table : \/ x.eid \in published \cup {OwnEid}
                           \/ x \in left \ routingTable

Alone == \A i, j \in Readers : reader[i] # Idle /\ reader[j] # Idle => i = j

InOrder ==
    ~ overlapped =>
        /\ Alone
        /\ (\A i \in Readers : reader[i].pc # "register") => Settled
        /\ \A i \in Readers : reader[i].pc = "register" =>
                                  HalfWay(endpointInterface, registrationFailed,
                                          reader[i].table, reader[i].left)

Inv ==
    /\ Types
    /\ Unique(routingTable)
    /\ \A i \in Readers : ReaderSound(reader[i])
    /\ InOrder

-----------------------------------------------------------------------------
\* A set of natural numbers has a least one.
LEMMA Least ==
    ASSUME NEW S, S \subseteq Nat, S # {}
    PROVE  \E n \in S : \A m \in S : n <= m
<1>1. IsWellFoundedOn(OpToRel(<, Nat), Nat)
  BY NatLessThanWellFounded
<1>2. PICK n \in S : \A m \in S : ~ (<<m, n>> \in OpToRel(<, Nat))
  BY <1>1, WFMin
<1>3. \A m \in S : ~ (m < n)
  BY <1>2, Zenon DEF OpToRel
<1> QED
  BY <1>3

\* First is the entry with the least EID.
LEMMA FirstIsLeast ==
    ASSUME NEW S \in SUBSET Entries, S # {}
    PROVE  First(S) \in S /\ \A y \in S : First(S).eid <= y.eid
<1>1. EidsOf(S) \subseteq Nat /\ EidsOf(S) # {}
  BY PCIeAssumption DEF EidsOf, Entries
<1>2. PICK n \in EidsOf(S) : \A m \in EidsOf(S) : n <= m
  BY <1>1, Least
<1>3. \E x \in S : \A y \in S : x.eid <= y.eid
  BY <1>2 DEF EidsOf
<1> QED
  BY <1>3 DEF First

\* The second loop loses nothing that is new, and at its end nothing is.
LEMMA GoOnKeeps ==
    ASSUME Inv, NEW i \in Readers, NEW table, NEW left,
           table \in SUBSET Entries, Unique(table), left \subseteq table,
           reader[i] # Idle, GoOn(i, table, left),
           UNCHANGED <<ownEid, busTable, overlapped>>,
           ~ overlapped => HalfWay(endpointInterface', registrationFailed', table, left)
    PROVE  Inv'
<1> DEFINE n == [pc |-> "register", table |-> table, position |-> 0,
                 left |-> From(left, First(New(left)))]
<1>0. /\ Types /\ Unique(routingTable) /\ InOrder
      /\ \A j \in Readers : ReaderSound(reader[j])
  BY DEF Inv
<1>1. left \in SUBSET Entries /\ New(left) \in SUBSET Entries /\ New(left) \subseteq left
  BY DEF New
<1>2. CASE New(left) = {}
  <2>1. routingTable' = table /\ reader' = [reader EXCEPT ![i] = Idle]
    BY <1>2 DEF GoOn
  <2>2. Idle \in Reader /\ ReaderSound(Idle) /\ Idle.pc = "idle"
    BY DEF Idle, Reader, ReaderSound, Unique
  <2>3. Types'
    BY <1>0, <2>1, <2>2 DEF Types
  <2>4. Unique(routingTable)' /\ \A j \in Readers : ReaderSound(reader[j])'
    BY <1>0, <2>1, <2>2 DEF Types, ReaderSound, Unique
  <2>5. ASSUME ~ overlapped'
        PROVE  /\ Alone' /\ Settled' /\ \A j \in Readers : reader'[j].pc # "register"
    <3>1. ~ overlapped
      BY <2>5
    <3>2. \A j \in Readers \ {i} : reader[j] = Idle
      BY <1>0, <3>1 DEF InOrder, Alone
    <3>3. \A j \in Readers : reader'[j] = Idle
      BY <1>0, <2>1, <3>2 DEF Types
    <3>4. \A x \in left : x.eid # OwnEid => x \in routingTable
      BY <1>0, <1>1, <1>2, PCIeAssumption DEF New, Types, Entries
    <3>5. Settled'
      BY <2>1, <3>1, <3>4 DEF Settled, HalfWay, EidsOf
    <3> QED
      BY <2>2, <3>3, <3>5 DEF Alone
  <2> QED
    BY <2>3, <2>4, <2>5 DEF Inv, InOrder
<1>3. CASE New(left) # {}
  <2>1. routingTable' = routingTable /\ reader' = [reader EXCEPT ![i] = n]
    BY <1>3 DEF GoOn
  <2>2. First(New(left)) \in New(left) /\ \A y \in New(left) : First(New(left)).eid <= y.eid
    BY <1>1, <1>3, FirstIsLeast
  <2>3. n.left \subseteq left /\ New(left) \subseteq n.left
    BY <1>1, <2>2 DEF From
  <2>4. n \in Reader
    BY <1>1, <2>3 DEF Reader
  <2>5. ReaderSound(n) /\ n.pc = "register" /\ n # Idle
    BY <1>3, <2>3 DEF ReaderSound, Idle
  <2>6. Types'
    <3> HIDE DEF n
    <3> QED
      BY <1>0, <2>1, <2>4 DEF Types
  <2>7. reader'[i] = n /\ \A j \in Readers \ {i} : reader'[j] = reader[j]
    <3> HIDE DEF n
    <3> QED
      BY <1>0, <2>1 DEF Types
  <2>8. Unique(routingTable)' /\ \A j \in Readers : ReaderSound(reader[j])'
    <3> HIDE DEF n
    <3>1. \A j \in Readers : ReaderSound(reader'[j])
      BY <1>0, <2>5, <2>7
    <3> QED
      BY <1>0, <2>1, <3>1 DEF ReaderSound, Unique
  <2>9. ASSUME ~ overlapped'
        PROVE  /\ Alone'
               /\ \A j \in Readers : reader'[j].pc = "register" =>
                     HalfWay(endpointInterface, registrationFailed,
                             reader[j].table, reader[j].left)'
    <3>1. ~ overlapped
      BY <2>9
    <3>2. \A j \in Readers \ {i} : reader[j] = Idle
      BY <1>0, <3>1 DEF InOrder, Alone
    <3>3. HalfWay(endpointInterface', registrationFailed', table, n.left)
      <4>1. \A x \in left \ routingTable : x.eid = OwnEid \/ x \in n.left
        BY <1>0, <1>1, <2>3, PCIeAssumption DEF New, Types, Entries
      <4> HIDE DEF n
      <4> QED
        BY <3>1, <4>1 DEF HalfWay
    <3>4. n.table = table /\ Idle.pc = "idle"
      BY DEF Idle
    <3> HIDE DEF n
    <3> QED
      BY <2>1, <2>7, <3>2, <3>3, <3>4 DEF Alone, HalfWay
  <2>10. ~ (\A j \in Readers : reader'[j].pc # "register")
    BY <2>5, <2>7
  <2> QED
    BY <2>6, <2>8, <2>9, <2>10 DEF Inv, InOrder
<1> QED
  BY <1>2, <1>3

\* The first loop unregisters nothing that the new table has.
LEMMA TableReadKeeps ==
    ASSUME Inv, NEW i \in Readers, reader[i].pc = "read", NEW table,
           table \in SUBSET Entries, Unique(table), TableRead(i, table),
           UNCHANGED <<ownEid, busTable, overlapped, registrationFailed>>
    PROVE  Inv'
<1>0. /\ Types /\ Unique(routingTable) /\ InOrder
      /\ \A j \in Readers : ReaderSound(reader[j])
      /\ Idle.pc = "idle" /\ reader[i] # Idle
  BY DEF Inv, Idle
<1>1. ASSUME ~ overlapped
      PROVE  Settled /\ \A j \in Readers \ {i} : reader[j] = Idle
  <2>1. \A j \in Readers \ {i} : reader[j] = Idle
    BY <1>0, <1>1 DEF InOrder, Alone
  <2>2. \A j \in Readers : reader[j].pc # "register"
    BY <1>0, <2>1
  <2> QED
    BY <1>0, <1>1, <2>1, <2>2 DEF InOrder
<1>2. CASE table = routingTable /\ reader' = [reader EXCEPT ![i] = Idle]
           /\ UNCHANGED <<routingTable, endpointInterface>>
  <2>1. Idle \in Reader /\ ReaderSound(Idle)
    BY DEF Idle, Reader, ReaderSound, Unique
  <2>2. Types'
    BY <1>0, <1>2, <2>1 DEF Types
  <2>3. Unique(routingTable)' /\ \A j \in Readers : ReaderSound(reader[j])'
    BY <1>0, <1>2, <2>1 DEF Types, ReaderSound, Unique
  <2>4. ASSUME ~ overlapped'
        PROVE  Settled' /\ \A j \in Readers : reader'[j] = Idle
    <3>1. Settled /\ \A j \in Readers \ {i} : reader[j] = Idle
      BY <1>1, <2>4
    <3>2. Settled'
      BY <1>2, <3>1 DEF Settled, EidsOf
    <3> QED
      BY <1>0, <1>2, <3>1, <3>2 DEF Types
  <2> QED
    BY <1>0, <2>2, <2>3, <2>4 DEF Inv, InOrder, Alone
<1>3. CASE endpointInterface' = endpointInterface \ EidsOf(routingTable \ table)
           /\ GoOn(i, table, table)
  <2>1. ASSUME ~ overlapped
        PROVE  HalfWay(endpointInterface', registrationFailed', table, table)
    <3>1. Settled
      BY <1>1, <2>1
    <3>2. endpointInterface' \subseteq EidsOf(table)
      BY <1>3, <3>1 DEF Settled, EidsOf
    <3>3. ASSUME ~ registrationFailed, NEW x \in table, x \in routingTable, x.eid # OwnEid
          PROVE  x.eid \in endpointInterface'
      <4>1. x.eid \in endpointInterface
        BY <3>1, <3>3 DEF Settled, EidsOf
      <4>2. x.eid \notin EidsOf(routingTable \ table)
        BY <1>0, <3>3 DEF Unique, EidsOf
      <4> QED
        BY <1>3, <4>1, <4>2
    <3> QED
      BY <3>2, <3>3 DEF HalfWay
  <2> QED
    BY <1>0, <1>3, <2>1, GoOnKeeps
<1> QED
  BY <1>2, <1>3 DEF TableRead

\* One entry of the routing table more, or the reading fails.
LEMMA ReadStep == \A i \in Readers : Inv /\ (ReadEntry(i) \/ ReadFails(i)) => Inv'
<1> SUFFICES ASSUME Inv, NEW i \in Readers, ReadEntry(i) \/ ReadFails(i) PROVE Inv'
  OBVIOUS
<1> DEFINE r == reader[i]
           more == {x \in BusEntries : x.eid > r.position}
           n == [r EXCEPT !.table = @ \cup {First(more)}, !.position = First(more).eid]
<1>0. /\ Types /\ Unique(routingTable) /\ InOrder /\ r.pc = "read"
      /\ \A j \in Readers : ReaderSound(reader[j])
      /\ r \in Reader /\ Eids \subseteq Nat
  BY PCIeAssumption DEF Inv, Types, ReadEntry, ReadFails
<1>8. \A x \in Entries : x.eid \in Nat
  BY <1>0 DEF Entries
<1>1. Unique(r.table) /\ r.table \in SUBSET Entries /\ r.position \in Nat
      /\ \A x \in r.table : x.eid <= r.position
  <2>1. ReaderSound(r)
    BY <1>0
  <2>2. Unique(r.table) /\ \A x \in r.table : x.eid <= r.position
    <3> HIDE DEF r
    <3> QED
      BY <1>0, <2>1 DEF ReaderSound
  <2>3. r.table \in SUBSET Entries /\ r.position \in Eids \cup {0}
    <3> HIDE DEF r
    <3> QED
      BY <1>0 DEF Reader
  <2>4. r.position \in Nat
    <3>1. \A p \in Eids \cup {0} : p \in Nat
      BY PCIeAssumption
    <3> QED
      BY <2>3, <3>1, Zenon
  <2> QED
    BY <2>2, <2>3, <2>4, Zenon
<1>2. BusEntries \in SUBSET Entries /\ Unique(BusEntries)
  BY <1>0 DEF BusEntries, Entries, Types, Unique
<1>3. more \in SUBSET Entries
  BY <1>2
<1>4. CASE ReadFails(i)
  <2>1. TableRead(i, r.table) /\ UNCHANGED <<ownEid, busTable, overlapped, registrationFailed>>
    BY <1>4 DEF ReadFails, discoveryVars
  <2> QED
    <3> HIDE DEF more, n
    <3>1. r.pc = "read" /\ r.table \in SUBSET Entries /\ Unique(r.table)
      BY <1>0, <1>1
    <3> QED
      BY <2>1, <3>1, TableReadKeeps
<1>5. ASSUME TableRead(i, r.table \cup more),
             UNCHANGED <<ownEid, busTable, overlapped, registrationFailed>>
      PROVE  Inv'
  <2>1. Unique(r.table \cup more)
    <3>1. \A x \in r.table, y \in more : x.eid # y.eid
      BY <1>1, <1>3, <1>8
    <3> QED
      BY <1>1, <1>2, <3>1 DEF Unique
  <2>2. r.table \cup more \in SUBSET Entries
    BY <1>1, <1>3
  <2> HIDE DEF more
  <2> QED
    BY <1>0, <1>5, <2>1, <2>2, TableReadKeeps
<1>6. ASSUME more # {}, reader' = [reader EXCEPT ![i] = n],
             UNCHANGED <<ownEid, busTable, routingTable, endpointInterface, overlapped,
                         registrationFailed>>
      PROVE  Inv'
  <2>1. First(more) \in more
    BY <1>3, <1>6, FirstIsLeast
  <2>2. First(more) \in Entries /\ First(more).eid \in Eids /\ First(more).eid > r.position
    BY <1>3, <2>1 DEF Entries
  <2>3. n \in Reader /\ n.pc = "read" /\ n.table = r.table \cup {First(more)}
        /\ n.position = First(more).eid
    <3> HIDE DEF more
    <3> QED
      BY <1>0, <1>1, <2>2 DEF Reader
  <2>4. \A x \in r.table : x.eid < First(more).eid
    <3> HIDE DEF r, more
    <3> QED
      BY <1>1, <1>8, <2>2
  <2>5. ReaderSound(n)
    <3> HIDE DEF n, more, r
    <3>0. \A x \in r.table : x.eid \in Nat
      BY <1>1, <1>8
    <3>1. Unique(n.table)
      <4>1. \A x \in r.table : x.eid # First(more).eid
        BY <1>8, <2>2, <2>4, <3>0
      <4> QED
        BY <1>1, <2>3, <4>1 DEF Unique
    <3>2. \A x \in n.table : x.eid <= n.position
      BY <1>8, <2>2, <2>3, <2>4, <3>0
    <3> QED
      BY <2>3, <3>1, <3>2 DEF ReaderSound
  <2>6. reader' \in [Readers -> Reader] /\ reader'[i] = n
        /\ \A j \in Readers \ {i} : reader'[j] = reader[j]
    <3> HIDE DEF n
    <3> QED
      BY <1>0, <1>6, <2>3 DEF Types
  <2> HIDE DEF n
  <2>7. Types'
    BY <1>0, <1>6, <2>6 DEF Types
  <2>8. Unique(routingTable)'
    BY <1>0, <1>6 DEF Unique
  <2>9. \A j \in Readers : ReaderSound(reader[j])'
    <3>1. \A j \in Readers : ReaderSound(reader'[j])
      BY <1>0, <2>5, <2>6
    <3> QED
      BY <3>1 DEF ReaderSound, Unique
  <2>10. InOrder'
    <3>1. \A j \in Readers : /\ reader'[j].pc = reader[j].pc
                             /\ reader'[j] # Idle => reader[j] # Idle
                             /\ reader'[j].pc = "register" => reader'[j] = reader[j]
      BY <1>0, <2>3, <2>6 DEF Idle
    <3>2. Settled => Settled'
      BY <1>6 DEF Settled, EidsOf
    <3> QED
      BY <1>0, <1>6, <3>1, <3>2 DEF InOrder, Alone, HalfWay, EidsOf
  <2> QED
    BY <2>7, <2>8, <2>9, <2>10 DEF Inv
<1>7. CASE ReadEntry(i)
  <2>1. UNCHANGED <<ownEid, busTable, overlapped, registrationFailed>>
    BY <1>7 DEF ReadEntry, discoveryVars
  <2>2. Cardinality(more) > 1 => more # {}
    <3> HIDE DEF more
    <3> QED
      BY FS_EmptySet
  <2>3. \/ /\ Cardinality(more) > 1
           /\ reader' = [reader EXCEPT ![i].table = @ \cup {First(more)},
                                       ![i].position = First(more).eid]
           /\ UNCHANGED <<routingTable, endpointInterface>>
        \/ TableRead(i, r.table \cup more)
    BY <1>7 DEF ReadEntry
  <2>4. [reader EXCEPT ![i].table = @ \cup {First(more)}, ![i].position = First(more).eid]
        = [reader EXCEPT ![i] = n]
    BY <1>0 DEF Types
  <2> HIDE DEF more, n
  <2> QED
    BY <1>5, <1>6, <2>1, <2>2, <2>3, <2>4
<1> QED
  BY <1>4, <1>7

\* An endpoint is registered and published.
LEMMA RegisterStep ==
    \A i \in Readers : Inv /\ (Registered(i) \/ RegistrationFails(i)) => Inv'
<1> SUFFICES ASSUME Inv, NEW i \in Readers, Registered(i) \/ RegistrationFails(i) PROVE Inv'
  OBVIOUS
<1> DEFINE r == reader[i]
           x == Registering(i)
<1>1. /\ Types /\ InOrder /\ r.pc = "register" /\ ReaderSound(r) /\ r \in Reader /\ r # Idle
  BY DEF Inv, Types, Registered, RegistrationFails, Idle
<1>2. /\ Unique(r.table) /\ r.table \in SUBSET Entries /\ r.left \subseteq r.table /\ r.left # {}
  BY <1>1 DEF ReaderSound, Reader
<1>3. x \in r.left
  BY <1>2, FirstIsLeast DEF Registering
<1>4. /\ GoOn(i, r.table, r.left \ {x}) /\ UNCHANGED <<ownEid, busTable, overlapped>>
      /\ \/ /\ endpointInterface' = endpointInterface \cup {x.eid}
            /\ UNCHANGED registrationFailed
         \/ registrationFailed' /\ UNCHANGED endpointInterface
  BY DEF Registered, RegistrationFails, discoveryVars
<1>5. ASSUME ~ overlapped
      PROVE  HalfWay(endpointInterface', registrationFailed', r.table, r.left \ {x})
  <2>1. HalfWay(endpointInterface, registrationFailed, r.table, r.left)
    BY <1>1, <1>5 DEF InOrder
  <2> HIDE DEF x, r
  <2> QED
    BY <1>2, <1>3, <1>4, <2>1 DEF HalfWay, EidsOf
<1> HIDE DEF x
<1> QED
  BY <1>1, <1>2, <1>4, <1>5, GoOnKeeps

\* A coroutine that starts alone finds everything settled.
LEMMA StartStep == \A i \in Readers : Inv /\ UpdateRoutingTable(i) => Inv'
<1> SUFFICES ASSUME Inv, NEW i \in Readers, UpdateRoutingTable(i) PROVE Inv'
  OBVIOUS
<1> DEFINE n == [Idle EXCEPT !.pc = "read"]
<1>0. /\ Types /\ Unique(routingTable) /\ InOrder
      /\ \A j \in Readers : ReaderSound(reader[j])
  BY DEF Inv
<1>1. /\ reader[i] = Idle /\ reader' = [reader EXCEPT ![i] = n]
      /\ UNCHANGED <<ownEid, busTable, routingTable, endpointInterface, registrationFailed>>
      /\ overlapped' = (overlapped \/ \E j \in Readers \ {i} : reader[j] # Idle)
  BY DEF UpdateRoutingTable, discoveryVars
<1>2. n \in Reader /\ n.pc = "read" /\ ReaderSound(n) /\ Idle.pc = "idle"
  BY DEF Idle, Reader, ReaderSound, Unique
<1>3. reader' \in [Readers -> Reader] /\ reader'[i] = n
      /\ \A j \in Readers \ {i} : reader'[j] = reader[j]
  BY <1>0, <1>1, <1>2 DEF Types
<1> HIDE DEF n
<1>4. Types' /\ Unique(routingTable)' /\ \A j \in Readers : ReaderSound(reader[j])'
  <2>1. \A j \in Readers : ReaderSound(reader'[j])
    BY <1>0, <1>2, <1>3
  <2> QED
    BY <1>0, <1>1, <1>3, <2>1 DEF Types, Unique, ReaderSound
<1>5. ASSUME ~ overlapped'
      PROVE  /\ Alone' /\ Settled' /\ \A j \in Readers : reader'[j].pc # "register"
  <2>1. ~ overlapped /\ \A j \in Readers : reader[j] = Idle
    BY <1>1, <1>5
  <2>2. Settled
    BY <1>0, <1>2, <2>1 DEF InOrder
  <2>3. \A j \in Readers \ {i} : reader'[j] = Idle
    BY <1>3, <2>1
  <2>4. Settled'
    BY <1>1, <2>2 DEF Settled, EidsOf
  <2> QED
    BY <1>2, <1>3, <2>3, <2>4 DEF Alone
<1> QED
  BY <1>4, <1>5 DEF Inv, InOrder

\* What the tables are about is left alone by everything else.
LEMMA OtherStep ==
    ASSUME Inv, UNCHANGED readerVars, ownEid' \in {0, OwnEid},
           busTable' \in [Eids -> Bdfs \cup {None}]
    PROVE  Inv'
<1>1. Types'
  BY DEF Inv, Types, readerVars
<1>2. Unique(routingTable)' /\ \A j \in Readers : ReaderSound(reader[j])'
  BY DEF Inv, readerVars, Unique, ReaderSound
<1>3. InOrder'
  <2>1. UNCHANGED <<overlapped, reader, endpointInterface, routingTable, registrationFailed>>
    BY DEF readerVars
  <2>2. Settled => Settled'
    BY <2>1 DEF Settled, EidsOf
  <2> QED
    BY <2>1, <2>2 DEF Inv, InOrder, Alone, HalfWay, EidsOf
<1> QED
  BY <1>1, <1>2, <1>3 DEF Inv

\* Every step keeps the invariant.
LEMMA InvStep == Inv /\ [Next]_vars => Inv'
<1> SUFFICES ASSUME Inv, [Next]_vars PROVE Inv'
  OBVIOUS
<1>0. ownEid \in {0, OwnEid} /\ busTable \in [Eids -> Bdfs \cup {None}]
  BY DEF Inv, Types
<1>1. CASE BecomeUndiscovered \/ \E b \in Owners : EndpointDiscovery(b) \/ SetEndpointId(b)
  BY <1>0, <1>1, OtherStep DEF BecomeUndiscovered, EndpointDiscovery, SetEndpointId
<1>2. ASSUME NEW e \in Eids, NEW b \in Bdfs \cup {None}, BusTableChanges(e, b)
      PROVE  Inv'
  <2>1. busTable' \in [Eids -> Bdfs \cup {None}] /\ UNCHANGED readerVars /\ ownEid' = ownEid
    BY <1>0, <1>2 DEF BusTableChanges, discoveryVars
  <2> QED
    BY <1>0, <2>1, OtherStep
<1>3. ASSUME NEW i \in Readers, UpdateRoutingTable(i) \/ ReaderStep(i) PROVE Inv'
  BY <1>3, StartStep, ReadStep, RegisterStep DEF ReaderStep
<1>4. CASE UNCHANGED vars
  BY <1>0, <1>4, OtherStep DEF vars, discoveryVars
<1> QED
  BY <1>1, <1>2, <1>3, <1>4 DEF Next

\* What the daemon starts from.
LEMMA Initially == Init => Inv
<1> SUFFICES ASSUME Init PROVE Inv
  OBVIOUS
<1>1. Idle \in Reader /\ ReaderSound(Idle) /\ Idle.pc = "idle"
  BY DEF Idle, Reader, ReaderSound, Unique
<1>2. Types /\ Unique(routingTable) /\ \A i \in Readers : ReaderSound(reader[i])
  BY <1>1 DEF Init, Types, Unique
<1>3. InOrder
  BY <1>1 DEF Init, InOrder, Alone, Settled, EidsOf
<1> QED
  BY <1>2, <1>3 DEF Inv

(***************************************************************************)
(* When no coroutine of updateRoutingTable runs and none have overlapped,  *)
(* the endpoints published are those of the stored routing table, but for  *)
(* failed registrations.                                                   *)
(***************************************************************************)
THEOREM RoutedIsPublished == Spec => []PublishedIsRouted
<1>1. Inv => PublishedIsRouted
  <2> SUFFICES ASSUME Inv, Quiet, ~ overlapped
               PROVE  /\ endpointInterface \subseteq EidsOf(routingTable)
                      /\ registrationFailed
                         \/ EidsOf(routingTable) \ {OwnEid} \subseteq endpointInterface
    BY DEF PublishedIsRouted
  <2>1. \A i \in Readers : reader[i].pc # "register"
    BY DEF Quiet, Idle
  <2> QED
    BY <2>1 DEF Inv, InOrder, Settled
<1> QED
  BY <1>1, Initially, InvStep, PTL DEF Spec

(***************************************************************************)
(* handleEndpointDiscovery does not take another bus owner while the BMC   *)
(* is discovered: it stays the one that gave the BMC its EID.              *)
(***************************************************************************)
THEOREM BusOwnerIsKept == Spec => []OwnerKept
<1>1. Init => OwnerKept
  BY DEF Init, OwnerKept
<1>2. OwnerKept /\ [Next]_vars => OwnerKept'
  <2> SUFFICES ASSUME OwnerKept, [Next]_vars PROVE OwnerKept'
    OBVIOUS
  <2>1. ASSUME UNCHANGED discoveryVars PROVE OwnerKept'
    BY <2>1 DEF OwnerKept, discoveryVars
  <2>2. CASE BecomeUndiscovered \/ \E b \in Owners : EndpointDiscovery(b) \/ SetEndpointId(b)
    BY <2>2 DEF OwnerKept, BecomeUndiscovered, EndpointDiscovery, SetEndpointId
  <2>3. CASE \/ \E e \in Eids, b \in Bdfs \cup {None} : BusTableChanges(e, b)
             \/ \E i \in Readers : UpdateRoutingTable(i) \/ ReaderStep(i)
    BY <2>1, <2>3 DEF BusTableChanges, UpdateRoutingTable, ReaderStep, ReadEntry, ReadFails,
                      Registered, RegistrationFails
  <2> QED
    BY <2>1, <2>2, <2>3 DEF Next, vars
<1> QED
  BY <1>1, <1>2, PTL DEF Spec
=============================================================================
