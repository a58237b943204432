---------------------------- MODULE PCIeEndpoint ----------------------------
(***************************************************************************)
(* mctpd as an endpoint on PCIe (PCIeBinding.cpp): its discovery by the    *)
(* bus owner, and the routing table that it reads from the bus owner to    *)
(* publish the other endpoints on D-Bus.                                   *)
(*                                                                         *)
(* updateRoutingTable starts a coroutine every time its timer fires, and   *)
(* at once after Set Endpoint ID, whether or not the last one is done.     *)
(* Each reads the table one response at a time, then registers what is new *)
(* in it one endpoint at a time, then stores the table.  Responses may be  *)
(* lost and the bus owner's table may change at any time.                  *)
(*                                                                         *)
(* One entry stands for one response of the bus owner, and entries are in  *)
(* the order of their EIDs; bridges are left out.                          *)
(***************************************************************************)
EXTENDS Integers, FiniteSets

CONSTANTS
    Eids,          \* positive integers
    OwnEid,        \* the EID that the bus owner gives to the BMC
    Bdfs,          \* PCIe addresses of endpoints
    Owners,        \* addresses that act as bus owner
    None,
    Readers,       \* bounds the coroutines that run at the same time
    MaxChanges,    \* bounds the changes of the bus owner's table
    MaxFaults      \* bounds the responses that are lost

ASSUME PCIeAssumption ==
    /\ Eids \subseteq Nat \ {0}
    /\ OwnEid \in Eids
    /\ None \notin Bdfs \cup Owners
    /\ MaxChanges \in Nat
    /\ MaxFaults \in Nat

VARIABLES
    discoveredFlag,      \* "Undiscovered" or "Discovered"
    busOwnerBdf,
    ownEid,              \* 0 before the first Set Endpoint ID
    setBy,               \* sender of the last Set Endpoint ID accepted
    busTable,            \* the bus owner's table: where an EID is, or None
    routingTable,        \* the table that the binding has stored
    endpointInterface,   \* EIDs published on D-Bus
    reader,              \* the coroutines of updateRoutingTable
    overlapped,          \* two of them have run at the same time
    registrationFailed,
    changes,
    faults

discoveryVars == <<discoveredFlag, busOwnerBdf, ownEid, setBy>>

readerVars == <<routingTable, endpointInterface, reader, overlapped,
                registrationFailed>>

vars == <<discoveryVars, readerVars, busTable, changes, faults>>

Entries == [eid : Eids, bdf : Bdfs]

\* table is routingTableTmp; left is what the second loop has not done yet.
Reader == [pc : {"idle", "read", "register"}, table : SUBSET Entries,
           position : Eids \cup {0}, left : SUBSET Entries]

Idle == [pc |-> "idle", table |-> {}, position |-> 0, left |-> {}]

TypeOK ==
    /\ discoveredFlag \in {"Undiscovered", "Discovered"}
    /\ busOwnerBdf \in Owners \cup {None}
    /\ ownEid \in {0, OwnEid}
    /\ setBy \in Owners \cup {None}
    /\ busTable \in [Eids -> Bdfs \cup {None}]
    /\ routingTable \in SUBSET Entries
    /\ endpointInterface \in SUBSET Eids
    /\ reader \in [Readers -> Reader]
    /\ \A i \in Readers : reader[i].pc = "register" => reader[i].left # {}
    /\ overlapped \in BOOLEAN
    /\ registrationFailed \in BOOLEAN
    /\ changes \in 0 .. MaxChanges
    /\ faults \in 0 .. MaxFaults

\* busOwnerBdf has no initializer: it may hold anything.
Init ==
    /\ discoveredFlag = "Undiscovered"
    /\ busOwnerBdf \in Owners \cup {None}
    /\ ownEid = 0
    /\ setBy = None
    /\ busTable \in [Eids -> Bdfs \cup {None}]
    /\ routingTable = {}
    /\ endpointInterface = {}
    /\ reader = [i \in Readers |-> Idle]
    /\ overlapped = FALSE
    /\ registrationFailed = FALSE
    /\ changes = 0
    /\ faults = 0
-----------------------------------------------------------------------------
\* handlePrepareForEndpointDiscovery, and deviceReadyNotify.
BecomeUndiscovered ==
    /\ discoveredFlag' = "Undiscovered"
    /\ UNCHANGED <<busOwnerBdf, ownEid, setBy, readerVars, busTable,
                   changes, faults>>

\* Broken variant: obeyed when discovered, too.
EndpointDiscoveryAnytime(b) ==
    /\ busOwnerBdf' = b
    /\ UNCHANGED <<discoveredFlag, ownEid, setBy, readerVars, busTable,
                   changes, faults>>

\* handleEndpointDiscovery: a broadcast that is ignored once discovered.
EndpointDiscovery(b) ==
    /\ discoveredFlag = "Undiscovered"
    /\ busOwnerBdf' = b
    /\ UNCHANGED <<discoveredFlag, ownEid, setBy, readerVars, busTable,
                   changes, faults>>

(***************************************************************************)
(* handleSetEndpointId: refused from any other sender than busOwnerBdf.    *)
(* The timer it restarts makes updateRoutingTable run at once, which the   *)
(* model allows at any time.                                               *)
(***************************************************************************)
SetEndpointId(b) ==
    /\ b = busOwnerBdf
    /\ discoveredFlag' = "Discovered"
    /\ ownEid' = OwnEid
    /\ setBy' = b
    /\ UNCHANGED <<busOwnerBdf, readerVars, busTable, changes,
                   faults>>

\* The bus owner adds, removes or moves an endpoint.
BusTableChanges(e, b) ==
    /\ changes < MaxChanges
    /\ changes' = changes + 1
    /\ busTable[e] # b
    /\ busTable' = [busTable EXCEPT ![e] = b]
    /\ UNCHANGED <<discoveryVars, readerVars, faults>>
-----------------------------------------------------------------------------
EidsOf(table) == {x.eid : x \in table}

BusEntries == {[eid |-> e, bdf |-> busTable[e]] :
                  e \in {f \in Eids : busTable[f] # None}}

\* updateRoutingTable, when discovered: starts a coroutine.
UpdateRoutingTable(i) ==
    /\ discoveredFlag = "Discovered"
    /\ reader[i] = Idle
    /\ reader' = [reader EXCEPT ![i].pc = "read"]
    /\ overlapped' = (overlapped
                        \/ \E j \in Readers \ {i} : reader[j] # Idle)
    /\ UNCHANGED <<discoveryVars, routingTable, endpointInterface,
                   registrationFailed, busTable, changes, faults>>

\* What the second loop of processRoutingTableChanges registers: entries that
\* the stored table has and the BMC itself are skipped.
New(left) == {x \in left : x \notin routingTable /\ x.eid # ownEid}

First(entries) == CHOOSE x \in entries : \A y \in entries : x.eid <= y.eid

From(left, x) == {y \in left : x.eid <= y.eid}

(***************************************************************************)
(* The second loop goes on to its next endpoint and waits while it is      *)
(* registered.  Without one the coroutine stores its table and ends.       *)
(***************************************************************************)
GoOn(i, table, left) ==
    \/ /\ New(left) = {}
       /\ routingTable' = table
       /\ reader' = [reader EXCEPT ![i] = Idle]
    \/ /\ New(left) # {}
       /\ routingTable' = routingTable
       /\ reader' = [reader EXCEPT ![i] =
             [pc |-> "register", table |-> table, position |-> 0,
              left |-> From(left, First(New(left)))]]

\* Broken variant: looks for new entries only.
TableReadForNew(i, table) ==
    \/ /\ table \subseteq routingTable
       /\ reader' = [reader EXCEPT ![i] = Idle]
       /\ UNCHANGED <<routingTable, endpointInterface>>
    \/ /\ ~ (table \subseteq routingTable)
       /\ UNCHANGED endpointInterface
       /\ GoOn(i, table, table)

(***************************************************************************)
(* The table has been read.  If it differs from the stored one, the first  *)
(* loop of processRoutingTableChanges unregisters what is not in it.       *)
(***************************************************************************)
TableRead(i, table) ==
    \/ /\ table = routingTable
       /\ reader' = [reader EXCEPT ![i] = Idle]
       /\ UNCHANGED <<routingTable, endpointInterface>>
    \/ /\ table # routingTable
       /\ endpointInterface' =
             endpointInterface \ EidsOf(routingTable \ table)
       /\ GoOn(i, table, table)

(***************************************************************************)
(* readRoutingTable is given the entry after the last one that it has      *)
(* read; it is done when the bus owner says that there are no more.        *)
(***************************************************************************)
ReadEntry(i) ==
    /\ reader[i].pc = "read"
    /\ LET more == {x \in BusEntries : x.eid > reader[i].position}
       IN  \/ /\ Cardinality(more) > 1
              /\ reader' = [reader EXCEPT ![i].table = @ \cup {First(more)},
                                          ![i].position = First(more).eid]
              /\ UNCHANGED <<routingTable, endpointInterface>>
           \/ /\ Cardinality(more) <= 1
              /\ TableRead(i, reader[i].table \cup more)
    /\ UNCHANGED <<discoveryVars, overlapped, registrationFailed, busTable,
                   changes, faults>>

\* A response does not come: readRoutingTable returns what it has read.
ReadFails(i) ==
    /\ reader[i].pc = "read"
    /\ faults < MaxFaults
    /\ faults' = faults + 1
    /\ TableRead(i, reader[i].table)
    /\ UNCHANGED <<discoveryVars, overlapped, registrationFailed, busTable,
                   changes>>

Registering(i) == First(reader[i].left)

\* registerEndpoint succeeds, or finds the EID already registered.
Registered(i) ==
    LET x == Registering(i)
    IN  /\ reader[i].pc = "register"
        /\ busTable[x.eid] = x.bdf
        /\ endpointInterface' = endpointInterface \cup {x.eid}
        /\ GoOn(i, reader[i].table, reader[i].left \ {x})
        /\ UNCHANGED <<discoveryVars, overlapped, registrationFailed, busTable,
                       changes, faults>>

\* registerEndpoint fails: the endpoint is not there, or an answer is lost.
RegistrationFails(i) ==
    LET x == Registering(i)
    IN  /\ reader[i].pc = "register"
        /\ \/ busTable[x.eid] # x.bdf /\ UNCHANGED faults
           \/ /\ busTable[x.eid] = x.bdf
              /\ faults < MaxFaults
              /\ faults' = faults + 1
        /\ registrationFailed' = TRUE
        /\ GoOn(i, reader[i].table, reader[i].left \ {x})
        /\ UNCHANGED <<discoveryVars, endpointInterface, overlapped, busTable,
                       changes>>

ReaderStep(i) ==
    ReadEntry(i) \/ ReadFails(i) \/ Registered(i) \/ RegistrationFails(i)

Next ==
    \/ BecomeUndiscovered
    \/ \E b \in Owners : EndpointDiscovery(b) \/ SetEndpointId(b)
    \/ \E e \in Eids, b \in Bdfs \cup {None} : BusTableChanges(e, b)
    \/ \E i \in Readers : UpdateRoutingTable(i) \/ ReaderStep(i)

Spec == Init /\ [][Next]_vars

\* The timer is always started again; every control command is answered or
\* given up.
Fairness ==
    /\ WF_vars(\E i \in Readers : UpdateRoutingTable(i))
    /\ \A i \in Readers : WF_vars(ReaderStep(i))

FairSpec == Spec /\ Fairness
-----------------------------------------------------------------------------
(***************************************************************************)
(* While it is discovered, the BMC takes for bus owner the one that gave   *)
(* it its EID: routing tables are read from there.                         *)
(***************************************************************************)
OwnerKept == discoveredFlag = "Discovered" => busOwnerBdf = setBy

Quiet == \A i \in Readers : reader[i] = Idle

(***************************************************************************)
(* When no coroutine runs, what is published is what the stored table      *)
(* says, unless two coroutines have overlapped or a registration failed:   *)
(* with overlaps an endpoint may stay published for ever, after a failed   *)
(* registration it is not tried again.                                     *)
(***************************************************************************)
PublishedIsRouted ==
    Quiet /\ ~ overlapped =>
        /\ endpointInterface \subseteq EidsOf(routingTable)
        /\ registrationFailed \/ EidsOf(routingTable) \ {OwnEid} \subseteq endpointInterface

(***************************************************************************)
(* While the BMC stays discovered, the stored table comes to be the bus    *)
(* owner's and stays so, whatever responses were lost and however the      *)
(* coroutines overlapped before.                                           *)
(***************************************************************************)
TableConverges ==
    <>[](discoveredFlag = "Discovered") => <>[](routingTable = BusEntries)
=============================================================================
