----------------------------- MODULE EndpointMap -----------------------------
(***************************************************************************)
(* The map from EIDs to mctpd services that mctpwplus keeps for a client   *)
(* such as pldmd (mctp_impl.cpp, dbus_cb.cpp, service_monitor.cpp).        *)
(*                                                                         *)
(* detectMctpEndpoints asks every service for its endpoints, one after the *)
(* other, then installs listeners for D-Bus signals.  From then on an      *)
(* InterfacesAdded signal makes a coroutine ask the service again, and an  *)
(* InterfacesRemoved signal takes the EID out of the map.  The client is   *)
(* called back for both.                                                   *)
(*                                                                         *)
(* D-Bus delivers what one service sends, signals and replies, in order.   *)
(* A signal that no match rule asks for is not delivered; once monitoring  *)
(* has begun, its rules ask for the signals of all services.               *)
(*                                                                         *)
(* Listeners are kept under a name: the one by which the object mapper     *)
(* lists a service, or the sender of its messages.  A service in Named has *)
(* two different ones.  The sender's name does not survive a restart.      *)
(***************************************************************************)
EXTENDS Naturals, Sequences, SequencesExt

CONSTANTS
    Services,      \* mctpd instances with the client's binding type
    Eids,
    None,
    Named,         \* services that the mapper does not list by the sender
    Detect,        \* marks what detectMctpEndpoints asks for
    MaxChanges     \* bounds starts, stops and changes of endpoints

ASSUME EndpointMapAssumption ==
    /\ None \notin Services
    /\ Named \subseteq Services
    /\ Detect \notin Eids
    /\ MaxChanges \in Nat

VARIABLES
    up,            \* services that run
    offered,       \* endpoints that a service has on D-Bus
    inbox,         \* what a service has sent and the client has not handled
    asked,         \* GetManagedObjects calls that a service has not answered:
                   \* the EID of the coroutine that waits, or Detect
    phase,         \* of detectMctpEndpoints
    left,          \* services it has still to ask
    found,         \* eids of buildMatchingEndpointMap
    buses,         \* services it knows
    endpointMap,
    byName,        \* services with listeners under the mapper's name,
    bySender,      \* and under the sender's
    monitoring,    \* listenForNewMctpServices, listenForRemovedMctpServices
    told,          \* endpoints as the client knows them
    changes,
    owners,        \* services that have ever offered an EID
    missed         \* services with a signal that has not been heard

serviceVars == <<up, offered, changes, owners>>

matchers == <<byName, bySender>>

detectVars == <<phase, left, found, buses>>

vars == <<serviceVars, inbox, asked, detectVars, endpointMap, matchers,
          monitoring, told, missed>>

Signal == [kind : {"added", "removed"}, eid : Eids]

ServiceSignal == [kind : {"serviceAdded", "serviceRemoved"}]

Reply == [kind : {"reply"}, to : Eids \cup {Detect}, eids : SUBSET Eids]

EidMap == [Eids -> Services \cup {None}]

TypeOK ==
    /\ up \in SUBSET Services
    /\ offered \in [Services -> SUBSET Eids]
    /\ inbox \in [Services -> Seq(Signal \cup ServiceSignal \cup Reply)]
    /\ asked \in [Services -> Seq(Eids \cup {Detect})]
    /\ phase \in {"find", "read", "done"}
    /\ left \in SUBSET Services
    /\ found \in EidMap
    /\ buses \in SUBSET Services
    /\ endpointMap \in EidMap
    /\ byName \in SUBSET Named
    /\ bySender \in SUBSET Services
    /\ monitoring \in BOOLEAN
    /\ told \in SUBSET Eids
    /\ changes \in 0 .. MaxChanges
    /\ owners \in [Eids -> SUBSET Services]
    /\ missed \in SUBSET Services

Init ==
    /\ up \in SUBSET Services
    /\ offered \in [Services -> SUBSET Eids]
    /\ \A s \in Services \ up : offered[s] = {}
    /\ inbox = [s \in Services |-> <<>>]
    /\ asked = [s \in Services |-> <<>>]
    /\ phase = "find"
    /\ left = {}
    /\ found = [e \in Eids |-> None]
    /\ buses = {}
    /\ endpointMap = [e \in Eids |-> None]
    /\ byName = {}
    /\ bySender = {}
    /\ monitoring = FALSE
    /\ told = {}
    /\ changes = 0
    /\ owners = [e \in Eids |-> {s \in Services : e \in offered[s]}]
    /\ missed = {}
-----------------------------------------------------------------------------
(***************************************************************************)
(* Services.                                                               *)
(***************************************************************************)
\* detectMctpEndpoints has not yet seen what s offers.
Unread(s) == phase = "find" \/ s \in left \/ Contains(asked[s], Detect)

Send(s, m) ==
    IF monitoring
    THEN /\ inbox' = [inbox EXCEPT ![s] = Append(@, m)]
         /\ UNCHANGED missed
    ELSE /\ missed' = IF Unread(s) THEN missed ELSE missed \cup {s}
         /\ UNCHANGED inbox

Change ==
    /\ changes < MaxChanges
    /\ changes' = changes + 1
    /\ UNCHANGED <<phase, found, endpointMap, matchers, monitoring, told>>

Offer(s, e) ==
    /\ s \in up
    /\ e \notin offered[s]
    /\ offered' = [offered EXCEPT ![s] = @ \cup {e}]
    /\ owners' = [owners EXCEPT ![e] = @ \cup {s}]
    /\ Send(s, [kind |-> "added", eid |-> e])
    /\ Change
    /\ UNCHANGED <<up, asked, left, buses>>

Withdraw(s, e) ==
    /\ s \in up
    /\ e \in offered[s]
    /\ offered' = [offered EXCEPT ![s] = @ \ {e}]
    /\ Send(s, [kind |-> "removed", eid |-> e])
    /\ Change
    /\ UNCHANGED <<up, asked, owners, left, buses>>

Start(s) ==
    /\ s \notin up
    /\ up' = up \cup {s}
    /\ Send(s, [kind |-> "serviceAdded"])
    /\ Change
    /\ UNCHANGED <<offered, asked, owners, left, buses>>

\* The D-Bus daemon answers pending calls with an error, which counts as an
\* empty answer.  A service that has endpoints stops by crashing.
Stop(s) ==
    /\ s \in up
    /\ up' = up \ {s}
    /\ offered' = [offered EXCEPT ![s] = {}]
    /\ LET errors == [i \in 1 .. Len(asked[s]) |->
                         [kind |-> "reply", to |-> asked[s][i], eids |-> {}]]
           bye == IF offered[s] = {} /\ monitoring
                  THEN <<[kind |-> "serviceRemoved"]>> ELSE <<>>
       IN  inbox' = [inbox EXCEPT ![s] = @ \o bye \o errors]
    /\ asked' = [asked EXCEPT ![s] = <<>>]
    /\ missed' = IF offered[s] = {} THEN missed ELSE missed \cup {s}
    /\ left' = left \ ({s} \ Named)
    /\ buses' = buses \ ({s} \ Named)
    /\ Change
    /\ UNCHANGED owners

\* A service answers GetManagedObjects.
Answer(s) ==
    /\ s \in up
    /\ asked[s] # <<>>
    /\ inbox' = [inbox EXCEPT ![s] =
                    Append(@, [kind |-> "reply", to |-> Head(asked[s]),
                               eids |-> offered[s]])]
    /\ asked' = [asked EXCEPT ![s] = Tail(@)]
    /\ UNCHANGED <<serviceVars, detectVars, endpointMap, matchers, monitoring,
                   told, missed>>
-----------------------------------------------------------------------------
\* The end of detectMctpEndpoints; the client starts with what is in the map.
Detected(map, known) ==
    /\ endpointMap' = map
    /\ told' = {e \in Eids : map[e] # None}
    /\ byName' = known \cap Named
    /\ bySender' = known \ Named
    /\ monitoring' = TRUE
    /\ phase' = "done"

(***************************************************************************)
(* buildMatchingEndpointMap asks the next service.  A call to one that has *)
(* stopped since getBusId has been called for it fails, and the loop goes  *)
(* on.                                                                     *)
(***************************************************************************)
AskNext(services, map, known) ==
    \E tried \in SUBSET (services \ up) :
        \/ /\ tried = services
           /\ Detected(map, known)
           /\ left' = {}
           /\ UNCHANGED asked
        \/ \E s \in services \cap up :
              /\ asked' = [asked EXCEPT ![s] = Append(@, Detect)]
              /\ left' = services \ (tried \cup {s})
              /\ phase' = "read"
              /\ UNCHANGED <<endpointMap, told, matchers, monitoring>>

\* findBusByBindingType is answered.
FindBus ==
    /\ phase = "find"
    /\ buses' = up
    /\ AskNext(up, found, up)
    /\ UNCHANGED <<serviceVars, inbox, found, missed>>

\* findBusByBindingType fails: the map stays as it is.
FindBusFails ==
    /\ phase = "find"
    /\ Detected(endpointMap, {})
    /\ missed' = up
    /\ UNCHANGED <<serviceVars, inbox, asked, left, found, buses>>
-----------------------------------------------------------------------------
(***************************************************************************)
(* The client handles what a service has sent.                             *)
(***************************************************************************)
Received(s, kind) ==
    /\ inbox[s] # <<>>
    /\ Head(inbox[s]).kind = kind
    /\ inbox' = [inbox EXCEPT ![s] = Tail(@)]

\* detectMctpEndpoints goes on with the endpoints of s.
EndpointsFound(s) ==
    /\ Received(s, "reply")
    /\ Head(inbox[s]).to = Detect
    /\ LET map == [e \in Eids |-> IF e \in Head(inbox[s]).eids THEN s
                                  ELSE found[e]]
       IN  /\ found' = map
           /\ AskNext(left, map, buses)
    /\ UNCHANGED <<serviceVars, buses, missed>>

(***************************************************************************)
(* onInterfacesAdded starts a coroutine, whose addToEidMap asks the        *)
(* service.  A service with listeners under both names may get two.        *)
(***************************************************************************)
OnInterfacesAdded(s) ==
    /\ Received(s, "added")
    /\ \/ /\ s \in byName \cup bySender
          /\ s \in up
          /\ LET e == Head(inbox[s]).eid IN
             \/ asked' = [asked EXCEPT ![s] = Append(@, e)]
             \/ /\ s \in byName \cap bySender
                /\ asked' = [asked EXCEPT ![s] = @ \o <<e, e>>]
          /\ UNCHANGED missed
       \/ /\ s \notin (byName \cup bySender) \cap up
          /\ missed' = missed \cup {s}
          /\ UNCHANGED asked
    /\ UNCHANGED <<serviceVars, detectVars, endpointMap, matchers, monitoring,
                   told>>

\* Broken variant: the client is told of what is new in the map only.
AddToEidMapNew(s, e, eids) ==
    /\ endpointMap' = [d \in Eids |->
                         IF d \in eids /\ endpointMap[d] = None THEN s
                         ELSE endpointMap[d]]
    /\ told' = IF endpointMap'[e] # endpointMap[e] THEN told \cup {e} ELSE told

(***************************************************************************)
(* addToEidMap has its answer and inserts all endpoints of the service;    *)
(* what is in the map stays.  Then the client is called back.              *)
(***************************************************************************)
AddToEidMap(s, e, eids) ==
    /\ endpointMap' = [d \in Eids |->
                         IF d \in eids /\ endpointMap[d] = None THEN s
                         ELSE endpointMap[d]]
    /\ told' = told \cup {e}

EndpointAdded(s) ==
    /\ Received(s, "reply")
    /\ Head(inbox[s]).to # Detect
    /\ AddToEidMap(s, Head(inbox[s]).to, Head(inbox[s]).eids)
    /\ UNCHANGED <<serviceVars, asked, detectVars, matchers, monitoring,
                   missed>>

\* Broken variant: the client is told, but the EID stays in the map.
EraseDeviceTold(e) ==
    /\ told' = told \ {e}
    /\ UNCHANGED endpointMap

\* eraseDevice, whichever service the EID belongs to; the client is called
\* back if it was in the map.
EraseDevice(e) ==
    /\ endpointMap' = [endpointMap EXCEPT ![e] = None]
    /\ told' = IF endpointMap[e] = None THEN told ELSE told \ {e}

(***************************************************************************)
(* InterfacesRemoved: of the two match rules for it, onInterfacesRemoved   *)
(* erases the endpoint, and DeleteServiceCallback removes the listeners    *)
(* kept under the sender's name, whatever the object is that was removed.  *)
(* If the latter comes first, there may be nothing left that calls the     *)
(* former; if the former does, its result, -1, may keep sd-bus from        *)
(* calling the latter.                                                     *)
(***************************************************************************)
OnInterfacesRemoved(s) ==
    /\ Received(s, "removed")
    /\ \/ /\ s \in byName \cup bySender
          /\ EraseDevice(Head(inbox[s]).eid)
          /\ bySender' \in {bySender, bySender \ {s}}
          /\ UNCHANGED missed
       \/ /\ s \notin byName
          /\ bySender' = bySender \ {s}
          /\ missed' = missed \cup {s}
          /\ UNCHANGED <<endpointMap, told>>
    /\ UNCHANGED <<serviceVars, asked, detectVars, byName, monitoring>>

\* NewServiceCallback: registerListeners.
NewService(s) ==
    /\ Received(s, "serviceAdded")
    /\ bySender' = bySender \cup {s}
    /\ UNCHANGED <<serviceVars, asked, detectVars, endpointMap, byName,
                   monitoring, told, missed>>

\* DeleteServiceCallback: unRegisterListeners.
DeleteService(s) ==
    /\ Received(s, "serviceRemoved")
    /\ bySender' = bySender \ {s}
    /\ UNCHANGED <<serviceVars, asked, detectVars, endpointMap, byName,
                   monitoring, told, missed>>

Handle(s) ==
    \/ EndpointsFound(s) \/ OnInterfacesAdded(s) \/ EndpointAdded(s)
    \/ OnInterfacesRemoved(s) \/ NewService(s) \/ DeleteService(s)

Next ==
    \/ \E s \in Services, e \in Eids : Offer(s, e) \/ Withdraw(s, e)
    \/ \E s \in Services : Start(s) \/ Stop(s) \/ Answer(s) \/ Handle(s)
    \/ FindBus \/ FindBusFails

Spec == Init /\ [][Next]_vars

\* Calls on D-Bus are answered, and the client handles what it receives.
FairSpec ==
    /\ Spec
    /\ WF_vars(FindBus)
    /\ \A s \in Services : WF_vars(Answer(s)) /\ WF_vars(Handle(s))
-----------------------------------------------------------------------------
Quiet(s) == phase = "done" /\ inbox[s] = <<>> /\ asked[s] = <<>>

\* The client has heard all that s sent of e, and nobody else sent of e.
Followed(s, e) == s \notin missed /\ owners[e] \subseteq {s}

(***************************************************************************)
(* Answers of services and their signals overtake each other in any way;   *)
(* when all have been handled, the map has exactly the endpoints that the  *)
(* service offers, as long as every signal was heard.                      *)
(***************************************************************************)
MapIsCurrent ==
    \A s \in Services, e \in Eids :
        Quiet(s) /\ Followed(s, e) => (endpointMap[e] = s <=> e \in offered[s])

(***************************************************************************)
(* An endpoint that stays is made known to the client, if it is followed;  *)
(* it gets into the map by the coroutine of any endpoint of its service,   *)
(* but still the client is called back for each of them.                   *)
(***************************************************************************)
EndpointsAreAnnounced ==
    \A s \in Services, e \in Eids :
        []<>(e \in offered[s] /\ Followed(s, e) => e \in told)
==============================================================================
