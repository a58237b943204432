# Verification of the PMCI stack

This directory holds TLA+ specifications of the concurrent core of this
repository, the configurations that TLC checks them with, and TLAPS proofs
about them.  `PROJECT.json` maps every definition to the lines it models and
lists runs, mutations, hazards and theorems.

## The system

| Component | State it keeps | Operations | Correct when |
|---|---|---|---|
| Transmission queue (`mctpd/src/utils/transmission_queue.cpp`) | per endpoint: free tags, queued messages, transmitted messages by tag; per message: tag, response, timer | `transmit`, `receive`, `dispose`, posted `transmitQueuedMessages` | tags are neither lost nor shared; requests keep their order; each call ends once, with its own response |
| Control message queue (`MCTPBinding.cpp`: `pushToCtrlTxQueue`, `processCtrlTxQueue`, `handleCtrlResp`) | `ctrlTxQueue`, poll timer, `instanceId` | push, poll (resend, discard), match a response | each waiting coroutine is resumed; all retries are made, in time; the response is that of the request |
| `MctpBinding::rxMessage` | none of its own | sorts what is received: control request, control response, upper layer response, request | each message goes to whom it is for |
| SMBus bandwidth reservation (`SMBusBinding.cpp`) | `rsvBWActive`, `reservedEID`, timer, held mux | `reserveBandwidth`, `releaseBandwidth`, timer handler | a reservation holds until it is released or expires, and ends |
| Bus owner registration (`SMBusBinding.cpp`, `MCTPBinding.cpp`, `utils/eid_pool.cpp`, `utils/device_watcher.cpp`) | EID pool, `uuidTable`, published endpoints, device table, ignore list | periodic scan, registration command by command, `clearRegisteredDevice` | no EID is given out twice; tables agree; each device ends up routed |
| PCIe endpoint (`PCIeBinding.cpp`) | discovered flag, bus owner address, own EID, stored routing table, published endpoints | discovery commands, Set Endpoint ID, periodic `updateRoutingTable` | the table and the published endpoints follow the bus owner's |
| SMBus endpoint mode (`SMBusBinding.cpp`: `updateRoutingTable`, `addUnknownEIDToDeviceTable`) | `smbusDeviceTable` | read the routing table of the bus owner | as for PCIe |
| Control command responder (`MCTPBinding.cpp`: `handleCtrlReq`, `manageVersionInfo`, `registerUpperLayerResponder`) | message types, versions, vendor defined types | one handler per command | |
| Start-up, configuration, hardware access of mctpd | | D-Bus, JSON, udev, ioctl | |
| mctpwplus, the C++ client of mctpd (`mctp_impl.cpp`, `dbus_cb.cpp`, `service_monitor.cpp`) | `endpointMap`, listeners of each service | `detectMctpEndpoints`, D-Bus signals, send and receive | the map has the endpoints that the services offer, and the client is told of each |
| mctp_wrapper, the older C client | as mctpwplus | | |
| pldmd's termini (`pldmd/src/pldmd.cpp`, `base.cpp`, `platform.cpp`) | TID pool, UUIDs with their TIDs, reclaim windows, TID map, termini under initialisation | initialise a terminus, remove it, end its reclaim window | no two termini share a TID, none is lost; those present are registered and monitored |
| pldmd's firmware update (`firmware_update.cpp`) | package, `fwUpdate` with the state it believes the device in, the request it expects and the last one, reserved bandwidth | `StartFWUpdate`, one command or one served request after the other, renewal of the reservation | every update ends; agent and device agree; only what was applied is activated; bandwidth and polling are given back |
| pldmd's descriptor records (`pdr_manager.cpp`, `libpldm_intel/pdr.c`) | the records read, the repository, names, the tree of entities, the published objects | read the repository with tries and parts; parse it type by type | the repository is one consistent reading; the tree and the objects are what the records say, in whatever order they come; the reading ends |
| libpldm_intel's messages (`base.c`, `fru.c`, `platform.c`, `firmware_update.c`, parsers of `pdr.c`) | none | encode and decode PLDM messages | nothing is taken from beyond a payload; a field is read where it was written; both sides agree on lengths |
| The rest of pldmd (`pldmd/src`) | instance IDs; sensors, effecters, FRU data, the firmware inventory | send and receive with retries, sensor polling, thresholds | |
| pmci_launcher, mctp_emulator | | start systemd units; answer from canned JSON | |

**How they interact.**  mctpd is one process with one `io_context`, run by one
thread.  Coroutines (`boost::asio::spawn`) run until they yield; timers and
posted handlers run between them.  So what the code does between two yields is
atomic, and what it read before a yield may be stale after it.  This is the
grain of the modules: one action is one handler, or one coroutine from one
yield to the next.  An expired or cancelled timer does not run its handler at
once but *queues* it; the modules keep the two apart.  Clients (pldmd through
mctpwplus) call mctpd by D-Bus methods, each of which is a coroutine of mctpd,
and follow it through D-Bus signals.

**What is hard here:** responses that race timeouts; handlers of cancelled
timers that are already queued; tags and instance IDs that are used again
while an old response is under way; a scan, a table or a repository reading
during which the devices change; messages whose layout depends on what they say; coroutines that overlap themselves; lost answers and restarts,
after which daemon and devices disagree.  `PROJECT.json` lists the hazards line
by line.

## The modules

### TransmissionQueue, RequestWindow, TransmissionQueueRefinement

`SendReceiveMctpMessagePayload` puts a message into the queue of its endpoint
and waits on the message's timer; `receive` finds the message by its tag, stores
the response and cancels the timer; the coroutine then returns the response or,
after a timeout, disposes of the message.

| Module | Code |
|---|---|
| `availableTags`, `queuedMessages`, `transmittedMessages` | `Endpoint`'s members |
| `message[c]` | the `Message` of call `c` |
| `posted[e]` | handlers that `receive` posted and that have not run |
| `peer[e]` | responses the endpoint may still send (environment) |
| `SendReceive` | the method up to its yield, with `transmitQueuedMessages` |
| `Receive`, `ReceiveUnmatched` | `rxMessage` and `MctpTransmissionQueue::receive` |
| `PostedTransmit` | the posted handler |
| `TimerExpires` | the timer queues its handler |
| `ReturnResponse`, `ReturnTimedOut` | the coroutine after its yield |

A pass over the queue (`transmitQueuedMessages`) is one step whose outcome
`PassOutcome` depends on which sends fail: `IsPass` says which sets of messages
it takes out of the queue.  Messages are numbered in the order of the calls;
the code's `std::map` keeps them in that order, too.

`RequestWindow` is the abstract promise: calls go from *queued* to *open* in
the order they came, at most as many are open as there are tags, and each ends
with an answer or as timed out.  `TransmissionQueueRefinement` maps the queue to
it, and TLC checks that the mapping holds (`RefinesWindow`).

### CtrlTxQueue and ReceivePath

`CtrlTxQueue` models `sendAndRcvMctpCtrl`: requests are pushed with an instance
ID that wraps, one timer polls the whole queue every `PollInterval`, resends,
and gives up; `handleCtrlResp` gives a response to the first request with its
instance ID.  The remaining time is an unsigned number of `Word` values, as in
the code, where it must not wrap.  `ReceivePath` composes it with
`TransmissionQueue` the way `rxMessage` does: a control response that
`handleCtrlResp` does not take goes on to the transmission queue, with tag 0.
An upper layer payload of control type is sent with a warning only
(`MCTPBinding.cpp:427-436`), and its response is offered to the control queue first.
This is not modelled: the calls of `ReceivePath` have payloads of other types.

### SMBusBandwidth

`reserveBandwidth`, `releaseBandwidth` and the timer handler with its cases.
`handlers` are the queued handlers with their error code; `ret`, `rsvBWActive`
and `reservedEID` are the code's variables.  Success and failure of
`mctp_smbus_init_pull_model` and `mctp_smbus_exit_pull_model` are
nondeterministic.  `UpdateDeviceTable` is the scan, which does not start while
the bandwidth is reserved.

### BusOwnerRegistration

One coroutine scans the bus (`StartScan`), visits the slots in order
(`NextDevice`) and registers a device command by command, with one action for
an answer and one for its failure: Get Endpoint ID, Get Endpoint UUID, Set
Endpoint ID, Get Message Type Support.  Between two commands devices may be
plugged in, unplugged, moved and reset, answers are lost, and the daemon is
restarted (`Restart`) while devices keep their EIDs.  The pool is modelled in
its order (`eidPool`) because the order decides which EID is used again.

A slot is a bus and a slave address (`Address`).  A device of the root bus answers in
its slot and, because the root bus stays connected, behind a mux at its address
(`Answers`).  `rootDeviceMap` has what was found on the root bus at the start; behind
a mux its addresses are left out (`Skipped`).  A device that is plugged into the root
bus later is found behind the mux.  `RegistrationAssumption` wants an address of the
root bus to be scanned behind one mux only.  With two, a root device is registered in
both slots, and TLC finds one EID given to two devices although none was freed: it
is taken back for one slot while the other has its route.

`DevicesAreRouted` says what the scan comes to in the end, and lists what stops it.
Two devices are rivals only when they hold the same EID, which is none of `Null`; a
slot that the device watcher ignores counts only after as many faults as its
threshold, or when `uuidTable` disagreed with the device (`UuidAstray`): a daemon that
gives no EID at all has its slots ignored without any fault, and breaks the property.

### PCIeEndpoint

Discovery, Set Endpoint ID and the coroutines of `updateRoutingTable`: any
number of `Readers` may run at once, each reads the table entry by entry,
compares it with the stored one, unregisters what has gone, registers what is
new with one yield each, and stores the table.  `busOwnerBdf` is uninitialised in
the code and arbitrary in `Init`.

### EndpointMap

mctpwplus in a client such as pldmd.  `inbox[s]` holds the signals and replies
of service `s` in the order it sent them, `asked[s]` the `GetManagedObjects`
calls it has not answered.  `FindBus` and `EndpointsFound` are
`detectMctpEndpoints` from one yield to the next, `OnInterfacesAdded` and
`EndpointAdded` the coroutine of an added endpoint before and after its yield,
`OnInterfacesRemoved`, `NewService` and `DeleteService` the other handlers.
`told` is what the client knows by its callback.  `missed` has the services
with a signal that no listener has heard.  Listeners found at detection are kept
under the name by which the object mapper lists the service, those of new
services under the sender of the signal, and only the latter name is ever
removed; which names the mapper gives, and the order in which sd-bus calls two
handlers of one signal, are outside this code and arbitrary.

### PldmTerminus

How pldmd gives termini TIDs.  `co[i]` is a coroutine of `initDevice` with what
`baseInit` holds in local variables; its `pc` says which answer it waits for.
`pool` and `used` are `TIDPool` (the order, and the flags), `uuidMapping`,
`tidReclaimWindowTimers`, `tidMap`, `discoveryDataTable`,
`tidsUnderInitialization` and `platforms` are the code's tables; `expired` are
reclaim handlers that are queued.  `ChooseTid` is the middle of `baseInit`,
`Register` its end and the start of `initTerminus`, `DeleteDevice` the function of
that name, and `ReleaseTid` the reclaim handler.  `SetTidArrives` separates the
terminus's taking the TID from its answer, so that the answer can be lost.  The
queries of types, versions, commands and `GetTID` are one step, in which the
commands of one type may stay unknown; reading PDRs and setting up sensors is
one, too.  `events` holds the callbacks that are to come, in order for one
endpoint and in any order for two.  `unlucky` and `irregular` record what
happened and are read only by properties.

### FirmwareUpdate

The coroutine of `StartFWUpdate` with the device it updates.  `pc` says what the
coroutine waits for: the answer to a command (`Commands`), a request of the
device (`Waits`), a response to be sent (`Sends`) or a D-Bus call (`Calls`); each
action is what it does until it waits again, and the operators `NextTerminus`,
`ToComponent`, `PassComponents`, `Release`, `Terminate` ... are the code between
two waits.  `u` is `*fwUpdate`, `l` the locals that matter, `queue` the matched
termini that are left.  `DeviceRequest` is `pldmMsgRecvFwUpdCallback`: it may come at
any time and changes `u`.  A request is its command and whether what it says is
good.  What `fdReq` decodes to when it is a request of another kind than the one
that is served is `Decoded`: lengths are checked for some commands and not for
others.  `chain` is the reservation, which renews itself; `dangling` are those
whose `FWUpdate` was destroyed while their handler or coroutine was pending, which
then may do anything (`crashed`).  The device (`dev`) is outside the code: it follows
the states of the PLDM specification, but may refuse, repeat, fall silent,
report failures, or reset.  Commands and answers get lost.

`DeviceRemoved`, `DeviceAdded`, `SetTidSent`, `DeviceMapped` and `DeviceInitialized` are
what `PldmTerminus` models, as far as the update notices it: the TID's EID,
`terminusFwuProperties`, and the polling.  `astray` and `unreleased` are history:
`Astray` names the ways in which a run loses track of its device, `Unreleased` those
in which a reservation cannot be released; only properties read them.

### PldmMessage, PldmBaseCodec, PldmPlatformCodec, PldmFirmwareCodec, PldmPdrCodec, PldmExchange

The functions of libpldm_intel as data.  A function is a sequence of steps - look
at the length, put or take a field, look at a value, go on if ... - that the
operators of `PldmMessage` build (`LengthIs`, `Body`, `Layout`, `Need` ...), in the order of
the code, with the completion code of each refusal.  The four codec modules have
one definition per function or struct, under its name.  `PldmExchange` runs them: a
*conversation* is an encoder and the decoder of the other side (or a device that
sends what the struct in the header says, or that sends anything).  A payload is
a sequence of cells `<<field, i>>`, so that a decoder which takes a byte of
another field, or one behind the end, is seen to do so; values are kept only for
the fields that widths, counts and checks depend on.  On the way the payload may
be cut short or made longer.

| `PldmExchange` | Code |
|---|---|
| `wire`, `val`, `known` | the payload; the values of the fields, and which of them the running function knows |
| `running`, `pc` | the function and its step |
| `PackHeader` | `pack_pldm_header` |
| `Check`, `Put`, `Take`, `TakeRest` | one step of an encoder or decoder |
| `Deliver`, `ReceiveRaw` | `sendReceivePldmMessage` between the two |
| `garbled`, `beyond` | fields not taken from where they were put; bytes taken from behind the end |

`PldmPdrCodec` has the three parsers of records that pldmd uses, whose struct has
fields of two widths that it states itself.

### PdrRepository, PdrManager

`PdrRepository` is `pdrManagerInit` up to the end of `constructPDRRepo`: the repository
info, the loop over tries, the loop over records, the loop over the parts of a
record, and the adding of what was read.  `transfer` has the locals of
`getDevicePDRRecord`, `devicePDRs` is the map of that name, `_pdrRepo` the list of
`libpldm_intel`.  One answer is one step; between two the device may change a record
(which gives it another number), drop one or have one again.  `Manners` are the
ways a device may answer: `proper` refuses to go on with a changed record, `lax` does
not, `endless`, `cyclic` and `empty` are what their names say.  A part is its record's
handle and number with its position, and the checksum is the sequence it belongs
to.  The map has no order, so `addDevicePDRToRepo` adds the records in any.

`PdrManager` goes on with the parsing: `ParseNames`, `ParseAssociations`, then
`createEntityAssociationTree` with one pass over the associations per step,
`populateSystemHierarchy`, `ParseAuxNames` and `ParseObjects`, in the order of `pdrManagerInit`.
Two records end it in another way: the loop over the instances that share a name never
gets past a sum of 65535 or more (`Overruns`, `looping`), and
`pldm_entity_association_pdr_extract` asserts that an association is well formed
(`ExtractAborts`; the build does not define `NDEBUG`), after which systemd starts pldmd
again.  `InitEnds` says that nothing else keeps it from ending.  Names are model
values; that `getAuxName` reads on where a name is not terminated is not modelled.  The tree is
a sequence of nodes with their parents; `Wider` and `Deeper` are the orders in which
`getContainedNode` and `getEntityAssociationPaths` visit them.  `initPDRs` starts again with a
new manager.  `ParseAll` is `parsePDR`: it goes through the repository for one type;
`Through` is a fold written as a recursive function, so that a result is evaluated
once.  `ContainedAssumption` says that the entities of an association are a list.
`_containerID` is uninitialized until a terminus locator is seen, so
that without one any container of `Garbage` may be the root.

### Broken variants

A definition whose comment begins with *Broken variant* is the next one with a
plausible mistake.  No specification uses it; replacing the original by it must
make TLC find a violation.  This shows that a property depends on the code.

## What is checked

| Run | Instance | What it shows |
|---|---|---|
| `TransmissionQueue` | 1 endpoint, 2 tags, 4 calls | `TagsConserved`; `OnlyLateResponsesStray` (a wrong response can only come from a request that timed out); `NoIdleTagWithoutTimeout`; `RefinesWindow` (requests keep their order, calls end once) |
| `CtrlTxQueue` | 3 requests, 2 instance IDs, 1 retry, delay of 2 polls | `AllTriesInTime`, `OnlyAliasesStray`, `WaitEnds` |
| `ReceivePath` | 1 tag, 2 calls, 2 control requests with 1 retry | both queues together: `OnlySurplusFallsThrough` (what gets from one into the other); `EveryCallEnds` |
| `SMBusBandwidth` | 2 endpoints, 5 reservations | `ReservationWillEnd`, `NothingLeftBehind`, `HeldUnlessRaced` |
| `BusOwnerRegistration` | 2 devices (one without UUID), 3 slots (one on the root bus, one behind a mux at the same address), 3 EIDs, 4 faults | `PoolKept`, `DeviceTableIsOneToOne`, `SharedOnlyAfterOrphan`, `DevicesAreRouted` |
| `PCIeEndpoint` | 3 EIDs, 2 addresses, 2 bus owners, 2 readers, 1 change, 1 lost answer | `OwnerKept`, `PublishedIsRouted`, `TableConverges` |
| `EndpointMap` | 2 services (one listed by the mapper under another name), 2 EIDs, 3 changes | `MapIsCurrent`, `EndpointsAreAnnounced` |
| `PldmTerminus` | 2 termini (one without UUID), 2 EIDs, 2 TIDs, 2 coroutines, 3 changes, 1 fault | `HeldTidsAreUsed`, `UsedTidsReturn` (TIDs are neither shared nor lost); `RegistrationFollowsPresence`; `PlatformsFollowTids`, `RegisteredIsMonitored` |
| `PldmExchange` | the conversations of `MCConversations`, every boundary value of the fields that matter, payloads up to 105 bytes | `WithinPayload` (nothing is taken from beyond the payload), `DecodedWasEncoded` (fields come from the bytes they were put in), `LengthsAgree`, `HeaderAsGiven`; each names the functions it does not hold of |
| `PdrManager` | 14 repositories of 2 to 5 records in every order; records of 2 parts, 2 changes and 5 manners for the small ones | `OneReading` (whole records of one version, none twice, all of them); `HierarchyIsContainment` (the tree is what the associations say, in any order); `ObjectsFollowEntities`; `InitEnds` (but for the two records above) |
| `FirmwareUpdate` | 1 terminus, 2 components of which one applies to it, 3 requests each, 2 runs, removals or resets | `UpdateEnds`; `PollingResumes`, `BandwidthReturned`; `FdStateIsDevices` (`fdState` follows the device unless `Astray`), `ActivatedOnlyIfApplied` |

One run states what a document says of the code and is expected to be violated:
in `TransmissionQueueStray` a response that comes after its timeout is delivered to the
next message with the same tag, which `mctpwplus/README.md` takes for a valid one.

Seen in the models as well, without a run of their own:

- `dispose` frees the tag of a timed-out message but transmits nothing
  (`transmission_queue.cpp:125`), so messages wait although a tag is free; that
  is why `NoIdleTagWithoutTimeout` speaks of the time before a timeout.
- pldmd loses track of TIDs and termini in the situations that `Irregularities`
  of `PldmTerminus` lists; each property names those it does not survive.  The
  shortest: `SetTID` fails for a terminus that returns, and its TID is free and
  its own at once (`base.cpp:806`); an endpoint that goes before it is
  registered is registered afterwards for good (`pldmd.cpp:602`); a terminus that
  is removed during its initialisation and comes back is taken for removed and
  not monitored (`platform.cpp:324`); the TID of a terminus without UUID is never
  free again (`base.cpp:832`).
- The remaining time of a control request steps over zero and wraps when
  `(retries + 1) * delay` is not a multiple of the poll interval
  (`MCTPBinding.cpp:724`); the shipped configurations avoid it.
- The second answer to a retried control request has tag 0 and completes the
  upper layer call that holds tag 0.
- `uuidTable` gets an entry per registration and loses one per failure; with
  two, an endpoint that is no longer published counts as registered.
- A removed device is never scanned again, so nothing unregisters it.  The root bus is
  scanned only at the start, and a device behind a mux with an address that was in use
  there is not found before a restart (`SMBusBinding.cpp:77-83`).
- When the answer to Get Endpoint UUID is lost once, the endpoint is registered
  without its UUID.  The next scan has the UUID, which `uuidTable` does not know, and
  registers the endpoint again; that fails because its EID is published
  (`MCTPBinding.cpp:2038-2078`), in every scan until the slot is ignored for good.
- An endpoint without UUID keeps its EID assigned when it fails, so EIDs leak
  from the pool; and one that holds the EID of an endpoint that is gone is taken
  for that endpoint.
- In mctpwplus, changes between the reading of the endpoints and the
  registration of the listeners are not heard (`mctp_impl.cpp:239-243`), nor is a
  service that starts in between.  `insert` keeps an EID with the service it had
  (`:593`), so an EID that moves to another service, or whose service has
  crashed, goes on being sent to the old one.
- `DeleteServiceCallback` takes the removal of any endpoint for the end of the
  service and may remove the listeners of a service that runs
  (`service_monitor.cpp:68`).
- The handler of a released SMBus reservation that is still queued drops a
  reservation made before it runs (`SMBusBinding.cpp:328`); `HeldUnlessRaced`
  speaks of the others.
- A firmware update goes astray when a request comes late: `fdReq`, `fdReqMatched`
  and `fdTransferCompleted` are not cleared between components, and
  `TransferComplete` is looked at before the TID is (`firmware_update.cpp:87`); when a
  failed `ApplyComplete` counts as a success (`:1125-1212`); when a refused
  `CancelUpdateComponent` does, because its completion code is not looked at
  (`:1780-1820`); when a download that ends by its time-out counts as complete
  (`:1252-1259`); and when the last `PassComponentTable` is lost.  A device that never
  asks for data makes `processTransferComplete` read an empty request (`:2100`).
- An update whose components all were refused reports `Active` (`:2231-2236` returns
  the last result), and so does a package that was refused (`:2462-2480`).
  The delay before `RequestUpdate` is sent again is never taken (`:401`).
- A terminus that is removed during its update leaves the bandwidth reserved for
  ever (`pldmd.cpp:103`), and every command to other termini is refused.  A
  reservation that is renewed as the update ends outlives it: it uses the package
  or the `FWUpdate` object after it is destroyed (`firmware_update.cpp:1925`, `:1950`).
- Any terminus that is added or removed resumes the polling that an update has
  paused (`pldmd.cpp:592-612`), although `pldmd/README.md` has it paused.
- Eight decoders take bytes from behind a payload that is too short
  (`MCLaxDecoders`); five refuse messages that are right (`Refusing`: the length of
  `decode_get_sensor_reading_req` is compared with a constant one larger than the
  struct); two encoders write more than `payload_length` (`Unlimited`); six do not look
  at the result of `pack_pldm_header`, which lets instance ID 32 through
  (`base.c:35`).  pldmd calls these with lengths that avoid it, or a peer that
  keeps to the specification.
- `getPDRRepositoryInfo`'s answer is not asked for again after a failed try, so a
  terminus that has one record more or less by then is refused.  A terminus
  without a locator record gets a tree only if the uninitialized `_containerID`
  happens to be that of a container (`pdr_manager.cpp:707`).
- Where instances share a name record, every numbered name is entered for the
  first of them and only `<name>_0` is kept (`pdr_manager.cpp:549-561`); the comment
  above that loop has a range of instances.
- A name record with `entity_instance_num + shared_name_count >= 65535` and a shared count
  other than zero keeps pldmd in its loop for ever (`pdr_manager.cpp:552`): the counter
  has 16 bits, the sum it is compared with more.  An association that is not well formed
  aborts pldmd (`pdr.c:687-705`), and again after each restart.
- Of two containers at the top, the second one disappears with its name: what it
  contains is put under the first (`extractRootNode`).
- A numeric effecter's record is kept only if its entity is in the tree, those of
  the other sensors and effecters always.
- The EID found by UUID is written to the response buffer while a local copy is
  used afterwards (`MCTPBinding.cpp:1990`), so a device does not get its EID back.
- Of two overlapping readings of the PCIe routing table, one registers what the
  other does not know to unregister.
- One lost answer cuts the PCIe routing table short, and the rest is
  unregistered until the next reading.

**Bounds.**  Two tags and four calls let a tag be used again twice while a third
call waits, which is as long as a chain of stray responses gets before it
repeats.  Two instance IDs for three requests make them wrap.  A reservation
race needs a renewal, a release and a new reservation by another endpoint: five
cover it twice.  Three changes suffice for an endpoint that is added, removed
and added again while its coroutine waits.  In
`PldmTerminus` they suffice for a terminus that goes and comes back while its
reclaim handler is queued, and for one that moves and is missed afterwards.  Four faults
suffice for a restart, a device moved, and an answer lost, and are the fewest after
which two devices hold one EID for good.  A threshold of 3 lets slots be ignored
within them; the code has 10.  Two readers overlap; a third would only repeat them.
In `PldmExchange` the longest payload is a numeric sensor record with the widest
fields and one byte more.  In `PdrManager` two changes let a record change while it
is read and again between two tries, or go and come back; repositories with more
than two records (`Calm`) are read from a device that does not change, so that
all orders of five records are reached.
In `FirmwareUpdate`, of two components one is skipped and the other updated;
that a late request of one component meets the next is not reached by the run, but
covered by the proofs, which hold for any number of components.  Three requests let one be repeated before the last, and two events are
two runs, two termini of a package (the same device may match two records), or a
run and a removal or reset at any point of it.  That a request of
another terminus is taken for `TransferComplete` needs two termini and is not
reached.  Symmetry
is used only where no liveness is checked; liveness of the calls is checked in
`ReceivePath`.  `CHECK_DEADLOCK FALSE` is set where
the system may stop: a bounded number of calls ends, and bounded reservations
and faults run out.

**Fairness.**  `io_context` runs every queued handler, and every timer that is
not cancelled expires: weak fairness of timers, handlers and of the resumption
of coroutines.  Nothing is assumed of endpoints, clients or the bus: responses
may never come.  In `BusOwnerRegistration` the scan timer is started again after
every scan, and every control command ends, by its answer or by its timeout,
which is what `WaitEnds` checks of the control queue.  In `EndpointMap` D-Bus
calls are answered, by an error if the service is gone, and what arrives is
handled.  In `FirmwareUpdate` the coroutine goes on (`InitUpdateStep`): all it waits
for has a timer or is a D-Bus call, which ends; nothing is assumed of devices.
In `PdrManager` the coroutine goes on likewise (`pdrManagerInit`): a request is answered or
given up, and the device may answer for ever.

## What is proved

`ReceivePathProofs` has the theorems about the two queues of mctpd.  For the
transmission queue it proves for every set of endpoints, tags and calls (not
only the bounded instance, assuming what `ASSUME` says of the constants):
`TypeOK`, `TagsConserved`, `NoDanglingMessage`, `SentInOrder`,
`OnlyLateResponsesStray`, `AnswersAreFinal` and `NoIdleTagWithoutTimeout`.  The
argument is in layers, each of which uses those below:

1. `Inv1`: types, `CallsOK` (a call's state agrees with its message's),
   `TagsConserved` and `NoDanglingMessage`.  They need each other: that a tag
   taken is free needs that no ended call still holds it.
2. `Inv2`: message numbers are below the counter and `SentInOrder`.
3. `Inv3`: a request is answered once, and a response is held by its own call
   or has strayed; from it, `OnlyLateResponsesStray`.
4. `IdleNext`: what keeps a tag from being idle without a posted handler.

It also proves `RefinesWindow`, that the queue
implements `RequestWindow`, for any finite set of tags.  `Inv1` and its
description of one run of the loop carry it: a call is in the window's line
exactly when its message is in the queue (`LineIsQueue`); the requests out at an
endpoint have different tags, so there are no more of them than tags
(`AtMostWindow`); and a run of the loop sends or drops the oldest of the line and
nothing else (`LoopPhases`).

For the control queue it proves `AllTriesInTime` and `OnlyAliasesStray` for any
requests, instance IDs, retries and delays.  `AllTriesInTime` has a hypothesis,
`DelaysFit`: a delay between two tries is at least one poll, and the timeout of a
request, `(RetryCount + 1) * RetryDelay`, is a whole number of polls below `Word`.
The code does not check this; without it the time left wraps, or a request is given
up before its last try.  The shipped configurations have 3 * 100 and 3 * 120 ms, and
a poll is 5 ms.  `TimeLeft` is the invariant: what is left of the time is what the
polls have left of the total, a whole number of polls, and more than the tries still
to come take.  `OnlyAliasesStray` needs that instance IDs count the requests modulo
their number (`RoundOfIds`) and that a response was given by its ID (`GivenById`).

Where the queues meet, `ControlQueueIsKept` says that the control queue behaves in
`ReceivePath` as it does alone, so that its invariants hold there.  An answer that
matches no request belongs to one that was given up, after all its tries, or to one
that was answered already (`Copies` counts the answers), so it is surplus.
`OnlySurplusIsTaken` says so for any number of requests as long as no coroutine was
given the response to another one; `OnlySurplusFalls` is `OnlySurplusFallsThrough`
itself, where there are no more requests than instance IDs.  Both assume `DelaysFit`
and at least one retry: without one, the answer to a request that was given up after
its only try is taken for that of an upper layer call.

`SMBusBandwidthProofs` proves `ReservationWillEnd` and `LastHandlerReleases` for
any endpoints and any number of reservations.  Alone neither is inductive: their
conjunction is strengthened by `RetHasHandler` (a nonzero `ret` means that a
handler of a cancelled wait is still queued).

`NothingLeftBehind` and `HeldUnlessRaced` rest on `Orderly`: as long as no
reservation was granted with a handler queued, the handlers queued and the running
timer are all of the endpoint reserved, and as many as `ret` still has to count
down.

`BusOwnerRegistrationProofs` proves `PoolKept`, `DeviceTableIsOneToOne` and
`SharedOnlyAfterOrphan` for any devices, slots, EIDs, thresholds and faults.  The
pool needs only that what is moved to its end is in it once.  For the device table
the invariant adds what the coroutine remembers while it waits (`RegSound`: the
table's entry for its slot is still the one it found, and the slot is not ignored).
For shared EIDs it adds `Located`: as long as none was orphaned, EIDs in use are
assigned, and a device that holds a routed EID, or the EID being registered, answers
in the slot the table or the registration says; so no other device can hold the EID
that Set Endpoint ID gives.  A device of the root bus may answer in two slots, of which
the scan visits one only (`ScanSound`).

`PCIeEndpointProofs` proves `OwnerKept`, which is inductive, and
`PublishedIsRouted` for any endpoints, addresses and readers.  A table that is read
has no EID twice, because its entries come in the order of their EIDs, so the loop
that unregisters takes nothing the new table has.  `HalfWay` says what is published
while the other loop runs: an endpoint of the new table is published, or is still
to be registered and not in the stored table.

`EndpointMapProofs` proves `MapIsCurrent` for any services, endpoints, names and
number of changes.  Signals and answers overtake each other, so the map alone says
little: it is right, or what is under way will make it right (`Tracked`).  An
endpoint that is offered is in the map and nothing on its way erases it, or
something on its way puts it there after all that erases it (`Present`); one that is
not is erased by something after which nothing puts it back, or is neither there
nor on its way (`Absent`).  Until the first reading is over the same is said of the
map that is being read (`Reading`), and `Phases` says who is asked in which phase.

`PdrManagerProofs` proves `OneReading` for any repositories, any number of parts,
of changes and of tries' answers, and every manner of answering.  Parts of two
versions may be spliced while a record is being read; `Completed` shows that such
a record fails its checksum at the last part.  Of the records read, the inductive
invariant `PdrInv` says (`RecordsRead`) that they are whole for good, and the
device's of now as long as it has not changed since the try began; of the
repository (`RecordsAdded`) that it is a part of them without repetition; and
(`Counts`) that the number it is compared with was asked for before any change.
When nothing has changed since, as many handles as the device has are then all of
them.

On a repository that is one reading rest the other two, for any records in any
order.  Both begin with what a fold does: `IsRun` names the sequence of its results,
and each lemma about a fold goes along that sequence, element by element (`UpTo` is
induction over a set of numbers; the library's induction rules take an operator, a set
needs only that it has a least element outside).

- `HierarchyHolds` is `HierarchyIsContainment`.  The tree grows by passes over the
  associations that are left.  `TreeInv` says for each stage of `pdrManagerInit` what is
  there; for the passes this is `TreeStage`: each node's parent is a containment the
  records tell of (`ContainTree`), so that nothing is in the tree that containment does
  not lead to; what is in any entity is in the tree, or the association of that entity
  is still left; and an entity of the tree is no more containments away than
  associations were taken.  A pass that takes nothing leaves a tree that is `Closed`,
  hence everything containment leads to is in it, and the bound on the distance shows
  that `Containers` steps of `Within` suffice for all of it.  The paths need
  that the order of the ways to the nodes has a first among any nodes (`FirstOf`), so
  that the `CHOOSE` of `FirstWith` finds what it looks for.
- `ObjectsHold` is `ObjectsFollowEntities`.  `Published` says of the objects, and of the
  records that are kept, what the property says once all records are read, for those
  read so far; it is kept by each of the five parsers and goes through the five passes.

`PldmTerminusProofs` proves the five properties of `PldmTerminus` for any termini,
endpoints, TIDs, coroutines, changes and faults.  `StepKinds` classifies the steps:
each leaves the TIDs and those who have them alone or is one of a few.  `TidsApart`
says that, as long as no irregularity of `TidMixUps` has happened, a TID has one
holder among the registered endpoints, the coroutines and the reclaim windows, and
is flagged as used; it is inductive together with `OncePerEid` (an endpoint has
one TID, and until it has one at most one coroutine asks it).  What
becomes of an endpoint rests on it: `PlatformsKnown` for the monitored termini, and
`LastEvent`, `Missed`, `PlatformsBegun`, `Monitored` and `Awaited` for what is still to
come before everything has ended.

`FirmwareUpdateProofs` proves the four safety properties of `FirmwareUpdate` for any
termini, components, numbers of requests, tries and events.  What an action does
until it waits again may pass through several of the code's functions, and past any
number of components and termini.  `Onward` says where the code between two waits
may lead and what it keeps of `*fwUpdate`, and is proved once for each of these
functions; `Arrives` says it of a step of the coroutine.  On the base invariant
(`Types`, and `Believed`: what `fdState` is at each wait) the four properties are
proved one by one, each with what it adds: `PollingKept` (the package is there while
the coroutine runs), `BandwidthKept` (where the bandwidth may be reserved, and by
whom), `OnlyApplied` (which requests may still be taken for `ApplyComplete`), and
`DeviceFollowed` (at each wait, in which states the device may be, and what its last
matched request then says of it).

Only model-checked: liveness (out of the proof system's reach), and the messages of
libpldm_intel (`PldmExchange`).  What is said there, that no decoder takes a field from
beyond the payload, that what was encoded is decoded, and that lengths and headers
agree, is about the checks, reads and writes of each pair of functions in turn: a
proof would go through all of them with the field values as unknowns, one case per
step of each function.  TLC goes through all of them with every length up to the
bound.

## What is not modelled

Packets and drivers; the contents of upper layer messages other than PLDM;
values of PLDM fields on which neither a check nor a length depends; D-Bus itself;
static EIDs and mux file descriptors; PCIe bridges.  Components with status
`not_modelled` in `PROJECT.json` carry their reasons.

## Plan

1. mctpd's transmission queue, control queue, bandwidth, registration, PCIe;
   mctpwplus' endpoint map; pldmd's TIDs, firmware update and descriptor records;
   the messages of libpldm_intel (done).
2. Composition of the transmission queue with the bandwidth reservation
   (messages queued before a reservation).
3. pldmd: sensor polling and thresholds; the retries of `sendReceivePldmMessage`;
   FRU, the package header.
4. mctpd's control command responder and SMBus endpoint mode; PCIe bridges.
5. Proofs: that `TransmissionQueue`'s invariants hold in `ReceivePath` too, with
   responses that come from the control queue; type correctness of the modules whose
   theorems rest on a type invariant without stating it.
