# TLA+ verification of the RinOS SDK

This directory holds TLA+ modules for the parts of the RinOS SDK that keep
state and react to several parties, TLC configurations that check them on
small instances, and TLAPS proofs of the central facts for every instance.
`PROJECT.json` lists components, runs, mutants, the map from definitions to
source lines, findings, hazards and theorems.

Run from this directory:

    tlc -workers 2 -config MCWireless.cfg MCWireless
    tlapm HciControllerProofs.tla    (and FidoBrokerProofs, CtapHidProofs, UsbHidProofs,
                                      SdkTableProofs, WifiProofs, InputRingProofs, Wpa2Proofs)

## 1. The system

The SDK is a library of C sources and headers. Drivers and programs compile it
in; the operating system, the hardware and the transports are behind callback
tables. It has four layers:

| Part | Source (under `src/src`) | State | Operations | Hard behaviour |
| --- | --- | --- | --- | --- |
| Bluetooth HCI runtime | `rin/driver/bluetooth/hci_runtime_v1.c` | one controller record: state, outstanding command, resolving list, attempt, connection table | `init`, `configure_*`, `start`, `start/stop_scan`, `start/stop_advertising`, `start/cancel_connection`, `disconnect`, encryption, `process_event` | answers and link events cross; one command credit; handle reuse; a send that fails in the middle of a chain |
| HCI discovery | same file | device table, report fragments, report generation | advertising report events, `device_at` | chains that never finish, refused events, a full table |
| CTAPHID client | `rin/driver/usb/fido/ctaphid.c` | assembler, channel, client state, deadline | `begin_init`, `begin_cbor`, `cancel`, `feed_report`, `poll_timeout` | timeouts against late answers, lost reports, output that stops part-way |
| FIDO broker | `rin/driver/usb/fido/broker_v1.c` | table of devices, lock | `attach`, `detach`, the client's calls per device | the lock is dropped around transport calls |
| Wi-Fi association | `rin/driver/wifi/association.c` | one controller record: state, generation, deadline, roam and resume targets | `start*`, `disconnect`, `roam`, `suspend`, `resume*`, device reset, `poll`, `process_event` | stale events, one deadline for several phases, suspend against link loss |
| WPA2 supplicant | `rin/driver/wifi/wpa2_supplicant.c`, `wpa2.c` | session keys, replay counters | EAPOL messages, key callbacks | retransmitted messages, failed key removal |
| Media sessions | `rinmedia_sdk_client_v1.c` | 64 session slots with locks | open, use, close, close hook | slot reuse against waiters, fork |
| Close hooks | `rinsdk_v1.c:584-783` | hook table, generations, calls under way | register, unregister, notify | unregistration while a hook runs |
| VirtIO queue | `rin/driver/virtio/virtqueue_v3.c` | descriptors, free list, 16-bit indices | submit, pop | index wrap, completions that lie |
| Force feedback, PID | `rin/driver/usb/hid/gamepad_{force_feedback,pid_*}_v1.c` | effect slots, recovery flags | start, stop, tick, recover, detach | the lock is dropped around callbacks |
| C++ exceptions | `rincrt_bootstrap_v1.c:170-520` | frames, cleanups, current exception | install, leave, register, unregister, throw, rethrow, release | destructors that throw during a throw |
| Mapping database | `rin/driver/usb/hid/gamepad_mapping_database_v1.c` | records, generation | load, store, recover | commit of unknown outcome |
| Input ring | `include/rin/gui/compositor_input_ring.h` | two sequence numbers, slots | publish, pop | lock-free producer and consumer |
| Resource runtime | `include/rin/driver/resource_runtime_v3.h` | lease count | start, acquire, release, stop | accounting around failing callbacks |
| PS/2 decoder | `rin/driver/ps2/set1_decoder.c` | prefix state | one byte | multi-byte sequences |
| Parsers | EDID, UAC1/2, HID gamepad, 802.11 discovery, PCI catalog, image admission | none | pure functions | bounds |
| SDK marshalling, C runtime, ABI headers | `rinsdk_v1.c`, `rincrt_bootstrap_v1.c`, `include/rin/**` | none, or OS glue | wrappers | - |

How the parts meet: the broker owns one CTAPHID client per device and drives
it under its lock; the association controller hands key exchange to the driver
that runs the supplicant; the media client registers a close hook with the SDK
core; the HCI runtime, the association controller and the client call a
transport back and are called by it with events. Nothing in the repository
runs a thread of its own: concurrency comes from several callers (broker,
media sessions, close hooks, force feedback), and from devices that answer
late, twice or never (HCI, CTAPHID, Wi-Fi, VirtIO).

What makes each modelled part correct:

* HCI: the record satisfies the predicate that its own entry points demand; a
  link that exists is in the table; a pinned generation never reaches another
  link; an outstanding command is the one the state waits for; pending things
  end.
* HCI discovery: a device record holds one whole advertisement of that device.
* CTAPHID: fragmenting and assembling are inverse; an answer is handed only to
  the transaction that asked; every transaction ends.
* Broker: a transfer of the transport always belongs to a registered device; a
  cancel is final; a device stays until its owner detaches it.
* Association: a connected controller is right about its link and its keys; no
  keys outlive a suspend; a roam never lowers protection; every attempt ends.
* Supplicant and CCMP: no packet number is used twice with a key; no frame is
  handed up twice; a key at the driver is known to the session, so that it can
  be removed; both ends agree on what is installed.
* Media sessions: what a thread waits for is in some thread's hands, and no slot
  is lost, also after a fork; one thread at a time is between lock and unlock of
  a session, and a session ends under its own lock.
* Close hooks: no hook runs after its unregistration was reported, and a hook
  that is being unregistered drains.
* Input ring: critical records arrive whole, once and in order.
* Virtqueue: a descriptor is on the free list, in a chain or at the device,
  whatever the device writes.
* Force feedback, PID: what plays is known to the owner, or recovery is asked
  for; one effect plays at a time; what plays can be stopped.
* Mapping database: memory and storage agree, or recovery is asked for.
* C++ exceptions: every object and every thrown copy dies exactly once.

## 2. Modules and the code

### HciController, HciLink (`hci_runtime_v1.c`)

`HciController` has one variable per field of `RinBluetoothHciControllerV1`
that controls behaviour (the comment at each names the field), and one action
per API function and per event that changes the record. The runtime is
serialized by its owner (`hci_runtime_v1.h`), so a call is one step. Inputs the
runtime does not control are quantified: the result of `send_command` (accepted,
refused, or the callback is caught changing the record), the status of an
answer, and which event comes. `Submit` is `transport_send_checked` and
`submit_command` together; `SubmitInit` adds the FAILED of the start-up chain.
Every entry point tests `controller_valid` first, so `Next` has
`ControllerValid` as a guard of everything except `destroy` and `init`: a
record that fails it is stuck, in the model as in the code. Addresses, keys and
packet layouts are abstracted to peers and handles; the resolving list is a
sequence of peers whose index advances by one answer at a time.

`HciLink` extends it with an external controller chip that keeps to the
Bluetooth protocol: it holds at most one command, executes it, has links of its
own, and sends events through a FIFO queue. Properties that need the truth
about links are stated there. An event no handler takes changes nothing:
`Ignored` is the condition of the early returns of `process_event` written out,
which TLC found to be exactly "no handler is enabled" in every reachable state.

### HciDiscovery (`hci_runtime_v1.c`, advertising events)

`chains`, `devices` and `reportGen` are the fields `fragments`, `devices` and
`generation`. An event is a sequence of reports folded over a copy of the
chains (`Stage`), which is committed as a whole or not at all. External are the
advertisers and the chip, which cuts advertisements into parts; `holed` is the
history of advertisements of which a part did not get into the chain. Legacy
events carry one report here, and the layout of a report is reduced to the
question whether its data parse.

### CtapHidStates, CtapHid, CtapHidFraming, CtapHidTransaction (`ctaphid.c`)

`CtapHid` gives the functions of the file as operators on records.
`CtapHidFraming` runs the report loop of `fragment` against the assembler of
`feed`, with an output callback that may stop at any report.
`CtapHidTransaction` runs a client against an external authenticator over an
ordered, lossy transport, where a nonce, a channel or a request is drawn again
only when no report under way names it; time is the number of ticks left to the deadline.
`CtapHidStates` holds the five client states and where each call may move
them; the broker uses it, and `ClientStateGraph` shows that the client in
detail keeps to it.

### FidoRegistry, FidoBroker (`broker_v1.c`)

`FidoBroker` has callers with program counters: `attach` is three steps
(reserve under the lock, `start_input` without it, finish) and `detach` is
three steps (begin, `cancel`, finish), because the code gives the lock up
there. Everything done under the lock in one piece is one action. `FidoRegistry`
is the abstract specification, a set of ids with a status each;
`ImplementsRegistry` maps the device table to it. `SerialDetach` states whether
callers detach a device one at a time.

### WifiAssociation (`association.c`)

The variable `c` is the controller record, `cmds` and `events` are what is on
its way to and from the driver, `d` the driver's link, `now` the clock. One
action per owner call, `poll` and event type. `Submit` is the transport call
with its mutation check, and `ClockFault` the failing path of `now_ms`. Events
are a set that delivery need not shrink, so they arrive late, reordered and
twice. `barredScan` is a history variable.

### Wpa2Supplicant, Wpa2Handshake (`wpa2_supplicant.c`, `wpa2.c`)

`Wpa2Supplicant` has the session record, the CCMP state that the station's
driver owns, and one action per call: `init`, `process` for each of the
messages 1, 3 and group 1, `forget`, `encrypt_next` and `decrypt_next`. Each of
the callbacks `send_eapol`, `set_keys` and the removal acts, refuses, or acts
and reports a failure. A key is the triple (passphrase, nonce, nonce) it is
derived from and a MIC is equality of keys. `Wpa2Handshake` adds an
authenticator that sends messages again with a higher replay counter, and an
air that loses, repeats and reorders EAPOL and data frames.

### MediaSessions, CloseHooks (`rinmedia_sdk_client_v1.c`, `rinsdk_v1.c`)

`MediaSessions` has a program counter per thread and one step per atomic access
to a row or piece of code under its lock; a fork keeps the table and the
forking thread, and what other threads held or had half open stays so. A row
is reset, owned and published in steps of their own, so that `find_locked`
sees every half-open row that the code shows it. `abandoned` is the history of
the slots that a fork left reserved. `CloseHooks` takes the calls that the
spin lock protects as steps; a close notes hooks in one step and each hook
returns in one of its own.

### InputRing (`compositor_input_ring.h`)

The producer and the consumer take one step per access to a shared sequence
number and per copy of a record; the copy over a record that the consumer may
be reading takes two steps, so that torn reads exist.

### Virtqueue (`virtqueue_v3.c`)

The descriptors with their free list, the two rings, and indices that wrap at
`IndexWrap`, a multiple of the queue's size as 2^16 is. The device is external:
an honest one completes what it holds; the other writes any id, with a length
in or out of range, and any index. A completion is believed only after the
walk of `virtqueue_shape_valid` and of the chain, which are in the model.

### ForceFeedback, PidActuator, PidEffects (`gamepad_*_v1.c`)

Owners that send a sequence of reports and give up their lock for each: the
step is the return of one callback with the code up to the next. A report
refused by its callback may have acted on the device all the same. `ffPlaying`,
`pidPlaying` and `poolPlaying` say what the device does. `SyncRead` is the
piece of `sync_output` under the lock, after which another caller may act.
In `PidEffects`, `destroy` neither looks at `callback_active` nor leaves it to
its owner, so that calls do overlap. `create` looks at the sequence before its
authorization and counts after it, so that ticks in between make it wrap to 1.
`poolTangled` is a history variable: the effects on whose own slot two calls,
or a call and a recovery, met, and the numbers given again while in use.

### MappingDatabase (`gamepad_mapping_database_v1.c`)

Records in memory, a storage with a generation, and calls that are between
lock and storage callback. The storage commits or not, and its answer may be
lost; a restart loads what the storage holds.

### CppExceptions (`rincrt_bootstrap_v1.c:170-520`)

`stack` is what a thread is in the middle of: a try with its frame, a
destructor, a throw that unwinds, a handler; `frames` are the installed frames
among them, and a longjmp is the cut of the stack at a frame. The generated
code is external: it tries, builds and destroys objects, throws, releases and
throws again; destructors called by the runtime are generated code again, with
a guard frame around them during a throw. `built` and `copies` say what is
alive, `misused` what died twice or was forgotten. `QuietHandlers` states that
in a handler nothing is thrown but what it caught. Left out are
`unwind_cleanups` and the registration on another frame than the top, whose use
by generated code is not in the repository.

### MCWireless, MCHciRuntime, MCBrokerAssociation and MCParts

Components that share no state are checked together without multiplying their
state spaces. Each has variables of its own; one more variable (`side`, `part`)
is chosen in the initial state and says whose step is taken, the others stay in
their initial states. The reachable states of a part are those of its own
specification, and a property of a part reads only its variables, so the
composed run checks exactly what one run per part would. The fairness of a part
is conditioned on its name, or is about actions that its initial state disables,
so that it asks nothing of the others.

## 3. Runs

| Run | Instance | Shows |
| --- | --- | --- |
| `wireless` | HCI: 2 slots, 2 handles, 3 usable generations, resolving list of 0, 1 or 2 peers. WPA2: 2 associations, 2 passphrases, replay counters to 3, packet numbers to 2 | the record stays valid, a pending command is the one the state waits for, an operational state is reached only after the whole chain, a pinned generation never names another link; keys, packet numbers and replay counters of the supplicant |
| `hci_runtime` | Links: 2 slots, 2 handles, 2 peers, at most 3 events queued. Discovery: 3 advertisers, 1 chain, 2 devices, 2 reports in an event | no link without an owner, agreement about encryption, one command in flight; pending disconnects and commands end; device records are true |
| `hci_link_security` | the links of `hci_runtime` | finding 1 below |
| `hci_link_ltk` | the links of `hci_runtime` | finding 2 below |
| `ctaphid_transaction` | 2 requests, 2 nonces, 2 channels, 3 reports on the wire | answers match, an idle client has nothing under way, the client keeps to the state graph, every transaction ends |
| `broker_association` | Broker: 2 slots, 2 threads, 2 ports, 3 ids. Association: networks in transition mode, SAE and WPA2 of rising strength (a roam from the first to the second is admitted and carried out, one to the third refused), 3 generations, 2 clock values | ownership of transfers and devices, the refinement of the registry; links, keys, saved targets, roaming and suspending |
| `fido_broker_race` | the broker of `broker_association` with concurrent detaches | finding 3 below |
| `wifi_clock_fault` | the association of `broker_association` | finding 4 below |
| `parts` | framing with reports of 2 and 3 units and last sequence 2; 2 session slots, 2 threads, 2 objects, one fork; 2 hook slots, 3 closers; a ring of 2, 4 inputs; a queue of 2, indices modulo 4; 2 callers per owner, 2 PID effects, numbers to 2; 3 keys for 2 records; 2 objects, 2 exceptions, 7 nested activities; Wi-Fi with SAE | one or two properties of each part: see the comment at each |
| `media_retire` | 1 slot, 2 threads, 2 objects, no fork | finding 6 below |
| `media_reuse` | the same | finding 5 below |
| `ff_detach` | 2 callers, 2 ports | finding 7 below |

Bounds. They are set so that each limit is reached and passed in the run: two
slots with two handles make a handle be reused while the other is live; three
usable generations give an old pin, a current one and the exhausted counter;
two requests and two channels are what it takes for one answer to be mistaken
for another; a wire of three reports holds an initialization packet, its
continuation and a report of an older message; framing goes to the last
sequence number and one unit beyond; two threads, two slots and three ids are
what reuse of a slot between the steps of a detach needs. Two packet numbers
exhaust a key in the run and two associations give frames of an old one; a
queue of two descriptors with indices modulo four wraps; a ring of two fills
while the consumer reads; one chain and two device records are exceeded by
three advertisers; two records are exceeded by three keys; a stack of seven
holds a handler that throws again while a destructor tries, throws and catches. Names of ports,
peers, handles and requests are only compared, so more of them would add no
kind of behaviour. Symmetry is used in `broker_association`, for the threads of the broker: its
properties are invariants, action properties and a refinement without liveness.
Two threads are enough for `LocksAreHeld` and `PlayingCanBeStopped` to break
under their mutants; the theorems are for every number of threads.

Deadlock. `wireless`, `ctaphid_transaction` and `broker_association` check it.
The WPA2 side of `wireless` and the association of `broker_association` stop at
their bounds and may stutter, so the checks are about the HCI side and about the
broker. The runs of the HCI links, `hci_runtime` among them, and `parts` stop
where a named bound is exhausted, a record is stuck or a device is detached for
good; they say `CHECK_DEADLOCK FALSE`.

Fairness. `hci_runtime`: events are delivered (the transport's owner calls
`process_event` for what it receives), the chip executes the command it holds,
and a link the chip is closing does go down (the Bluetooth supervision
timeout). No fairness is assumed of the owner. `ctaphid_transaction` and the
Wi-Fi part of `parts`: the clock runs and the owner polls, which the deadline
API asks of it; nothing is assumed of the authenticator or the driver. Close
hooks: a hook that is called returns, and an unregistration that is answered
BUSY is tried again, as `base.h` (9-28) asks of the owner of the token; nothing
is assumed about closes, which may go on for ever.

## 4. Findings

1. `SecurityCommandKept` (`hci_link_security`): a link that ends between LE
   Start Encryption and its Command Status takes the owner of the pending
   command with it; the record then fails `controller_valid` for ever.
2. `PeripheralLtkCaptured` (`hci_link_ltk`): the header describes Long Term Key
   requests of peripheral links, and no such link can enter the table.
3. `RegisteredUntilDetached` (`fido_broker_race`): the second of two concurrent
   detaches frees whatever occupies the slot by then.
4. `ControllerStaysValid` (`wifi_clock_fault`): a failure after a resume leaves
   FAILED with `resume_required`, which `controller_valid` rejects, also in the
   device reset that should discard it.
5. `OneHolder` (`media_reuse`): the lock of a session that ends is given up
   before its slot is free, and an open resets the lock; a thread that was
   waiting for the old session and a user of the new one are inside together.
6. `EndsUnderItsLock` (`media_retire`): `find_locked` reads the state of a row
   and then its owner; a row that is dropped in between has owner 0 and is taken
   for one inherited by a fork, and `discard_inherited` retires, without the
   lock, the session that is opened there before its compare-and-swap.
7. `DetachedIsSilent` (`ff_detach`): a start that acts and is reported as
   failed leaves an effect that plays with `active` clear; `detach` then
   succeeds without a stop report, though the header says it does not.

The stuck record of finding 1 is reachable in the other HCI runs too. It takes
no further step but `destroy`, so it neither breaks nor hides the properties
checked there.

Observations without a run, because no document promises otherwise or because
the other side is not in the repository:

* Media sessions: a row that was reserved in the parent when it forked is never
  freed in the child; `LocksAreHeld` excepts those rows (`abandoned`).
* Input ring: the wake-up is decided on a consumer sequence read before the
  publication (line 231), so a consumer that drains the ring in between may
  sleep beside a record; motion records may be lost or torn when the ring is
  full.
* C++ exceptions: the exception that is current is one variable per thread. One
  that is thrown and caught inside a handler takes the place of the one being
  handled, whose destructor `release_frame` then does not call; with
  `QuietHandlers` FALSE, TLC finds `EachDiesOnce` violated. No document says
  that generated code may nest them.
* PID effects: `destroy` does not look at `callback_active` and clears it, so a
  start can run on an effect whose destroy is being authorized, and the effect
  then plays without a slot. The same comes of a recovery during a start, and of
  the number 1 given again after the sequence wrapped. `PlayingCanBeStopped`
  excepts the effects that met one of these (`poolTangled`); without the
  exception TLC finds it violated.
* PID actuator: a stop that the authorization denies does not ask for recovery,
  `detach` sends no stop report, and a `sync_output` that acts on a stale read
  may submit to an idle effect.
* Mapping database: a store that is refused as a whole answers IO (line 121)
  without asking for recovery; the header (105) speaks of recovery after a
  rejected commit.
* Discovery: chains are neither timed out nor cleared at the end of a scan. What
  a scan left behind is put before the next advertisement of the same device, or
  refuses every later part of it if the PHY differs; `RecordsAreTrue` excepts
  exactly the advertisements of which a part was lost that way.

## 5. Proofs

Eight modules hold theorems, each for every value of its component's constants
that the named `ASSUME`s admit (finite, positive sizes and bounds; a limit the
code has; values that are told apart). Two components need one condition on
their callers besides, stated as a hypothesis of the theorem; finding 3 and the
observations of section 4 show how the code breaks without it.

| Module | Theorem | States | Condition |
| --- | --- | --- | --- |
| `HciControllerProofs` | `TypeCorrect`, `PendingHasCommand`, `RecordStaysValid`, `GenerationsFresh`, `ReadyIsPrepared` | `TypeOK`, `PendingMatchesState`, `SelfConsistent`, `GenerationNeverReused`, `OperationalAfterSetup` of `HciController` | |
| | `LinkKeepsRecord`, `OneCredit` | the steps of `HciLink` are steps of `HciController`, and its record stays valid; `OneCommandInFlight` | |
| | `NoLinkOrphaned`, `EncryptionReportedTruly` | `NoOrphanLink`, `EncryptionAgrees` of `HciLink` | |
| `FidoBrokerProofs` | `BrokerTypes`, `OwnedTransfers`, `FinalCancel`, `StaysRegistered` | `TypeOK`, `TransferHasOwner`, `CancelIsFinal`, `RegisteredUntilDetached` | `SerialDetach` |
| | `BrokerImplementsRegistry` | `FidoBroker` refines `FidoRegistry` | `SerialDetach` |
| `CtapHidProofs` | `ClientKeepsToGraph`, `MessagesArriveWhole` | `ClientStateGraph`, `RoundTrip` | |
| | `ResponsesAnswerTheRequest`, `IdleClientIsQuiet` | `AnswersMatch`, `IdleMeansQuiet` of `CtapHidTransaction` | |
| `UsbHidProofs` | `PlayingKnown`, `OneEffectPlays`, `LookupsAreStored` | `PlayingIsKnown`, `OneEffectAtATime`, `MemoryIsStorage` | |
| | `PlayingStoppable` | `PlayingCanBeStopped` | |
| `SdkTableProofs` | `UnloadsAreSafe` | `UnloadIsSafe` | |
| | `LocksStayHeld` | `LocksAreHeld` | |
| | `AllDieOnce` | `EachDiesOnce` of `CppExceptions` | `QuietHandlers` |
| `WifiProofs` | `AssociationTypes`, `TargetsSaved`, `KeysMatch`, `RoamsProtected`, `ResumesAfterScan` | `AssociationTypeOK`, `SavedTargets`, `KeysMatchState`, `RoamKeepsProtection`, `ResumeNeedsNewScan` | |
| `InputRingProofs` | `CriticalsArrive` | `CriticalsDelivered` | |
| `Wpa2Proofs` | `KeysAreAccounted`, `PacketNumbersFresh`, `DeliveryInOrder`, `EndsAgree` | `KeysAccountedFor`, `NoPacketNumberReuse`, `DeliveredInOrder`, `BothEndsAgree` | |

No property is inductive alone. What each invariant adds, and why:

* `HciController`: `IInv == TypeOK /\ SetupInv /\ RadioInv /\ LinkInv /\
  TableInv`. That a command is the right one depends on which states scanning,
  advertising and the resolving list can be in (`SetupInv`, `RadioInv`); that
  the table is valid, on the attempt, the pending disconnect and the count
  agreeing with it (`LinkInv`, `TableInv`); freshness of generations, on every
  entry's generation being below the counter. That `connection_count` is the
  number of present entries uses the cardinality theorems of the library.
* `HciLink`: every step of the composition is a step of the component or
  leaves its variables alone, so `IInv` carries over. The credit needs
  `InFlight`: the chip holds a command, or its one answer is queued, only while
  the runtime has that command outstanding, and never both.
* Links (`OrphanInv`): the controller reports each link up and down in turn and
  the last report is true (`LinkOrder`); an entry of the table is backed by a
  link or by the queued end of one (`TableBacked`); and a link of a runtime that
  has not failed is in the table, about to be reported to it, or being torn down
  (`UpOwned`). `HostInv` says what the runtime's states mean once the start-up
  is over, above all that one entry at most has a start outstanding, only while
  that is awaited or after a failure. The two lemmas on the order of reports
  (`OrderedShift`, `OrderedUp`/`OrderedDown`) are the argument; the rest shows
  that each handler does to the table what `HandleEffect` says. A record that is
  not valid (finding 1) takes no events, so the parts about the table hold for a
  valid one, and an invalid one never becomes valid (`StaysInvalid`).
* Encryption (`EncryptionInv`): at most one encryption event of a link is queued,
  before the end of the link, and what it says is true until then (`StoryInv`);
  a start on its way to the controller is of a link that awaits it and has no
  other under way (`StartInv`); a start is refused only for a link whose end is
  queued (`RefusedInv`). The hard case is a link that ends while its start is
  outstanding: the entry goes, `controller_valid` fails or the runtime is FAILED,
  and from then on nothing is reported about the link. `Doomed` says when that
  has become certain, and the invariant is about the links for which it has not.
  TLC saw both invariants hold on the reachable states of `hci_runtime` before they
  were proved.
* `FidoBroker`: a slot of an attached device has an id and a port generation no
  other slot has (`SlotInv`, `DistinctInv`); between the steps of an attach or a
  detach the caller still owns the slot it names (`OwnsSlot`, `ThreadInv`),
  which is what a concurrent detach breaks; from the cancel on, the client of
  the slot is quiet (`QuietInv`). The refinement maps the occupied slots to a
  function from ids to statuses and shows for each step which registry step,
  or stutter, it is.
* CTAPHID client: the record keeps its fields and its state stays one of the
  five, whatever a report holds; the moves follow call by call.
* Framing: the loop's offset is the sum of its chunks (`Sender`), what is on
  the wire is a stretch of the reports of the message (`Wire`), and the
  assembler holds the bytes that the fed ones carry (`Receiver`). The lemmas
  below it are the arithmetic of offsets and the number of reports, and what
  cutting and joining pieces of a sequence gives. `NeverTooMany` is the fact
  that the limit of 57 + 128 * 59 bytes keeps the loop off its sequence guard.
  That `FramingInv` holds was seen with TLC on the instance of `parts` first.
* CTAPHID transaction: `TransactionInv` says where the one request of a client
  can be. A client that allocates has its INIT last in the queue or is answered,
  and then nothing precedes the answer on the new channel (`Allocating`); a
  client with a channel has at most one request that was not read to its end,
  and an idle one has nothing under way at all (`OneRequest`); the request of a
  waiting client is the current one wherever it is (`CurrentRequest`); and it is
  either not read yet, or at work with keepalives only under way, or answered,
  where the client holds the first `k` reports of one answer and what is still
  under way are later reports of it, in order, from which any may be missing
  (`Waiting`, `Answering`). Only report `k + 1` is accepted, so a lost report
  disconnects the client instead of closing the gap with a later one. The units
  of reports are typed by `Shape`. `TransactionAssumption` asks that the
  channels an authenticator allocates are neither 0 nor the broadcast channel
  (`accept_init_response` refuses both, and the faulty replies with channel 0
  are in the model) and that its answer has a status byte, as CTAP2 says: the
  client hands an empty answer over too, but no property could tell whose it is.
  That no identifier is drawn again while an older one is under way is part of
  the model's guards (section 2). TLC saw `TransactionInv` hold on the
  instance of `ctaphid_transaction`, with every kind of faulty INIT reply, before
  it was proved.
* Force feedback, PID: what the call under way still has to send decides what
  the device can be doing (`FFCallInv`, `PidCallInv`), and one call at a time is
  between its callbacks (`FFOneCall`, `PidOneCall`).
* PID effects, where calls do overlap: a number that is not tangled is of one
  slot, in the table and in the calls (`PoolPlaces`); a start or stop of such an
  effect is alone on its slot and finds it as it left it (`PoolAlone`); and an
  effect that plays is being started or stopped, or its slot runs and no call is
  out on it (`PoolKnown`). A call that returns writes its own slot only, which
  `PoolEndKeeps` shows to be harmless once for all calls. TLC saw `PoolInv` hold
  on the instance of `parts`, and with three callers, first.
* Mapping database: the storage can be ahead of memory only while recovery is
  required, and what it holds can always be loaded (`DbKnown`); a store that
  waits for its callback has valid records in hand (`DbCallInv`).
* Close hooks: the calls counted in a slot are those that closers have under
  way (`CallsCounted`), each is of the registration the slot still has
  (`CallsCurrent`), and every generation in the table was handed out while the
  next one was not (`TokensFresh`).
* Media sessions: a lock is held by a thread of this process whenever the row is
  of this process or a thread may come to make it so (`LocksKnown`), which the
  reset in `reserve` and the owner in the child's rows give; a row that was not
  left by a fork is reserved by a thread at a place where the code has it
  reserved (`ReservedKnown`). Two threads may be at one row, as findings 5 and 6
  show, so the invariant says "some thread" where it would like to say "the".
  TLC saw `MediaInv` hold before it was proved.
* Wi-Fi: nothing is of a generation to come (`GenerationsOrdered`); what is of
  this generation is of its network and its security (`GenerationsMatch`); a
  report of a loss is right (`LinksClosed`); what the driver reported, it has,
  unless the report of the loss is under way (`ReportsHold`,
  `ConnectedHolds`); keys are not asked for before the association
  (`KeysNotYet`). With these a late event can only be one that is ignored or
  one that is true.
* Input ring: the positions of the two sides and the records each is in the
  middle of (`Positions`, `Calls`), that critical records in the ring are whole
  and in the order of the inputs (`CriticalsWhole`, `Ordered`), and that each
  one admitted is delivered, in the ring or of a focus that is over
  (`CriticalsKept`).
* WPA2: a nonce is drawn once (`NoncesDrawn`), so that a message 3 or 4 in the
  air is of the association under way or of one that is over (`FramesMatch`); a
  key that is still to be installed was never used, and what was delivered is
  within the driver's window (`NumbersMatch`); `SessionMatches` and
  `AuthenticatorMatches` tie the keys of an end to its state.

One lemma per action, or group of actions, shows that it preserves the
invariant; each is split by action and, under it, by the conjunct the action
can disturb.

Only model-checked, and why:

* `QueueIntact` and `CompletionsReported` of `Virtqueue`: chains and the free
  list are followed by recursive functions, so a proof would be by induction
  over data.
* `RecordsAreTrue` of `HciDiscovery`: an event is folded over its reports and each is
  published on what the one before it left, which is an induction over data.
* Everything temporal under fairness (`CommandsEnd`, `DisconnectEnds`,
  `TransactionEnds`, `TimedStatesEnd`, `DrainsEnd`): out of the prover's reach.

## 6. Not modelled, and the plan

Left out for good: the parsers (EDID, audio and HID descriptors, report
mapping and calibration, 802.11 elements, FIDO report descriptors, PCI catalog,
image admission), which are pure bounded functions on bytes; cryptography;
argument marshalling to the OS and the media service; the ABI headers (more
than a third of the lines, generated records and numbers); the C runtime's
start-up, allocation and stdio;
the VirtIO PCI transport. They have no state a model checker would explore, and
their risk lies in byte offsets that an abstraction would drop. GPU object
owners are one-token records of a sequential caller.

Partly modelled: discovery (one report per legacy event, no layout), the WPA2
primitives (packet numbers, no cipher), and C++ exceptions (see section 2).

Still to come, if extended: `ResourceRuntime` (leases of
`resource_runtime_v3.h`) and `Set1Decoder`.
