# TLA+ models of the XIAO ESP32-S3 LoRa bridge

The firmware joins LoRa networks that do not understand each other (Meshtastic,
MeshCore, Reticulum, LoRaWAN and a raw "custom" mode). One ESP32-S3 host drives a
local SX1262 and, over UART, a co-processor with further radios. A packet heard on
one radio is decoded, checked against a loop guard, re-encoded for every radio the
route table names, queued there and sent when the channel and the duty cycle
allow. In the camera role the same firmware takes authenticated commands by radio,
takes pictures and videos and serves a portal. The modules here model the pipeline,
its queues, its loop guard, its frame counters, the link to the co-processor, the
configuration and its upgrades, the camera's command channel and the camera itself.
TLC checks them on small instances; TLAPS proves the central results for every value
of the constants.

## 1. Inventory

| component | state | operations | shared with |
|---|---|---|---|
| `RouteQueue` (RouteQueue.cpp) | ring, `_head`, `_tail`, `_count`, `_dropped` | begin, push, pop | pushed by every radio task, popped by one |
| `DedupCache` (DedupCache.cpp) | table of (hash, time) | seenAndRecord, record | all radio tasks, one mutex |
| `LoRaWANConfig` (LoRaWANConfig.cpp) | device table, FCnt and reservation per identity, NVS keys | begin, resolve, nextFcnt, nextFcntForDevAddr, setDevice, clearDevice, saveTable | radio tasks and the portal, no lock |
| forwarding core (main.cpp `ingestAndFanout`, `enqueue*`) | one packet being handed on per radio task | decode, guard, routing, re-encoding, fragmenting | DedupCache, NodeDB, VirtualNodeMap, LoRaWANConfig, RouteQueues |
| `radioTask` (main.cpp) | latch, `g_txBusy`, `g_txStartMs`, backoff and throttle deadlines | steps (A)-(D), once every 2 ms | RouteQueue, radio driver |
| `WioSX1262` | chip mode, DIO1 flag, `_txInFlight` | startReceive, read, scanChannel, startTransmit, finishTransmit | interrupt handler |
| `UartLink`, `RemoteRadio` | RX queue, TX gate, READY flag and generation | sendFrame, feedByte, startTransmit, finishTransmit, begin | service task, radio task, `loop()` |
| co-processor (coproc_main.cpp) | TX queue, `g_txActive`, `g_enabled`, configuration | setup, handleHostFrame, loop | the wire |
| `VirtualNodeMap`, `NodeDB` | table of foreign senders; table of known nodes and its NVS image | idForLabel, nodeInfoDue; upsert, shortName | radio tasks, mutex |
| `BridgeConfig` (BridgeConfig.cpp) | the configuration in RAM, the NVS blob in one of four schemas | begin (load, upgrade), setters, save | `setup()`, the form, read by the radio tasks |
| `CaptivePortal` | form handler | handleSave and its apply functions | BridgeConfig, LoRaWANConfig; writes NVS, then restarts |
| `CamC2`, `CamC2Config` | peer table, replay floor per peer (RAM and NVS), outbound counter and reservation | handleInbound, sendMessage, sendCommand, setPeer, clearPeer, saveTable | a radio task and the portal task, no lock |
| `CameraNode`, `CamStream` | sensor mutex, SPI bus mutex, card, file numbers, recorder flags | snap, recordStart, recordStop, recTask, photoDelete, stream handlers | radio task, portal task, recorder task, :81 server |
| `CamPortal` | login sessions | command, message, pairing, photo and configuration pages | CamC2, CameraNode, CaptivePortal |
| region tables, codecs, `SerialLog` | pure functions and output | | |

Interactions. Radio tasks run on both cores and meet only in the mutex-protected
tables and queues, except for `LoRaWANConfig`, `CamC2Config`, the recorder's flags and the
configuration, which have no lock. In the camera role the portal is a task beside the
radio tasks; otherwise it is modal and the radios are off while it is up. Interrupts set
one flag per radio. The co-processor is a second machine that may reboot at any
time behind a wire that damages frames. Power may fail at any time; only NVS
survives.

What is hard here: the order "record the emission, then queue it" across tasks;
one interrupt flag for two events; unsigned 32-bit time that wraps; a frame counter
that must never go back although NVS is written once per block; answers of the
co-processor that come late, twice or never; a replay floor and a configuration that
live in RAM and in NVS and are edited row by row; two mutexes with time-outs around a
camera that four tasks use. PROJECT.json lists these hazards at
their lines with the properties aimed at them.

## 2. Modules

* **`BoundedFifo`** - what RouteQueue.h promises: a drop-oldest queue with a maximum
  age. **`RouteQueue`** - the ring. `_head`, `_tail`, `_count`, `_dropped` and the
  slots are variables; `Begin`, `Push`, `PopDeliver`, `PopEmpty` are the methods
  (a pop discards all stale entries it meets, so delivering and returning nothing are
  two actions); `Tick` is time. `now` is true time and `millis()` is
  `now % ClockMod`. `Fifo` instantiates `BoundedFifo` with the live part of the ring.
* **`DedupCache`** - table and both calls. `Call` reads `millis()`, `Body` runs under
  the mutex, as in the code. The history variable `last` says when a hash was truly
  recorded last. (Its specification is called `CacheSpec`, so that one module can speak of
  the table and of the bridge.)
* **`LoRaWANConfig`** - an uplink is `Resolve`, (`Bind`), `Read`,
  `PersistOk`/`PersistFail`, `Commit`, `Send`/`Discard`, one action per access to
  shared state, so that tasks interleave as the code lets them. The portal form is
  `FormOpen`, `FormSlot`, `FormError`, `FormSave`; `Reset` is power loss or restart at
  any point. `lns` records the FCnts that went on the air.
* **`Bridge`** - the forwarding core with its surroundings. A packet is a record of
  protocol, body, sender and id; encoding changes them as the code does (a label is
  put before the text, the sender becomes a virtual node, ids are fresh), and
  `Hash` is a function of the fields the code hashes. `Hear` is a reception up to the
  guard, then one action per destination, dedup record and push, because other tasks
  run in between. A call of the dedup cache is one step, or two when its task is held up
  between reading `millis()` and taking the lock (`HearHeldUp`/`Resume`, `RecordHeldUp`/
  `Record`): `calls` is the order in which the waiting tasks read the clock and `late` the
  hashes stamped after that, which such a call takes for expired (`HearNew` lets a copy pass)
  and may overwrite (`Overwritten`). `slipped` records the packets that passed in this way.
  Mesh nodes flood what they hear (external). A *plan* is a configuration
  and its surroundings: radios with protocol, channel and frequency, routing rows, ABP
  identities, and what clients send. A Reticulum frame is cut into at most
  `BRIDGE_RNS_MAX_FRAGS` texts and left out where it needs more.
* **`RadioTask`** - one radio's scheduler, pc `sleep`, `A`..`D`, `cad`, `tx`, with the
  interrupts `RxDone` and `TxDone` possible before every step. Time passes in the delay of the
  loop (`Tick`) and, up to `Scan`, while CAD and the wait for the SPI mutex lie between the
  check of a packet's age and its transmission (`ScanTime`).
* **`CoprocLink`** - host gate, service task and self-heal poll, two wires that drop
  damaged frames, and the co-processor with boot, crash, queue and transmitter.

* **`CamC2`** - a command is `Receive` (authInbound), `Accept`, `PersistRx`, `Run`; a number
  leaves by `Take`, `Reserve`, `Commit`, `Emit`; the pairing form is `FormOpen`, then
  `RowClear`, `RowCopy`/`RowSet` or `RowError` for each row, then `SaveTable`. A frame is
  its sender and number: one whose tag does not verify changes nothing. Frames come lost,
  late, repeated, in any order. NVS may not open at a boot (`nvsOk`). `done` and `sent` record what was executed and sent.
* **`Camera`** - sensor and bus mutex with their owners, the driver's frame buffers, and
  the card as numbered files. `sd` says whether a card is mounted and whether the listing of
  `/loracam` that the numbers resume from was complete: `beginStorage` uses the card even if
  the directory did not open or its listing ended early. A snapshot is four actions, starting a recording four, the
  recorder task a loop from `RecLoop` to `RecFinal`, the :81 server two handlers. A
  video is its length and its chunks; `Seal` writes what the code computes about them,
  and `Playable` compares that with what is in the file. Any write may be short, which recTask
  does not notice: the video is then no longer `whole`.
* **`BridgeConfig`** - `Begin` (load and upgrade), `Setup` (identity, first save, portal or
  bridge), the form as `Post`, `RowNone`/`RowSet`/`RowError`, `Commit`, `Save`, and `Reset`.
  `Builds` are firmwares: camera role, bench build, disabled and enabled radios, channel
  overrides. `running` is what the radios were set up with, `cfg` the configuration in
  RAM, `nvs` the blob; `BootSettings` is what the next boot would make of a blob. `BlobV2` to
  `BlobV5` are the blobs of the four schemas.

The `MC*` modules name small sets for TLC and contain nothing else. Definitions
called "Mutant of ..." are wrong variants of the definition that follows them; each
shows that a property would notice that mistake. They are used nowhere else.

## 3. Runs

| run | what it asks | result |
|---|---|---|
| `route_queue` | ring against FIFO, accounting, age | holds |
| `lorawan_fcnt` | FCnts with one radio task, modal portal, distinct addresses | holds |
| `dedup` | guard with one caller at a time | holds |
| `bridge` | loops, duplicates and wrong drops in seven bridges | holds, with the exception named below |
| `radio_task` | scheduler against interrupts, first half of the clock range | holds |
| `coproc_link` | link under damage and reboots, safety and liveness | holds |
| `cam_c2` | replay, floors and nonces of the command channel, one request at a time | holds |
| `camera` | captures, recordings, stream and deletions, safety and liveness | holds |
| `bridge_config` | upgrades, forms, failed writes on three firmwares | holds |
| `radio_uptime` | the scheduler past half the clock range | `HeldOnlyForCause` fails |
| `lorawan_race` | two radio tasks take FCnts | `NoReplay` fails |
| `cam_c2_rows` | a peer left in two slots of the pairing table | `NoReplay` fails |

Three properties of `bridge` and two of other runs name a case in which the code does not keep
the plain promise; the case is in the model and happens in the run. A packet that slips
through two overlapping calls of the dedup cache (`Slipped`) may be forwarded twice or
return; a packet may be over age on the air by the time CAD takes (`SentFresh`); a card whose
listing failed at boot has its files overwritten (`NeverOverwritten`). The rows
on "without ..." in the next table give the plain forms, which TLC refutes.

The failing runs are disagreements between the code and what a comment or header of
the repository says of it; PROJECT.json quotes each line under "findings".

1. *Uptime.* A backoff deadline that is never set stays 0 and is compared as a signed
   difference: a radio on a quiet channel (and every remote radio) is silent from
   24.8 to 49.7 days of uptime.
2. *FCnt race.* `advanceFcnt` reads, persists and stores without a lock; two tasks get
   the same FCnt and the network server drops one frame.
3. *Peer in two rows.* The form accepts one id twice, and a form refused half-way may
   have moved a peer without clearing its old slot. Commands go through the first slot;
   when it is cleared, the second still has its old floor in RAM, executes a command
   again and writes the lower floor to NVS.

### Further disagreements

These are kept as definitions and constants rather than as runs. Each is reproduced by the
change given to the configuration of the passing run.

| change | refuted | what the code does |
|---|---|---|
| `Bridge.cfg`: `INVARIANT Introduced` | "so an MT client recognises a bridged MeshCore sender" (main.cpp:628) | NodeInfo is due per virtual node, not per destination: a second Meshtastic network never gets it |
| `Bridge.cfg`: `Plans <- LwRelayPlans` | `NoReturn`; "remember our own emission" (main.cpp:810) | an ABP uplink is recorded under one hash and looked up under another; its echo is summarised back into the mesh it came from |
| the same change | `AtMostOnce` | the echo is also queued a second time for a destination that has had the message |
| a plan in which two radios share a frequency | `NoReturn` | a route from one to the other sends the packet back where it was heard; the guard looks at content, not at frequencies |
| a plan in which two clients send equal MeshCore texts | `DropsOnlyDuplicates` | a MeshCore text is hashed without a sender or id other than the name in it: the second one is taken for a copy of the first |
| `CoprocLink.cfg`: `INVARIANT IdleUntilConfigured` | "sits idle until it receives CFG_RADIO" (main.cpp:1962) | a rebooted co-processor sends queued packets with placeholder settings |
| `DedupCache.cfg`: `Tasks = {r1, r2}` | `CatchesDuplicate`; "the same packet heard on two radios" (DedupCache.h:16) | `millis()` is read before the lock; a preempted call takes a fresh entry for an expired one |
| `AtMostOnce`, `NoReturn`, `OwnEmissionDropped` without `Slipped` and `slipped` | "This catches both mesh-flood replays of one message AND the same packet heard on two radios" (DedupCache.h:15-16) | the same in the pipeline (plans `PairPlan` and `TwinPlan`): a held-up call misses or overwrites the entry another task has just made, and a message is queued twice, an own emission passes, or a message goes back where it came from |
| `SentFresh` with `MaxAge` instead of `MaxAge + Scan` | | the age is checked before CAD and the wait for the SPI mutex, not after |
| `NeverOverwritten` without `sd # "blind"` | "Resume numbering across reboots: highest existing IMG_<n> / VID_<n> + 1" (CameraNode.cpp:53) | if `/loracam` does not open at boot, or is not listed to its end, `s_sdOk` is set all the same and captures reuse the numbers of existing files |
| `DedupCache.cfg`: `MaxNow = 34` | `NoFalseDrop` | entries are never aged out: after a lap of `millis()` (49.7 days) an old stamp looks recent, and a new packet with that hash is dropped |
| `LoRaWANConfig.cfg`: `SharedAddrs = TRUE` | `NoReplay` | the form accepts one DevAddr twice |
| `LoRaWANConfig.cfg`: `LivePortal = TRUE` | `NoReplay` | in the camera role the table is edited while tasks use it |
| `CamC2.cfg`: `Overlap = TRUE` | `FreshSeq`, `NoReplay` | portal and radio task take one nonce twice; the form writes back a floor it copied before a command raised it (CamPortal.cpp:525) |
| `CamC2.cfg`: `OpenRecovers = TRUE` | `NoReplay`, `FreshSeq` | a boot that cannot open NVS starts with floor 0 and number 1 instead of failing closed; if NVS opens later, old commands and used nonces pass |
| `Camera.cfg`: `Overlap = TRUE` | `OneRecorder`, `Playable` | two tasks pass `recordStart`'s check; both recorders write the file `s_recIdx` names last |
| `BridgeConfig.cfg`: `INVARIANT SomeActive` | "At least one radio must be active" (CONFIG-USER-MANUAL.md:203) | the form counts a radio that `save()` then disables for the build |
| `BridgeConfig.cfg`: `INVARIANT LiveAgrees` | | in the camera role a refused form leaves its rows in the configuration the radio tasks read: the command radio may be deaf until the next restart |
| `BridgeConfig.cfg`: `OpenRecovers = TRUE` | `OnlyFormsChange` | a camera that cannot open NVS in `begin()` but can in `save()` replaces its configuration by the defaults |

### Bounds

* `route_queue`: depth 3 (wrap and overflow need 2), 5 pushes (the ring wraps while
  full), maximum age 2, clock modulus 8, time from 5 to 10 across the wrap. Time advances only while no queued entry is older than a lap of the clock; on
  the device that is 49.7 days without a pop, while `radioTask` pops every 2 ms.
* `lorawan_fcnt`: 2 slots and the build-flag identity, 3 addresses, block of 1 beyond
  the first (so every second uplink writes NVS), `UINT32_MAX` 5, so that the end of
  the space is reached by two blocks, 2 uplinks per address between any restarts and
  edits. Strict increase is a relation of two uplinks. The theorem removes all these
  bounds.
* `dedup`: 2 entries, 3 hashes (the third forces an eviction), TTL 3, modulus 16,
  time from 13 to 19 across the wrap.
* `bridge`: seven bridges of two to four radios, one of each kind of conversion (with ABP
  uplinks from a radio that forwards nothing it hears, and a Reticulum frame too long for
  one of its two destinations: three texts where `BRIDGE_RNS_MAX_FRAGS` is 2), one to four
  messages of clients, 8 emissions, which suffices for every packet to visit each radio, return
  and be heard again. In two of them calls of the cache are held up: once in `PairPlan`, where two
  radios exchange two texts, and twice in `TwinPlan`, where two radios hear the same one. One
  call held up is what it takes to miss an entry, and to overwrite one; with three radios and
  two messages the run would not end in time. The run is shorter than the TTL, so hashes do
  not expire in it, and the table has room.
* `radio_task`: clock modulus 16, time to 7, age 3, timeout 2, queue 2, 3 packets to
  send and 2 heard, `Scan` 1: the one millisecond makes a packet at the limit over age. Time below half the modulus is the deliberate limit: past it
  `radio_uptime` fails.
* `coproc_link`: a transmit queue of 1 and a receive queue of 2 (so that they fill), up to 2
  packets to send and 3 heard, 3 in both directions together (`MaxTraffic`), 1 damaged frame,
  2 boots. A second packet is what a late or missing answer of the first can harm; with three
  heard the receive queue overflows and order means something.
* `cam_c2`: 2 slots and 2 peers (so that a peer can move, be replaced and come back), 2
  inbound numbers, 2 commands per peer, 2 frames sent, reservations of 1 and a number space
  of 5, whose end two reservations reach. One request is served at a time and no peer
  stands in two slots: without either, see above.
* `camera`: 2 commanders, 2 recorders, frames of odd and even length, videos of up to 2
  frames, 2 pictures or recordings ordered, 2 restarts. Two frames are what an index can get
  wrong; the second capture is what could overwrite the first.
* `bridge_config`: 3 radios (two that old schemas know, one they do not), blobs of
  schemas 2, 3 and 4, an unknown one and none, rows that violate each check, two RF
  plans on one frequency and one on another, 2 regions, 2 forms: a refused or saved one and another after it.

Deadlock is not checked where the bounds let a model come to rest; `lorawan_fcnt`,
`lorawan_race`, `cam_c2`, `cam_c2_rows` and `bridge_config` can always reset and do check it.

### Fairness

Two runs have liveness. In `coproc_link`, `FairSpec` assumes weak fairness of the host's
service task (`HandleFrame`), of the self-heal poll in `loop()`, of the transmit steps
of `radioTask`, of the co-processor's reading of host frames, and of its boot after a
crash. All of them are endless loops with a delay, under a preemptive scheduler or
alone on their processor. Neither the end of a transmission nor the co-processor's
queue is assumed to make progress: `GateOpens` holds through the host's time-out, and
fails in the mutant without it. No fairness is assumed of the wire: it may damage
frames up to the bound, and `Heals` says only what holds when none is damaged,
because neither READY nor CFG_RADIO is acknowledged or repeated.

In `camera`, `FairSpec` assumes that each task goes on with what it has begun: the radio
driver releases the bus, the :81 server finishes sending a frame (the default configuration
of the HTTP server, which `CamStream` keeps, bounds a send), a commander finishes a snapshot and the creation of a recorder, and the
recorder takes its next step. The recorder's deadline is not assumed to be noticed,
because `millis() < deadline` is false or true for the wrong reason near the wrap of the
clock; `StopEnds` therefore rests on the flag and the frame limit alone. Nobody is assumed to
send a command.

## 4. Proofs

Every invariant and every action property of the passing runs is also a theorem, for every
value of the constants, except where a hypothesis is named below. A hypothesis is there
because the claim is false without it, and the last column of the first table says what
shows that; the second table lists the rest. What remains with TLC are the three liveness
properties.

| theorem | states | hypothesis | without it |
|---|---|---|---|
| `LoRaWANConfigProofs`: `NeverReplays`, `ReservedFirst`, `HighWater`, `TypeCorrect` | `NoReplay`, `Durable`, `HighWaterGrows`, `TypeOK` | `Serial`: one radio task uses LoRaWAN, the portal is modal, no two identities share an address | `lorawan_race`; `LivePortal`, `SharedAddrs` in section 3. (`TypeCorrect` is proved with the invariant of the others and inherits it) |
| `RadioTaskProofs`: `HeldForCause` | `HeldOnlyForCause` | `2 * MaxNow < ClockMod`: up for less than half the range of `millis()` | `radio_uptime` |
| `RadioTaskProofs`: `DutyKept` | `DutyHeld` | a cap, `Duty > 0`; `Gap` at most half the range of `millis()`; the cap divides the airtime in percent | a gap longer than that looks passed at once (`ClockMod = 8`, `Duty = 10`); otherwise the division in the code rounds the gap down, by less than a millisecond (`Duty = 30`) |
| `RadioTaskProofs`: `SendsFresh` | `SentFresh` | `MaxAge + Inflight + Scan + 2 < ClockMod` | a packet that waits for a whole transmission looks new; the bound is tight (`MaxAge = 2`, `Inflight = 1`, `Scan = 1`, `ClockMod = 6`) |
| `CamC2Proofs`: `NoncesFresh` | `FreshSeq` | `Serial`: `~Overlap`, one request at a time, and `~OpenRecovers`, an NVS that did not open at boot stays closed | section 3 |
| `CamC2Proofs`: `NeverReplays`, `FloorsAgree`, `FloorsGrow` | `NoReplay`, `FloorAgrees`, `FloorGrows` | `Serial`, and `~SharedIds`: no form leaves a peer in two rows | `cam_c2_rows` |
| `BridgeConfigProofs`: `OnlyAcceptedForms` | `OnlyFormsChange` | `~OpenRecovers` | section 3 |
| `BridgeConfigProofs`: `RunsOnlyLegal` | `RunsLegal` | `LegalBoot`: the build flags and the blob the device starts with pass the form's checks | `begin()` takes both over without these checks |
| `CameraProofs`: `OneRecording`, `VideosPlay`, `FilesKept` | `OneRecorder`, `Playable`, `NeverOverwritten` | `~Overlap`: commands come one at a time | section 3 |
| `LoopGuardProofs`: `NothingNewDropped` | `NoFalseDrop` | `WithinLap`: up for less than a lap of `millis()` | section 3 |
| `LoopGuardProofs`: `DuplicatesCaught` | `CatchesDuplicate` | `WithinLap`, and `OneCaller` | section 3 |
| `LoopGuardProofs`: `QueuedOnce` | `AtMostOnce` | `NoRelay`: a bridge with ABP uplinks forwards nothing it hears on LoRaWAN | section 3 |
| `LoopGuardProofs`: `NothingReturns` | `NoReturn` | `NoRelay`, and `Apart`: one radio per frequency | section 3 |
| `LoopGuardProofs`: `StrictAlone` | `AtMostOnce` and `NoReturn` without exception | the same, and no call of the cache is held up before the lock (`stalls = 0`) | section 3 |
| `LoopGuardProofs`: `OnlyDuplicatesDropped` | `DropsOnlyDuplicates` | `Distinct`: clients' packets differ in what is hashed, from each other and from what the bridge composes | section 3 |

Without a hypothesis:

| module | theorems |
|---|---|
| `RouteQueueProofs` | `TypeCorrect`, `KeepsFreshest`, `Accounts`, `DeliversFresh`, `Refinement` |
| `RadioTaskProofs` | `AlwaysListens`, `FlagAttributed`, `TransmitBounded` |
| `CoprocLinkProofs` | `TypeCorrect`, `SentOnceInOrder`, `AnsweredOnce`, `DoneNotMissed`, `HeardInOrder` |
| `CamC2Proofs` | `TypeCorrect` |
| `BridgeConfigProofs` | `TypeCorrect`, `RunsWhatIsSaved` |
| `CameraProofs` | `TypeCorrect`, `FramesReturned` |
| `LoopGuardProofs` | `HashOnce`, `OwnDropped` |

The assumptions on constants are those of the modules: sizes are positive, bounds are numbers,
time-outs and windows are shorter than the range of the clock, reservations are smaller than the number space.

The arguments:

* **The ring.** The properties are inductive once `_tail` is known to follow `_head` by `_count`
  modulo the depth (`RingInv`). Refinement uses lemmas on what a step does to the live part of
  the ring seen as a sequence. For the age (`AgeInv`), a slot carries the stamp of its own
  push and is less than a lap old (which the model's `Tick` grants, see the bounds of
  `route_queue`), so that the unsigned difference is the true age (`Elapsed`).
* **Frame counters.** Every counter in use lies at or below its high-water in NVS and above
  all it has sent (`CounterInv`); what a task holds between two of its steps is still true
  (`JobInv`); rows have distinct addresses (`ModeInv`). `NoReplay` alone is not inductive: it
  says nothing of the next FCnt.
* **The scheduler.** Mode, flag and `g_txBusy` are tied together at every program counter
  (`BusyInv`, `IdleInv`). Against a wrapping clock a comparison means what it should only while
  the true difference is bounded, so each proof bounds one: the age of a transmission
  (`AgeInv`), the distance to the next one (`ThrottleInv`), and the age of what waits
  (`StampInv`, `WaitInv`). The last needs the order of the queue: the latch holds the oldest
  packet, so emptying it of what is stale bounds everything behind it, and only a
  transmission lets the others grow older than the maximum.
* **The link.** Packet numbers flow in one direction, and what is further along is older
  (`TxOrder`, `RxOrder`); a packet on its way has not been answered (`DoneInv`). A reboot or a
  damaged frame only takes numbers away, which preserves order.
* **The command channel.** Outbound: what was sent is below the counter and below the
  reservation in NVS, which RAM repeats (`ReservedInv`). Inbound: no two slots share a peer, in
  NVS and in the rows a form has been through (`TableInv`), and a floor in RAM equals the one
  in NVS except between the write and the assignment (`FloorInv`).
* **The configuration.** What `setup()` starts from is what `begin()` made of the blob
  (`ModeInv`), normalising twice is normalising once, and a form's rows are legal as far as it
  has come (`FormInv`).
* **The camera.** See the head of `CameraProofs`: who holds the sensor (`LockInv`), one
  recording (`RecInv`), its number, as long as the card was listed completely (`NumberInv`), and
  the agreement between what the recorder has counted and what it has written (`FileInv`).
* **The guard.** In the table, a recorded hash is in its slot, or has left its window, or N
  others came after it (`EvictInv`). In the bridge, whatever of the bridge's is queued or on
  the air has been recorded in the guard and is there or has been overwritten since
  (`QueueInv`, `AirInv`), and what a task is handing on comes
  from a packet that passed it (`HandInv`). At most one task hands on a message of which nothing
  slipped (`CountInv`), since the guard lets it pass once. Where no call is held up nothing
  slips (`Alone`).

Only model-checked: `GateOpens` and `Heals` of the link and `StopEnds` of the camera. They are
liveness under fairness, which this version of the proof system does not reason about.

## 5. Abstractions and what is not modelled

* Bytes, formats and cryptography: a message is a small record; AES, CRC and the
  hash are taken to be injective on what they cover. A damaged frame is a lost frame.
* `DedupCache` inside `Bridge` is the set of recorded hashes with, for each call held up, the
  ones stamped after it read the clock: no times, no expiry (a run is shorter than the TTL), no
  eviction (the table has room). `dedup` is about those, with one caller. To a
  held-up call an entry stamped in the millisecond it read is not expired: hence such a call may
  also recognise an entry of `late`, or leave it alone.
* `Bridge` does not contain `RadioTask`: a queued packet is sent or discarded at any
  time, which includes every schedule of the scheduler. NodeDB and VirtualNodeMap are
  unbounded sets there.
* `CoprocLink` has one radio per link; frames carry a radio index and do not interact
  otherwise. PING, PONG and LOG change no state.
* `RadioTask` models a local radio; a remote one differs in its driver, which
  `CoprocLink` models.
* In `LoRaWANConfig` an NVS write may fail but NVS opens for reading. A boot at which it
  does not would start the counters at 0 like an empty NVS; what follows if it opens later
  is the case `CamC2` has as `OpenRecovers`.
* `CamC2` has no keys: a frame that reaches `Receive` was made by the holder of the
  sender's key. The ring of the last messages is output only. The portal's sessions
  decide who may post a form, not what a form does, and are left out.
* In `Camera` a video to which a write was short is not followed further: what it holds then is
  up to the file system. A video deleted while it is being recorded receives nothing more; what
  FatFs makes of writes to an open file that was removed (clusters given to another file in the
  meantime) is not modelled. Power is lost between writes, not within one.
* `BridgeConfig` joins frequency, bandwidth, SF and CR to one RF plan, whose frequency (`Freq`) is
  what the self-bridge check compares (less than 1 kHz apart is taken for equal), and channel
  name and key to one value; a radio's LoRaWAN region is a hint for the form. The ABP table, which
  handleSave writes just before the configuration, is in `LoRaWANConfig`; power lost between
  the two leaves the new table with the old configuration. A blob that cannot be read although NVS
  opened leaves the defaults standing with NVS writable, which is the case of
  `OpenRecovers = TRUE` in section 3 and not part of the run. `resetToDefaults` has no caller.
* Not modelled: codecs, region tables, pages, logging (pure functions or I/O); the bounded
  tables of VirtualNodeMap and NodeDB (an evicted sender is introduced again; a name is
  only shown); clock learning (two words that stamp outgoing text).

## 6. Plan

Done: queues, guard, frame counters, forwarding core, scheduler, link, command channel,
camera, configuration, and a theorem for each of their safety properties. Next:

1. `VirtualNodeMap` and `NodeDB` with bounded tables and eviction, refining the sets used in
   `Bridge`.
2. A proof that `CacheSpec`, under `WithinLap` and a table with room, implements the cache that
   `Bridge` has in its place, held-up calls included.
