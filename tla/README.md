# A formal model of voicetastic-core

voicetastic-core sends and receives voice messages and text over Meshtastic
radios. A recording is cut into DATA chunks with Reed-Solomon parity, each chunk
travels as one LoRa packet that may be lost, duplicated, delayed or reordered,
and the receiver asks for what is missing with NACKs. The host talks to its
radio over BLE or USB serial, links that break and come back.

This directory holds TLA+ modules translated from the Rust source, TLC
configurations that check them on small instances, and proofs for TLAPS. The
source paths below are relative to `src/crates/`; `PROJECT.json` maps every
definition to its lines.

## 1. Inventory

| Part | Source | State | Operations | Hard because |
|---|---|---|---|---|
| Voice assembler | `voicetastic-core/src/voice/assembler/` | table of slots by (sender, message id), per-sender counts, blacklist, configuration | `accept`, `tick`, `set_config`, `update_config` | frames in any order with contradicting headers; caps and eviction; five interacting timers; two updaters change the configuration meanwhile |
| Voice sender | `.../voice/sender.rs` | active sends, in-flight counts, status streams, retransmit permits | `send`, `run_send`, NACK listener, immediate and deferred retransmit tasks | four kinds of task over three maps with a mutex each, none held across two steps |
| Outgoing registry | `.../voice/outgoing.rs` | per message: frames, pending chunks, cooldown, deferred NACK, budget | `register`, `take_retransmit`, `defer_nack`, `take_deferred`, `mark_chunk_sent`, `remove`, `prune_expired` | called by all of those tasks |
| Voice transmit queue | `.../service/voice_tx.rs`, `.../voice/tx_policy.rs`, `.../voice/tx_state.rs` | bounded queue, last send time, free slots of the radio | enqueue, worker loop, `QueueStatus` | back-pressure by notification with a time limit, over connections that come and go |
| Wire format | `voicetastic-proto/src`, `.../voice/nack.rs`, `.../voice/send_prep.rs` | none | build, parse, NACK bitmap, FEC policy | limits of one byte, of 128 parity and of 256 shards meet |
| Codecs | `.../codec/` | encoder and decoder of a clip | encode, decode with gaps, durations | chunks are cut without regard to frames |
| Connection | `.../meshtastic/service/mod.rs`, `.../meshtastic/reconnect.rs` | transport slot, connection generation, state channel, reconnect configuration, attempt counter | `connect_*`, `disconnect`, `refresh_config`, readers, auto-reconnect watcher, config watchdog | a task per connection plus two service tasks plus the callers; state read before an await and used after it |
| Links to the radio | `.../meshtastic/serial.rs`, `.../meshtastic/ble.rs` | parser position; notifications and the radio's queue | `read_frame`, drain loop | resynchronisation, byte time-outs, lost notifications |
| Inbound dispatch and snapshots | `.../service/inbound.rs`, `.../service/protocol.rs` | nodes, channels, settings and their watch channels | one step per `FromRadio` variant, clearing, mirroring | partial bursts, refresh in between, readers of two connections |
| Delivery acks | `.../service/outbound.rs`, `.../meshtastic/ack.rs` | packet id → one-shot | register, resolve, discard, wait | answer before the send returns, never, or twice; ids that wrap |
| Settings | `.../settings/` | map, file, degraded flag, listeners | set, reset, reload, persist | threads, a text editor and crashes share one file |
| Desktop interface | `voicetastic-gui/src/` | settings form, chat log, composer, runtime configuration | watchers, apply, sends, playback | tasks find rows again by id; edits race with the radio |
| Android bridge | `voicetastic-android-bridge/src/` | what Kotlin was told, inbound queue | listener, push, glue | differences to a remembered state |
| Command line, public-key crypto, pairing, tokens | the rest | — | — | sequential, cryptographic, platform or build-time code |

How they interact: `prepare_voice_send` frames a clip; the sender's burst and its
retransmits go through the transmit queue to the installed transport; the reader
of a transport hands packets to inbound dispatch, which feeds voice frames to the
assembler, NACKs to the sender's listener, queue reports to the worker, acks to
their waiters, configuration to the snapshots and `ConfigComplete` to the state
channel. The clients follow the snapshots through watch channels; the desktop
also feeds and ticks the assembler, follows status streams and acks in its chat
log, and turns settings into assembler configurations.

What makes each part correct:

* assembler: what a slot remembers about its shards is what it holds, no
  recoverable message waits, what is played is aligned, a message is settled at
  most once while it is remembered, caps hold, every slot ends, NACKs name
  missing chunks, and the round budget covers the user's timeout whoever
  configured last;
* sender and registry: a chunk is in at most one batch, a deferred NACK has a
  task that will serve it, counts pair up, every send ends with a verdict;
* transmit queue: frames in order, once, and never stuck; no report lost; no
  overflow the margin should have prevented; the caller told what happened;
* wire format and codecs: every legal clip is framed, every frame parses to
  what was built, NACKs name what is missing, and what arrived plays in time;
* connection: a superseded connection does no harm, no transport without a
  reader, the user's disconnect wins, a dead link is noticed and retried;
* links: the host is handed what the radio wrote, in order, and a queued frame
  is read though its notification was lost;
* snapshots and views: mirrors agree with the state, a form shows the user's or
  the radio's words, Kotlin holds what was published;
* acks and chat: a slot is there while an answer is awaited, a row shows its own
  outcome, a playable clip stays playable;
* settings: a broken file is kept, file and map agree at rest, listeners current.

## 2. Modules

| Module | Content | Extends |
|---|---|---|
| `VoiceAssembler` | the receiver: `accept`, `tick`, `set_config` with all helpers as operators | |
| `SettledOnce` | abstract: a key is open, then settled, and not opened again while it is remembered | |
| `ModemPreset` | pacing and chunk size by preset | |
| `VoiceRuntime` | the settings listener and the LoRa watcher reconfiguring a running assembler | `VoiceAssembler`, `ModemPreset` |
| `OutgoingRegistry` | the registry's methods as functions of an entry | |
| `VoiceSender` | the sender's tasks over the registry | `OutgoingRegistry` |
| `VoiceTransmit` | queue, worker, the radio's queue and its reports | |
| `PacedFifo` | abstract: frames handled in order, once, none for ever | |
| `WireFormat` | headers, message building, FEC policy, NACK bodies | `ModemPreset` |
| `VoicePlayback` | frames, chunks and gaps: what a partial clip sounds like | `WireFormat` |
| `VoiceTx` | the transmit machine of hosts without tasks | |
| `RadioLink` | serial framing and the Bluetooth drain loop | |
| `VoiceLink` | a clip prepared, paced, sent and read by the other host | `VoicePlayback`, `RadioLink`, `VoiceTx` |
| `Connection` | callers, readers, watcher and watchdog around the transport slot | |
| `Protocol` | decoding, the state's step function, packet builders | |
| `DeviceState` | snapshot and mirrors under bursts, refreshes and resets | `Protocol` |
| `ConfigViews` | desktop form and Android listener on top | `DeviceState` |
| `DeliveryAcks` | the ack table | |
| `VoiceComposer` | recording, preview and playback | |
| `ChatLog` | texts, voice sends and received voice in the chat log | `DeliveryAcks`, `VoiceComposer` |
| `SettingsSchema` | keys, kinds, limits | |
| `SettingsStore` | map, file, lock, listeners, crashes | `SettingsSchema` |
| `MC*` | instances of the module they are named after | |
| `*Proofs` | theorems of the module they are named after; `VoiceAssemblerProofs` also those of `VoiceRuntime`, and that `VoiceAssembler` implements `SettledOnce` | |

An operator whose name continues another one's after an underscore
(`pin_KeepsLastLen`, `Released_FailedOnly`) is a deliberate slip of that
operator, kept to show which property notices it. No specification uses them.

### State, actions and the code

*VoiceAssembler.* `in_progress`, `per_sender` and `blacklist` are the fields of
`AssemblerInner`; a slot has the fields of `AssemblyState`. A shard is its
length: bodies are never compared by the code, Reed-Solomon is its enabling
condition (`CanRecover`: enough equal-length shards). `now` is a clock that
`accept` and `tick` read; any number of calls happen between two advances, and
calls may come late. One action is one whole call of `accept`, split by its
early returns (`RejectFrame`, `StrikeSlot`, `StrikeOut`, `DuplicateShard`,
`MisfitShard`, `StoreShard`, `CompleteMessage`), each with the evictions and the
recovery it causes. `tick` treats all slots in one action and returns NACKs and
give-ups. `out` is what the call returned.

*VoiceRuntime.* `update_config` locks twice, once to clone and once to store, so
an update is three steps of its caller: resolve, clone, store. The window's
thread and the LoRa watcher each have one under way; frames and ticks go on.

*VoiceSender.* An action is what one task does between two points at which
another may come in: each lock section, each enqueue, each sleep. `burst` is
where `run_send` stands, `listener` where the NACK listener stands, `tasks` the
retransmit tasks. A cooldown, the linger, the drain deadline and the retain TTL
may be over at any time. Enqueueing succeeds or fails at any time.

*VoiceTransmit.* The worker's actions are the code between two awaits: receive,
pace, look at the depth, register with the notifier, wake up or time out, send.
`permit` is the one permit `Notify` stores. A report carries, as history, how
many frames the radio had got when it was made.

*WireFormat and VoicePlayback.* A frame is its header fields and the length of its
body; the tag is the fields it covers. A byte of speech is the frame and the
offset it stands for, so that a decoder out of step yields noise.

*RadioLink and VoiceLink.* On the serial line every byte is its own step, between
console bytes and pauses; over Bluetooth the radio's queue is read until empty.
Once a burst starts a frame is its number.

*Connection.* A transport is named by the generation that installed it.
`call[c].at` is where a caller stands between the awaits of its call; the
watcher is a caller of its own, since it runs the same code. `conns` holds for
each transport its link ("up" until someone disconnects it or the device goes),
its reader, and whether an answer to `WantConfigId` is on its way. A link that is
down still yields what its stream had buffered. Only the newest config watchdog
is kept: older ones see a newer round and stop.

*DeviceState and ConfigViews.* `state` is `ProtocolState`, with the list of
channels, which has one entry per index, as a function of the index; `mirror` the watch
channels, published after the lock on the state is gone, and emptied one by one
by a refresh. `unseen` are the channels whose new value a client has not taken
up. A client is the desktop's watchers and form or Android's listener.

*ChatLog.* A task holds no row: it finds it from the newest back by packet id,
voice id or (sender, id), and the log drops its oldest rows. What the radio, the
other nodes and the sender's status stream do is drawn from a budget per input.

*SettingsStore.* A setter is: change the map, take the save lock and serialise,
move a broken file aside, write aside, rename, tell the listeners. A crash or an
error may come between any two. `ReloadMayOverlap` and `SameSecond` say whether a
reload may run beside other calls of its process, which no caller in the
repository does, and whether two files may be moved aside within one second
(section 6); the run has neither.

## 3. Runs

| Run | Bounds | Question |
|---|---|---|
| `assembler_shards` | one message, up to 3 data and 2 parity, lengths 1–2, both kinds of destination, 3 time units | every order, duplication, loss and disagreement of its frames |
| `assembler_caps` | two senders, three ids, caps 2, blacklist 2 | caps, eviction, strikes; `SettledOnce` as a refinement |
| `runtime` | one message of two shards and a parity; time-outs below and above the dead-sender window; one setting changed, one preset reported; steps of 30 s | windows, backoff, pause and time-out under two updaters; every slot ends |
| `nack_off` | the same | a statement of the repository the code does not keep (section 6) |
| `sender` | one send of 2 frames, 4 NACKs, 1 permit, budget 3, 3 tasks | bursts, retransmits and verdicts interleaved |
| `transmit` | a burst and a retransmit of two frames, queue of 1, radio queue of 2, margin 1, two connections | order, back-pressure, time limit; `PacedFifo` as a refinement |
| `wire` | payloads on both sides of every limit, all presets and FEC modes; whole recordings of up to three chunks in every codec mode; bursts of up to 2 frames over a line with 2 disturbances and 2 pauses | framing, NACKs, partial playback, pacing and reading |
| `connection_races` | 2 callers, 2 calls, 2 lost links, 1 attempt | who may touch the slot, and when |
| `connection_retry` | 1 caller, 2 calls, 2 lost links, 1 attempt | a dead link is noticed, a lost one retried |
| `views` | two radios, one section and one channel, two values, a second connection, one refresh or reset, one change elsewhere, one edit, one apply, one listener followed for four of its callbacks, an inbound queue that takes one first burst and no more | mirrors, form and Kotlin |
| `chat` | two texts, a clip, two received sounds, a log of two rows, ids of 3 bits, five mixes of inputs | rows, slots, clips |
| `settings` | two threads, two keys, three calls, one edit of the file, one fault, one crash | file, map and listeners |

Why the bounds are enough. Shards: three data and two parity chunks give a
message that is complete, recoverable with one and with two losses, and not
recoverable; two lengths tell a full from a short tail and an oversized one.
Caps: with two of everything each cap is reached by one sender alone and by two
together, and three ids overflow the blacklist. Runtime: eight steps of 30 s
hold several rounds, the pause and the time-out in every order, and one change
of each kind gives the two updaters every interleaving of their three steps.
Sender: with three NACKs one can be dispatched, one deferred and one arrive
while the deferred one wakes, the smallest case in which a deferral is
re-deferred; the fourth finds the budget of three spent. Transmit: a queue of
one makes callers wait, a radio queue of two and a margin of one have a full, a
marginal and an open state. Wire: the lengths are on both sides of each number
at which a limit bites, so the case between two of them is like its neighbours;
three chunks give a first, a middle and a last one to lose. Connection: two lost
links let the watcher's own connection drop while it is still attempting; two
calls let a connect supersede, a disconnect race, and a refresh run into both.
Views: two values tell an edit from a publication, two radios an old session
from a new one. Chat: a log of two rows evicts at the third. Settings: two
threads that share three calls overlap saves in every order. `SYMMETRY` is used in runs
without liveness only. `assembler_caps` has a `VIEW` without the result of the
last call, which no later step reads.

Deadlock is not checked where a system may come to rest: a finished send, a
service whose callers made all their calls.

## 4. Fairness

* `runtime`: the clock advances and `tick` is called again and again; hosts run
  it on an interval. An updater that started goes on. Nothing is assumed of
  senders.
* `sender`: each task runs on; sleeps and enqueues end, with success or failure.
  Retransmit tasks share one weak fairness condition: a NACK starts finitely many
  of their steps, so some of them is as good as each. Nothing is assumed of sends
  and NACKs.
* `transmit`: the worker runs on and time passes. The radio owes no report, no
  caller a frame, nobody a connection.
* `wire`: the driver keeps asking, the Bluetooth task and the reader's runtime go
  on, and the air does not hold a frame for ever. No notification need arrive.
* `connection_retry`: calls, readers' ends and the watcher go on. No caller owes a
  call, no link owes an end, no device an answer, no probe need fire. Calls share
  one condition and so do readers, for the same reason as above.

## 5. Proofs

`tlapm` checks every step of the modules below. Each theorem holds for every
value of the constants that the named assumptions of its module admit, so for
any number of chunks, messages, tasks, callers or slots; the runs show the same
properties on the instances of section 3.

| Module | Assumptions | Theorems |
|---|---|---|
| `VoiceAssemblerProofs` | `ConstantsAssumption` | `Spec => []P` for `TypeOK`, `ShardCountsMatch`, `ShardLengthsFit`, `LastLenTracksLastChunk`, `ShardsConsistent`, `NothingRecoverableWaits`, `PerSenderCounts`, `SettledIsClosed`, `BlacklistInOrder`, `RoundsMeasureSilence`, `FinalizedAudioAligned`, `NacksNameMissing`; `Spec => ImplementsSettledOnce`: the refinement; with `RuntimeAssumption`, `RuntimeSpec => []CapCoversTimeout` |
| `VoiceSenderProofs` | `RegistryAssumption`, `SenderAssumption` | `Spec => []P` for `TypeOK`, `InflightCountsTasks`, `DeferralHasWakeUp`, `EachChunkOnce`, `OneVerdictEach` |
| `VoiceTransmitProofs` | `TransmitAssumption` | `Spec => []P` for `TypeOK`, `NoLostWakeUp`, `MarginHolds`, `BurstToldTruth`; the safety of `PacedFifo` |
| `VoiceLinkProofs` | `StaleAssumption`, `RequestsAssumption`, `HeardAssumption` | `LinkSpec => []P` for `LinkTruthful`, `FramesSurvive`, `PartialsHeardInTime` |
| `ConnectionProofs` | `ConnectionAssumption` | `Spec => []P` for `TypeOK`, `SlotHasReader`, `WatcherHonoursDisconnect`; `Spec => HealthyKept` |
| `ConfigViewsProofs` | `DeviceAssumption` | `Spec => []P` for `TypeOK`, `MirrorsAgree`, `FormTruthful`, `KotlinCurrent` |
| `SettingsStoreProofs` | `StoreAssumption` | `Spec => []P` for `TypeOK`, `ListenersCurrent`; for `SettledOnDisk` if `~ReloadMayOverlap`; for `BrokenKept` if `~ReloadMayOverlap`, `~SameSecond` and there is one process |
| `ChatLogProofs` | `IdAssumption`, `TextsAssumption`, `SeedsAssumption`, `LineAssumption`, `SoundsAssumption`, `NoneAssumption` | `Spec => []P` for `ScreenTruthful`, `SlotsAwaitAnswers`; `Spec => PlayableStays` |

Why the invariants are not inductive as they stand, and what was added:

* *Assembler.* Counts stay right only while shards lie within the header's
  ranges; evicting an oversized tail needs the remembered length to be that of
  the tail; "nothing recoverable waits" needs lengths and counts together, since
  `CanRecover` reads both; the counts of senders survive an eviction only in a
  finite table; rounds are paid for by silence only while time stamps are ordered
  and a backed-off window is no shorter than the plain one. `SlotInv` says all
  this of one slot (lemmas `PinSound` to `AfterNackInv`), `TableOK` says the rest
  of table, counts and blacklist (`DecCounted` to `KeptTable`), and each action
  preserves their conjunction `Inv`. What is handed out follows from the `SlotOK`
  of the slot it was made of.
* *Settled once.* The list of settled keys is read as a function (`At`). Pruning
  forgets exactly what is over its time (`Forgets`: the list is in time order, so
  counting the expired entries finds them), and pushes lose only the oldest of a
  full list, one push or two in a row (`PushFollows`, `FollowsTwice`). Every call
  of the assembler is then one step of `SettledOnce` (`AssemblesOnce`); the memory it
  promises is the shortest of any configuration the host may set.
* *Runtime.* `Sane` holds of the configuration in force and of every clone, so a
  store that undoes another update still stores a covering cap. The cap's own
  bound of 65 535 rounds never binds (`CapSuffices`): the longest timeout the
  settings accept is shorter than that many of the shortest windows, in any unit.
* *Sender.* A message not yet sent has left no trace (`Fresh`); a deferred NACK
  is there exactly while one retransmit task sleeps for it (`WakeInv`); a run that
  lost its entry has no registry entry (`Gone`). Each chunk is borne by at most
  one task or by the burst, and the pending ones are exactly those
  (`ChunksOK`, chunk by chunk); verdicts are counted per message against what the
  run may still say (`VerdictOK`).
* *Transmit.* `NoLostWakeUp` is strengthened to the worker's states from its look
  at the depth on (`WakeInv`). The margin rests on reports being honest wherever
  they are, on their way, in the cell or in the worker's hand (`Honest`): the slots
  taken now are at most those taken then plus the frames sent since. For the order
  of frames, queue and hand are one line (`HandInv`, `Line`). What a burst is told
  rests on its books (`Books`: frames handled and sent against the ids it holds)
  and on only a waiting caller having a frame under way, and no more than one
  (`OneUnderWay`).
* *Link.* That the next byte will be taken for what it is cannot be said of the
  reader alone: it depends on every byte on the line. While the link is in step
  those bytes have a reading (`HasReading`), a label for each that says to which
  place of which written frame it belongs, or that it is the console's; the reader
  stands where the label of the byte read last says. Writing a frame adds six
  labels, the console adds one, a byte read drops the first. Over Bluetooth what
  was written is what was heard, what the drain holds and what the radio queues
  (`BleInv`).
* *Framing.* `FramesSurvive` is arithmetic on one clip, whose invariant is only
  that it is one of the requests (`ClipInv`). Chunks number the length over their
  size and all are full but the last, which is not empty (`Cuts`); the parity
  resolved fits both the coder and the message's limit whatever FEC mode and
  preset (`ParityFits`); the parser inverts what builds a frame (`ParsesBack`,
  `FrameParses`); and a NACK's bits, taken byte by byte, name the missing chunks
  (`BitsDiffer`, `NackNames`), for every set of them and not only those of the run.
* *Playback.* A frame overlaps a gap exactly when a chunk that holds it is
  missing (`HoldsWhenOverlaps`, `ArrivesFramewise`), whatever the frame and chunk
  sizes. What the recursive walk over an intact recording finds takes induction
  over its length (`FramesFound`). The library's induction theorems take an
  operator, which the installed provers cannot supply, so the module proves the
  principle for a set of numbers (`Induction`) from the well-foundedness of finite
  subsets, which the library states without one.
* *Connection.* The slot holds the newest generation or nothing
  (`NewestInstalled`), and the watcher's attempt in progress belongs to a policy
  that is still set, or to a disconnect that is under way (`TryInv`, `WatchInv`).

* *Views.* Mirrors agree with the snapshot step by step once what a refresher has
  yet to empty is known (`RefreshOK`). Kotlin is current when nothing is left to
  push only if, at every moment, every field of its callbacks is current, still to
  be pushed, or announced; and the nodes on record as pushed must be those Kotlin
  holds, since only differences to that record are pushed (`KotlinInv`).
* *Settings.* Whoever changed the map will save, and whoever saves will publish:
  the file holds the map unless a thread has yet to do either (`DiskInv`,
  `BodyInv`), and likewise the listeners (`TellInv`). A file that could not be
  used is in a backup, or in place with its process warned and no save past the
  point where it is moved aside (`Guarded`, `BrokenInv`). Each hypothesis is
  needed: TLC finds `BrokenKept` violated with a second process, with a reload
  beside other calls, and with two files moved aside within a second, and
  `SettledOnDisk` with a reload beside other calls.
* *Chat log.* A search for the newest row of an id finds the right one because
  no two rows of a kind have the same key (`Unique`). For texts that rests on
  packet ids: those given out are the ones from the first on, round the end of the
  counter (`IdsInv`), so they differ as long as fewer are given out than there
  are. In the code every packet takes its id from the same counter; the model
  counts texts only, so `TextsAssumption` stands for a session of fewer than
  2^32 - 1 packets. While a direct message may be answered, either its slot is in
  the table or its handle holds the first answer there was (`TextInv`), and a row
  is right about its text once the wait has ended (`RowOK`). A row of a clip turns
  playable only by a status that is on the line after the burst (`LinesInv`).
  `PlayableStays` needs that a sender gives each message an id of its own
  (`SoundsAssumption`).

Only model-checked: every liveness property and all fairness (`EverySlotFreed`,
`EverySendEnds`, `DeadLinkLeavesSlot`, `LostLinkIsRetried`, `BurstEndsAndIsRead`
and the liveness half of `PacedFifo`), since `ENABLED` and leads-to are beyond
the prover. Every invariant and every action property that a passing run checks
is also proved.

## 6. What the code does not keep

Shown by a run:

* `nack_off`: switching NACKs off stores a round cap of zero, and `tick` gives
  every unfinished message up at its first tick (`assembler/mod.rs` 353,
  `settings/api.rs` 449).

Met while modelling, in the models as the code has them, and in no run:

* A reassembly timeout of 120 s or less is accepted by the settings and refused
  by the assembler, whose dead-sender window must stay below it: the update is
  only logged, while the sender's retention follows (`app.rs` 243–254). At a
  start with such a timeout the window is clamped to it, and every later update
  with that timeout fails.
* `update_config` clones and stores under two locks; of two concurrent calls one
  may undo the other (`assembler/mod.rs` 107–120).
* After a dead-sender pause the quiet timer lags the clock and NACK rounds follow
  each other on consecutive ticks (`assembler/mod.rs` 446).
* A longer NACK window set while a message waits may end it by rounds before its
  timeout would.
* A status stream may end with two terminal statuses, since the give-up branch
  does not claim the send (`sender.rs` 694); a waking retransmit task may stash
  an older missing list over a newer one (958).
* After one give-up the attempt counter stays at its limit: a user who reconnects
  by hand gets no auto-reconnect any more (`service/mod.rs` 344). Undoing a raced
  attempt, the watcher disconnects whatever holds the slot (386). A failed
  refresh restores a `Configuring` that belonged to another refresh (527–533).
* Nothing cancels pending acks when a connection ends, though `AckResult`
  documents it; a late answer after a reconnect resolves an old slot.
* `drain_from_radio` drops the frames it has read when a later read of the same
  drain fails (`ble.rs` 511–523). A START1 after a stray START1 costs a frame
  (`serial.rs` 267).
* A refresh empties the mirrors one by one after the request is out: an answer
  may be published and then emptied (`service/mod.rs` 541). A finished apply
  clears the mark of a newer edit of the section; the end of a burst clears
  every mark.
* `push_inbound` drops frames when its queue is full; Kotlin is not told that a
  field was cleared.
* A backup name has a resolution of one second: a second broken file within it
  replaces the first one's backup (`settings/api.rs` 1449).
* A status stream subscribed late leaves its chat row at "sending…"; progress of
  a message may overwrite the label of a row already finished (`watchers.rs` 651);
  the index of the row being played is stale after an eviction.
* A partial clip whose last chunk is lost plays longer than it was recorded, as
  that chunk is taken for a full one, though the documentation of
  `payload_duration_ms_with_gaps` calls the duration independent of what arrived.

## 7. Not modelled

Opus (the code calls it deprecated; it has no concealment), signal processing
and codec libraries; the cipher of public-key messages (only which keys are
tried); discovery and pairing, which the platform's stack decides; the command
line, a sequential caller; layout, node list and connection panels of the
desktop; argument conversions of the Android bridge; design tokens. Within the
modelled parts: broadcast sends of the sender, whose NACKs are all dropped; the
search for an unused message id; statuses a slow subscriber misses (the chat log
has them, the sender not); `connect_with_transport` called without a reconnect
configuration; backoff delays, which may be any delay.

Worth adding: the sender, a lossy mesh and the assembler composed into one
exchange.
