# SCMessenger: the way of a message

SCMessenger is a peer-to-peer messenger. A message is encrypted under a ratchet
session, queued in an outbox, sent by the swarm over the routes it knows, and, if
the recipient is offline, *taken into custody* by another node, which stores it,
hands it over when the recipient connects, and spreads the news of the delivery.
The recipient decrypts it, asks whether the sender is blocked, and files it. This
directory models that way in TLA+, checks it with TLC, and proves part of it with
TLAPS. All source references are to `src/`.

## Inventory

| part | state | operations | modelled by |
|---|---|---|---|
| registration registry (`core/src/store/relay_custody.rs`, `RelayRegistry`) | one persisted record per identity: Active, Handover or Abandoned | `register`, `deregister`, `get_state`, `enforce_custody`, collapse of stale handovers on read | `RelayRegistry` |
| custody store (same file, `RelayCustodyStore`) | persisted custody records and their transition log | accept, pull, mark dispatching / failed / delivered, converge, migrate, purge | `RelayCustodyStore` |
| storage pressure (same file) | none: computed from the device's usage | quota bands, purge by policy, write check | `StoragePressure`, `RelayCustodyStore` |
| swarm event loop, relay duties (`core/src/transport/swarm.rs`) | `pending_custody_dispatches`, duplicate window, seen markers, connections | relay request, custody pull, connection established / closed, response, failure, marker, registration request | `SwarmRelay` |
| swarm event loop, sending side (same file), and the CLI daemon that uses it (`cli/src/main.rs`, `cli/src/api.rs`) | `pending_messages`, request maps, drift fallbacks; command and event channels; the daemon's outbox | send, retry tick, responses, failures, markers; the daemon's event loop and HTTP tasks | `SwarmSender` |
| outbox of `IronCore` (`core/src/store/outbox.rs`, `core/src/iron_core.rs`) | queues per peer and a count, in memory | prepare, confirm, flush on identification, drain, maintenance | `CoreOutbox` |
| ratchet sessions (`core/src/crypto/ratchet.rs`, `session_manager.rs`, `encrypt.rs`) | root key, chains, cache of skipped keys, post-quantum keys | encrypt, decrypt, set up, rebuild, reset | `Ratchet` |
| blocking (`core/src/store/blocked.rs`, `core/src/iron_core.rs`) | block entries, device registry, contact; inbox and history of a message | block, unblock, block and delete, learn a device, receive | `BlockedPeers` |
| inbox limits and deduplication (`core/src/store/inbox.rs`, `dedup.rs`) | seen ids with a limit | receive, evict | planned |
| drift store and sync (`core/src/drift/`) | bounded store, sketches | insert, evict, reconcile | planned |
| relay client/server, circuit breaker, dial policy | connection states, counters | connect, fail, back off | planned |
| everything else (routing scores, discovery, NAT, privacy, abuse scores, mobile applications) | | | not planned; see "Not modelled" |

How the modelled parts interact: the event loop of `swarm.rs` is one task that
runs one handler at a time. Its handlers call the store and the registry, whose
every `put` and `remove` is flushed before the next. Around the loop there are
the network and the other nodes, the applications' threads (they read
the registration state through `IronCore::get_registration_state`, and that read
may write), the clock, the rest of the device filling its storage, and the
operating system killing the process.

At a sending node the daemon's event loop and its HTTP tasks talk to the swarm task
over two bounded channels, and each awaits the other. `IronCore` is a set
of stores, each with its lock, that the swarm task and the application's threads
call: what one of its calls does is atomic store by store, not as a whole.

What makes it hard: answers, failures, disconnects and delivery markers of the
same message arrive in any order; a record may be purged or migrated while its
request is in flight; senders repeat requests; the process dies between two
writes; limits (queue, requests in flight, attempts, storage, skipped keys)
interact; tasks wait for each other; a store is asked, unlocked, and written on the
strength of the answer.

What should hold: custody is never lost without a trace, never duplicated, and
its log is true; at most one request per record is in flight; the limits are
kept; a queue follows the device its identity is registered to; an identity
does not change hands without consent; every record is eventually dispatched and
settled (it is not where spent records crowd it out). At the sender: what is told to be delivered was accepted, what was not
accepted is kept, waits end. In a session: no key serves two messages, and no
message is lost but to a limit. A block is in force from its first row on and is
undone by an unblock.

## Modules

**`StoragePressure`** — the quota arithmetic of `StoragePressureContext`, as
operators on natural numbers (`from_snapshot`, `hard_ceiling_bytes`,
`target_quota_bytes`, `emergency_mode`). Sums saturate and products are `u128`
in the code, so nothing wraps.

**`RelayRegistry`** — `regs[i]` is the registration record of identity `i`;
`reader[i]` is what a query on an application thread has read and not yet
written back; `owner[i]` is a history variable (the last device that
registered, and whether it has let go since). The operators `register_allowed`,
`register_effect`, `deregister_allowed`, `deregister_state`,
`deregister_effect` are the `match` arms of the two functions. The age of a registration stands for
`now - updated_at_ms` (Active) or `now - initiated_at` (Handover) and stops at
`AgeCap`, beyond both windows. The seniority timestamp, which the code only
stores, is left out. Every read goes through `get_record_by_identity_id`, so
even a refused request may collapse a stale handover (`Refused`).

**`RelayCustodyStore`** — the store as operators on its contents `s`:
`s.recs` maps custody ids to records, `s.closed` is the set of log entries that
announce a removal. Custody ids are numbered in the order of acceptance, the
order the code sorts by (`accepted_at_ms`, then the id). `Delivered` never
appears in a stored record, because `mark_delivered` removes instead of
storing. `CloseCut`, `ClosePrefixes` and `SideEffectPrefixes` give what a crash
inside an operation leaves behind. `BytesOf` is the sum of the serialized sizes,
counted as the number of bytes <<record, position>>. A record is the relay's own if its destination is the
relay's peer id; the code also compares the source, which for a relay request
is always another peer.

**`SwarmRelay`** — a relay at work, one action per handler:

| action | handler |
|---|---|
| `RelayRequestKnown`, `RelayRequestTaken`, `RelayRequestPressed` | Relay `Request`: message already in custody; taken; refused for want of room (with the purges already made). Each ends with the immediate dispatch of the handler. Requests refused earlier, and duplicates within the window, change nothing |
| `CustodyPull`, `ConnectionEstablished`, `ConnectionClosed` | the pull timer and the two connection events |
| `DispatchDelivered`, `DispatchFailed`, `LateOutcome` | Messaging `Response` and `OutboundFailure` |
| `MarkerReceived` | marker on the convergence topic |
| `RegistrationRegister`, `RegistrationDeregister`, `RegistrationRefused` | Registration `Request`, with the side effect on the queue |
| `DestinationAnswers`, `DeliveredElsewhere`, `RegistrationQuery`, `TimePasses`, `WindowExpires`, `SetBlocked`, `SetUsage` | the world outside the loop; what the rest of the device uses (`SetUsage`) leaves room for what is stored |
| `Crash` and `Crash...` | the process dies between two handlers, or inside the one named, and restarts with the store and the registry only |

`dispatch_pending_custody_for_peer` is the operator `dispatch_pending_custody`:
blocked peers are skipped, the oldest `PullLimit` Accepted records are pulled,
records at the attempt limit are passed over, and the cap on requests in flight
is shared; the pull over all connected peers goes through them in any order
(a `HashMap` in the code). `answers` holds the outstanding requests and
what the destination has done with each; requests still outstanding when the
last connection closes are gone with it. `orphaned` is a history variable: the
identities whose queue missed a side effect, by a collapse on read or a crash.

**`CustodyContract`** — what a relay promises, without any of its machinery: ids are given
once (`Take`, of a key that is not held, after a purge), and what is held is given up
only with a log entry (`GiveUp`), which for a delivery is about a key that its
destination has (`Receive`). **`SwarmContract`** states that `SwarmRelay` implements it: what
is held are the stored records, the log is the closing entries of the transition log.

**`SwarmSender`** — one sending node, one destination and the relays. The daemon:
`HandlePeer`, `HandleEvent`, `SendFromUi`, `LoopReply` are the branches of its event
loop, `SendFromApi` and `ApiReply` an HTTP task, and `loop` is the message the event
loop awaits with those `flush_outbox_for_peer` still has to send. The swarm task:
`SendMessage` and `NoPaths` take a command, `Retry` is the retry tick for one entry
of `pending_messages`, `Response`, `OutboundFailure` and `Marker` are network
events, `Connect`, `Disconnect` and `EmitEvent` those that go to the application;
`blocked` is the event for which the task awaits room. The others: `Answer` and
`RelayDelivers`. An id is the millisecond in which the command is taken up, as in
the code, so two commands may share one; what a shared id does to the two messages
is modelled, and the properties about a single message leave such messages out.
Which relays a ranking holds and in which order is left open at every tick.

**`CoreOutbox`** — `outbox` is the content of all queues, `total` the count the memory backend
keeps beside them, `flush` what `handle_peer_connection_event` has taken out and not
put back, between two of its lock scopes. `Prepare`, `MarkMessageSent`,
`FlushPeerMessages`, `FlushOne`, `DrainForPeer`, `PerformMaintenance` and
`HandleEvent` are the calls. `drift` is the drift store as these calls use it: `insert`
is `MeshStore::insert`, which over its limit evicts the envelope with the lowest
`priority_score`. Envelopes made here have one priority and no hops, so that the score
orders them by age, and is 0 for all whose time to live (`Ttl`) is over. Times keep the
units of the code: the clock in seconds, `queued_at` in milliseconds. `excused`, `evicted`
and `raced` are history variables: the messages that are nowhere for a reason, the
envelopes the drift store dropped, and the messages confirmed while the flush had them.

**`Ratchet`** — two parties with each other's bundle. Keys are terms: a
Diffie-Hellman output is the set of its two keys, a root key the sequence of what was
mixed into it, a message key its chain and number; a message opens exactly if the
receiver derives the sender's term. `Send` is `encrypt_with_ratchet_fallback` with
the set-up of a session, `Receive` is `decrypt_with_ratchet_fallback` with the trial
on a clone, the cache of skipped keys, the post-quantum fields and the rebuild after
a failure; `Restart` loses all sessions (they are in memory only),
`ratchet_reset_session` one. `wire` keeps every message, and any of them may arrive at
any time, again or never. `filing` tells the two ways in which callers name sessions:
`IronCore` sends under the public key and receives under its hash ("split"); under
one name for both ("shared") the two directions use one session.

**`BlockedPeers`** — one peer under its three names and their prefixed forms.
`block_peer`, `unblock_peer` and `block_and_delete_peer` are sequences of steps, each
under the lock of one store; `Step` takes the next one, and the receiving threads
(`Check`, `FileInInbox`, `FileInHistory`) run in between. `Crash` cuts a step between
any two of its rows (`block_writes`, `cut_unblock`). History variables: `barred` (a block
of the whole peer is in force, however it named the peer), `enforced` (one that
`receive_message` finds), `revealed` and `purged` (the last call was an unblock, or a
deletion, and is past its writes), `spared` (the messages such a call did not reach),
`mixed` and `torn`.

**`MCRelayRegistry`**, **`MCSwarmRelay`**, **`MCRatchet`**, **`MCCoreOutbox`** — values
of the constants, and symmetry sets, for TLC.
**`SwarmCustodyProofs`**, **`SwarmDispatchProofs`**, **`SwarmStorageProofs`** (registry,
custody store and relay), **`SwarmSenderProofs`**, **`CoreOutboxProofs`**,
**`BlockedPeersProofs`**, **`RatchetProofs`**, **`RatchetReceiveProofs`** — the proofs.

Operators whose name ends in `_MUT` are plausible defects of the definition that
follows them; replacing that definition by its defect must violate the property
`PROJECT.json` pairs it with. No specification uses them.

Abstractions: envelopes, peer ids and message ids are model values; the log is
reduced to its closing entries; the hourly budget, token buckets and spam score
of the guardrails only refuse requests and are covered by requests that do not
arrive; errors of the storage backend are not modelled; the filesystem probe is
taken to be consistent with the store; the native loop is modelled, not its
wasm32 copy; `IronCore`'s own calls of converge and storage enforcement have no
caller in the repository. Relay and sender are not composed: in `SwarmSender` a relay
that has accepted keeps the message until it hands it over, which is what the
properties of `SwarmRelay` say of it short of a purge.

## Runs

| run | instance | shows |
|---|---|---|
| `registry` | 2 identities (one queried by the application), 3 devices, windows of 1 and 2 | `IdentityPassesByConsent`, by the invariant `OwnerHolds` |
| `dispatch` | 3 messages, 1 destination, room for 1 in the queue and 2 in flight, 2 attempts, 3 custody ids, 1 crash, one of the messages also delivered elsewhere | `NoSilentLoss`, `DeliveredIsTrue`, `OneRecordPerMessage`, `DispatchExclusive`, `DispatchTracked`, `QueueBound` |
| `registration` | 1 identity, 2 devices, 2 messages with every hint, 1 crash, queries | `QueueFollowsDevice`, `NoSilentLoss`, `GoneForGood` |
| `pressure` | device of 20 bytes, messages of 2 and 3, other usage 8 or 16, own and foreign messages, blocking, 1 crash | `ImplementsContract`, `WriteBelowCeiling`, `OwnMessagesLast` |
| `liveness` | 2 messages for each of 2 destinations, 2 custody ids, pull of 1, 1 slot in flight, 2 attempts, one of the messages also delivered elsewhere, no crash, fairness | `EveryRecordSettles` |
| `ratchet` | both filings, 5 messages, cache of 1, a post-quantum step at every message, 4 key pairs each, 1 restart or reset | `NoKeyReuse`, `KeysAccounted`, `OpenedOnce`, `RefusedIsTooFar`, `CommitOnSuccess` |
| `sending` | 1 message in the outbox, 1 sent by the user, as a receipt or over HTTP, 1 relay, event channel of 1, 3 milliseconds, fairness | `NoSilentDrop`, `OkIsHonest`, `AwaitEnds`, `RetrySettles` |
| `blocking` | 4 of the 5 forms of naming, 1 device, 1 message, any 3 calls, 1 crash | `BlockHolds`, `HiddenWhileBlocked`, `UnblockClears`, `UnblockReveals`, `PurgeHolds` |
| `outbox` | 3 messages, 2 peers, room for 2, 2 refused or 3 taken hand-overs, drift store of 2, 3 instants, 1 restart | `TotalExact`, `NoSilentLoss`, `ConfirmedLeaves`, `AttemptsSpaced` |
| `lookup_race` | registry, 1 queried identity | violated: `LookupNeverDislodges` |
| `restart` | 1 message, 1 crash, fairness | violated: `CustodySurvivesRestart` |
| `exhausted_head` | 2 messages, pull of 1, 1 attempt, fairness | violated: `EveryRecordTried` |

Bounds. The limits of the code (10 000 queued, 12 attempts, a pull of 64, 256
skipped keys, a post-quantum step every 100 messages, 256 events) are constants; the
runs give them the smallest values at which a limit is reached and exceeded. The bounds
that are not in the code have names of their own, and their declarations say "bound".

* Relay. Windows of 1 and 2 ticks have an age below, at and beyond each. Three custody
  ids allow a message to be taken again after its record is gone while another is
  still held. One crash is enough for the safety properties, since a crash is possible
  in every reachable state, including inside handlers. The usages of `pressure`, with
  what the store adds to them, put the device in every band but the lowest, and in the
  emergency. Messages and devices are
  interchangeable in the runs that use symmetry: all messages have the same size and the
  hints name every device.
* `liveness`. Both records may be one destination's, so that the second waits behind one that
  keeps failing, and in the end behind a spent one, or of one destination each, which
  then compete for the slot. With a pull of 2, three messages and one attempt for a single
  destination, where one spent record does not keep the third one back and two do, the
  property holds as well, on 15 374 states.
* `ratchet`. Five messages let one party run ahead of a cache of one by two, the other
  one answer so that the chains turn, and the rest arrive late. Four key pairs each
  are a session, two turns and a rebuild. `MaxSteps` is out of reach, as 10 000 steps
  are in the code.
* `sending`. An event channel of one is full after one event, so the swarm task gets
  stuck as soon as the event loop is busy. Three milliseconds let the two messages share
  an id or not, and the one in the outbox be sent again under a new id. One request in
  flight per id; with two (`MaxCopies = 2`) the invariants hold on 1.9 million states,
  which is too much for the liveness properties.
* `blocking`. Three calls are a block, another one under a second name or a device
  learnt, and the unblock. One crash may cut any of them. The forms are the tagged and the
  bare public key, the identity id and the libp2p id. The tagged identity id is left out:
  it is stored and looked up like the bare one, except that no contact is found under it
  (the proofs are about all five).
* `outbox`. The total limit is hit with both peers' queues below their own; with a limit
  of 1 per peer, 2 in all and 3 peers, the properties hold on 1.7 million states. The instants
  1, 3, 7 allow a hand-over at the time-outs of 2 and 4 seconds, after the first of them, and
  before either, within one instant. Three messages overfill a drift store of 2; its envelopes live for 3
  seconds, so that all, some or none of them are past their time.
  `PerformMaintenance` fires and changes nothing, see below.

Fairness. Relay (`FairSpec` of `SwarmRelay`): the pull timer keeps firing
(`custody_pull_interval`); a request in flight is answered, fails or times out (libp2p's
request-response protocol reports an `OutboundFailure` at the latest when its timeout
expires); a disconnected destination reconnects some day, which is an assumption on the
world without which nothing can be delivered. Nothing is assumed about senders,
markers, registrations, or destinations answering "accepted".
Sender (`Fairness` of `SwarmSender`): the tasks of the tokio runtime make progress (event
loop, swarm commands, room in the channel), the retry interval keeps ticking for every
entry, every request ends. `AwaitEnds` needs no more: no peer has to answer, because the
first complete pass over the routes is reported as an error. `RetrySettles` adds, as its
own premise, a destination that in the end stays connected and is not unlucky for ever.

### What the violated runs show

* `lookup_race`: `get_record_by_identity_id` reads a stale handover and
  persists its collapse in a second step. On an application thread, a
  registration completed in between is overwritten with `Abandoned`, and a
  third device can then register at once.
* `restart`: `mark_dispatching` is durable, the table of requests in flight is
  not. A relay killed with a request in flight restarts with the record in
  state `Dispatching`, which `pending_for_destination` does not return.
* `exhausted_head`: a record at the attempt limit stays `Accepted`, is pulled
  first every time and refused every time. As many of them as the pull takes
  keep everything younger from being dispatched.

### What the passing runs leave as exceptions

Some properties hold only with an exception, which they state. The exception is what
the code does, and worth knowing:

* `AwaitEnds`, `Wedged`: the event loop awaits the swarm's reply to a message it sends
  from the handler of an event; the swarm task awaits room in the event channel, which
  only the event loop empties. With the channel full (256 events in the code) neither
  goes on.
* `OkIsHonest`: Ok means that the destination *or a relay* accepted. The comment in
  `cli/src/api.rs` ("the swarm replies only after the recipient accepted the message")
  says less than all: a relay's acceptance is reported as Ok as well
  (`core/src/transport/swarm.rs`, the Relay `Response`), and the outbox entry is cleared.
* `NoSilentDrop`, `Shared`: two commands taken up in one millisecond share an id; the
  second replaces the entry of the first, and the answer to either settles what is left.
* `RefusedIsTooFar`: a receiver that restarts while its peer is more than 256 messages
  along a chain that has not turned cannot read that chain any more, until the sender
  starts a new session; the rebuild in `decrypt_with_ratchet_fallback` ("instead of
  dropping the message") does not help there. With sessions shared by both directions,
  a responder that never learnt an encapsulation key sends its 100th message without
  the fields its peer then demands; `IronCore` does not file sessions that way.
* `ConfirmedLeaves`, `raced`: a receipt that arrives while the flush holds the message
  finds nothing to remove, and the flush puts the message back.
* `EveryRecordSettles`, `Crowded`: a record behind as many spent ones as a pull takes is
  never reached; this is what `exhausted_head` shows.
* `NoSilentLoss` of `CoreOutbox`, `evicted`: over its limit the drift store drops a message,
  and the one who prepared it is not told. It is never dropped for an older one while its
  time to live lasts, but it may be the one just prepared, when all are of one second.
* `NoSilentLoss` of `CoreOutbox`, `excused`: a message prepared for a peer that the transport
  holds as linked is kept nowhere; the caller has the only copy. A message the flush took
  out and cannot put back, because others filled the queue meanwhile, is gone. So is one
  that was refused or drained, and the whole outbox at a
  restart: `IronCore` opens it on the memory backend, although
  `HANDOFF/review/P2_VERIFICATION_GATE.md:89` says "Outbox is sled-backed; changes are
  automatically durable".
* `PerformMaintenance` ("Remove expired outbox messages older than 7 days") subtracts a
  time in milliseconds from one in seconds, with saturation, and so removes nothing:
  messages that are `Failed`, or never confirmed, occupy their queue for good.
* The comment of `handle_peer_connection_event` ("On success: marks message as sent
  (removed from outbox)", "On persistent error ... re-enqueues with backoff for later
  retry") is not what it does: a message handed to a transport stays in the outbox until
  confirmed, and one refused three times becomes `Failed` and is not retried.
* `UnblockClears`, `torn`: an unblock cut by a crash may leave entries of devices that
  the next unblock does not find, because the registry that listed them is gone, although
  `unblock` promises to remove "all device-specific blocks for that peer". `mixed`: entries
  made under the bare public key or the libp2p id are found again only under that name.
* `UnblockReveals`, `torn`: such a leftover entry of a device hides the messages of that
  device that arrive after the next, complete unblock. It takes a crash and four calls,
  one more than the run `blocking` makes: the proof attempt found it, and TLC confirms it
  with `MaxCalls = 4`.
* `BlockHolds`, `enforced`: `block_peer` by the libp2p id, without a contact under that id,
  writes the one row of that id. The transport checks it; `receive_message`, which asks for
  the public key and with it the identity id, does not, so that messages of the peer
  which arrive by way of a relay are filed and shown.
* `PurgeHolds`: `block_and_delete_peer` removes the conversation of the name it was given,
  and messages are filed under the identity id. By the bare public key it removes none of
  those already there, although `store/blocked.rs:50` says "all existing stored
  messages are purged", but what arrives later is dropped. By the libp2p id it removes none either,
  and, without a contact, drops none: the property leaves that form out.
* `UnblockReveals`, `PurgeHolds`, `spared`: a message past its block check when the history
  is unhidden or purged is filed afterwards, as the check saw things.

## Proofs

Every invariant, action property and refinement that a passing run checks is also proved,
for every value of the constants; the liveness properties are not. Every temporal
theorem has the same shape: an inductive invariant, one lemma for each kind of step, and
the property from the invariant. A lemma such as `StepKinds`, `NextKinds`, `LoopSide` or
`StoreStep` first divides `Next` into a few kinds of step and says what each does to the
state; the preservation lemmas then work from the kinds and not from the actions.

| theorem | states | module |
|---|---|---|
| `RegTyping`, `Ownership`, `Consent` | `RegTypeOK`, `OwnerHolds`, `IdentityPassesByConsent` | `SwarmCustodyProofs` |
| `Typing` | `TypeOK` of `SwarmRelay` | `SwarmCustodyProofs` |
| `NeverRevived`, `NothingLost`, `OneRecord`, `QueueFollows`, `DeliveredTrue`, `ContractKept` | `GoneForGood`, `NoSilentLoss`, `OneRecordPerMessage`, `QueueFollowsDevice`, `DeliveredIsTrue`, `ImplementsContract` | `SwarmCustodyProofs` |
| `OneRequestPerRecord`, `EveryDispatchTracked`, `QueuesBounded` | `DispatchExclusive`, `DispatchTracked`, `QueueBound` | `SwarmDispatchProofs` |
| `WritesFit`, `OwnPurgedLast` | `WriteBelowCeiling`, `OwnMessagesLast` | `SwarmStorageProofs` |
| `SenderTyping`, `OkHonest`, `NothingDropped` | `TypeOK`, `OkIsHonest`, `NoSilentDrop` | `SwarmSenderProofs` |
| `OutboxTyping`, `CountsExact`, `NothingLost`, `ConfirmedGone`, `HandOversSpaced` | `TypeOK`, `TotalExact`, `NoSilentLoss`, `ConfirmedLeaves`, `AttemptsSpaced` | `CoreOutboxProofs` |
| `BlockedTyping`, `BlockSeen`, `BlockedHidden` | `TypeOK`, `BlockHolds`, `HiddenWhileBlocked` | `BlockedPeersProofs` |
| `PurgeLasts`, `UnblockLasts`, `UnblockShows` | `PurgeHolds`, `UnblockClears`, `UnblockReveals` | `BlockedPeersProofs` |
| `RatchetTyping`, `KeysUsedOnce` | `TypeOK`, `NoKeyReuse` | `RatchetProofs` |
| `OpenedOnlyOnce`, `NoKeyLost`, `FailureChangesNothing`, `RefusedOnlyFar` | `OpenedOnce`, `KeysAccounted`, `CommitOnSuccess`, `RefusedIsTooFar` | `RatchetReceiveProofs` |

### Assumptions

The constants are constrained only where the code constrains them. The ones that are not
mere types:

* `Nil` (`None`) is none of the values it stands beside (`BlockedAssumption`,
  `SenderAssumption`, `RatchetAssumption`): Rust's `Option` keeps them apart.
* `MaxErrors <= MaxQueued` (`OutboxAssumption`; 3 and 12 in the code): otherwise a message
  refused by the transport could count more attempts than the type allows.
* A conversation has two parties (`RatchetAssumption`), and the sender's set of relays is
  finite (`SenderAssumption`).

### Registry and custody

`OwnerHolds` is the strengthening that makes `Consent` inductive: consent alone says
nothing about which device an Active record names. `CollapseHolds` shows that a collapse
on read does not disturb it: a handover has been let go of already.

What the operations of the custody store preserve is proved for every store. The central
notion is `Follows(s, t)`: store `t` holds no record that `s` does not, the records that
stay keep their message, destination and identity, and a record that is gone has a log
entry. Every operation but `put_message`, done or cut by a crash, leads to a store that
follows.

On top of it, for the composed `Spec`, every limit, every verdict of the storage policy and
any number of crashes:

* `NeverRevived`, `NothingLost`, `OneRecord`. `StepKinds` divides the steps into those that
  take no message (the store follows), those that take one (`TakesFrom`: purge, put,
  dispatch) and those that change a registration. None of the three is inductive without
  `HeldBelow` (only ids already given are held): without it a new record could overwrite an
  old one.
* `QueueFollows`. A taken message is kept for the device that `enforce_custody` let through
  (`TakenAtDevice`), other identities' records are not touched (`OthersAtDevice`), and a
  registration, handover or abandonment moves or purges the whole queue of its identity,
  because before it the whole queue was at the device that the registration named.
* `ContractKept`, the refinement. `Kept` states the steps of the contract on the relay's
  state; `HandlerKept` and `OtherKept` show that every handler, every step of the world and
  every crash is one of them. A closing writes its log entry first, so that a cut one is a
  `GiveUp` that keeps a record (`CloseCutGivesUp`).
* `DeliveredTrue`. Neither this nor the refinement is inductive without `Truthful`: a
  request is about the message of the record whose id it carries, as long as that record is
  held, an accepting answer is about a message received, and so is every marker. Its proof
  uses `HeldBelow`: an id given again would turn a late answer into one about another
  message.
* `OneRequestPerRecord`, `EveryDispatchTracked`. `Exclusive` and `Tracked` relate any store
  to any set of requests, and `InStep` says that an operation on both keeps them: this is
  what lets the parts of a handler (converge, fail, dispatch again) be composed. Ids of new
  records are unused by requests because of `HeldBelow`.
* `QueuesBounded`. The queue alone is not bounded inductively; `Live` is: the records that
  wait for a destination or will wait when their request fails. Only a taken message adds
  to it, and one is taken below both limits.

So far the proofs never open the storage policy: they hold for whatever set of records
`enforce_storage_pressure_for_write` decides to keep, and for whatever `Served` selects
among the pending records. The last two are about the policy itself:

* `WritesFit`. The bytes of a set of records are counted as a finite set
  (`BytesStored`), so that the laws of sums are laws of cardinality: fewer records have no
  more bytes (`FewerBytes`), a new one adds its own (`OneMoreRecord`). A write that may go
  on fits below the hard ceiling for what the *probe* says the rest of the device uses
  (`RoomSpares`); that this is what it really uses needs the invariant `DeviceHolds` (store
  and rest fit the device together), because `from_snapshot` cuts at the device's size.
  `DeviceHolds` is in turn kept by the theorem, so the two are proved together
  (`BytesStep`).
* `OwnPurgedLast`. `Spares(s, K, A)`: cutting `K` down to `A` loses no message of the
  relay's own while one of someone else is left. One purge by policy spares, whatever
  number of bytes it is asked for (`PolicySpares`: what goes before a message of someone
  else goes before the relay's own, and has no more bytes), and sparing is transitive,
  hence the up to four purges of one write spare together (`WriteDecision`). A crash
  leaves the last victim logged but in place, which `SparingPurge` allows for. A
  registration change that purges shows in the registrations (`EffectPurges`), which is
  how the property tells the two kinds of purge apart.

### Sender and outbox

`SenderInv` adds three facts to the properties: the message the event loop awaits is one of
the outbox while it flushes (`LoopOK`); entries and requests are about a message that was
given their id (`AllNamed`), which is where messages that share an id drop out; and a
request answered "yes" went to a peer that has the message (`YesIsTrue`).

The invariant `IInv` of the outbox adds

* `Placed`: a message is at one place only and was prepared. Without it the removal of a
  confirmed message could take out two and lower the count by one, and putting a message
  back could count it twice;
* `Spaced`: the retry time of a queued message is its last hand-over plus that time-out,
  and what the flush holds was due. The second half is stable because the clock does not
  go back (`TickIInv`);
* `Kept` and `Carried`, the parts of `NoSilentLoss`: what is prepared and unconfirmed is at
  one of the places or accounted for, and what the drift store dropped was older than, or as
  old as, all that it kept, or past its time. `InsertCarried` shows it for one insertion, from
  `ScoreOrder` (among envelopes within their time the score orders by age). `ExpiredOverdue`:
  what maintenance takes for expired is;
* for the type, `Unspent`: what may still be handed over has an attempt left.

`RemovalCounts` and `EnqueueCounts` do the counting once for all the operations, with the
library's facts about the cardinality of finite sets.

### Blocking

A call is a sequence of steps left to do (`todo`), so the invariants speak about the
steps still to come as well as about the stores:

* `BlockSeen`, `BlockedHidden`: `Phases` says which kinds of step a call still has and what is not
  claimed meanwhile; `InEffect` that a block in force has an entry of the whole peer, and one
  that `receive_message` is to find has it under the public key or the identity id; `Shielded` that what was checked under it will be
  filed as hidden.
* `PurgeLasts`: `DeleteFirst` (the entry with `is_deleted` comes before the purge of the
  history) and `Purged`.
* `UnblockLasts`, `UnblockShows`: every entry of a device must be in the registry that
  unblock goes through (`Accounted`: `KeyRows`, `Registered`, `RegisterFirst`); then
  `Lifted` and `Revealed` follow the entries and the hidden messages to the end of the
  call. A torn unblock breaks `Registered`, hence the exception `torn`.

### Ratchet

Proved for both ways of filing sessions, any limit of the cache, any cadence of the
post-quantum step and any number of messages, key pairs and restarts:

* `KeysUsedOnce`. `Dated`: every key pair that occurs was generated already, so a fresh one
  occurs nowhere. `Distinct`: the two key pairs last mixed into a sending chain tell chains
  apart, and a chain's next number is above all those sent with it.
* `OpenedOnlyOnce`, `NoKeyLost`, from `AllReceived`: cached keys and opened messages belong
  to chains shorter than the root key, and those of the current chain lie behind its index
  (`CacheBehind`, `OpenedBehind`); every position behind the index is accounted for
  (`Accounted`). A ratchet step starts a longer chain, hence a new one.
* `FailureChangesNothing`, from the two: a rebuilt session has a new name, and opening or
  sending always changes a history.
* `RefusedOnlyFar`. `Bootstrapped`: with IronCore's filing the sessions that send never
  receive, so that all they send carries what the first root key is made from.
  `RebuiltOpens` shows that a session rebuilt from it derives the same root key
  (`BootAgrees`) and reaches every number up to `MAX_SKIP_KEYS` (`ChainReaches`).

### Only model-checked

`EveryRecordSettles`, `AwaitEnds` and `RetrySettles` are liveness under
fairness, which is outside the prover's reach.

## Not modelled

* Inbox limits and deduplication, the messages that the drift store carries for others and
  its reconciliation, the relay
  client and server, the circuit breaker and retry policy, the routing engine's negative
  cache, the peer ledger: stateful, within reach, not done yet.
* The wasm32 variant of the swarm loop: a second copy of the handlers.
* Ratchet: the classical V1 sessions, suite 0x02, the negotiation of suites, and the
  import of a backup, which rewinds the chains to those of the backup.
* Cryptographic primitives, wire formats, onion wrapping, padding: byte-level computation
  without interleaving.
* Ranking of routes, transport selection, abuse and reputation scores, cover traffic:
  heuristics on measurements; the models leave their outcome open.
* Discovery, bootstrap, NAT traversal: network I/O; its effect, who is connected, is free
  in `SwarmRelay` and `SwarmSender`.
* The mobile and web applications, except for the registration query.
* Errors of the storage backend.

## Plan

1. The sender composed with `CustodyContract`: what an acceptance is worth if the relay
   may purge.
2. Inbox and deduplication at their limits, both backends against one abstract
   specification, against redelivery.
3. Drift store and reconciliation; circuit breaker and retry policy; relay guardrails
   with their token buckets.
