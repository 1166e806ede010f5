# A verification of skcomms in TLA+

skcomms carries messages between sovereign agents over whatever rail works: a
shared directory, Syncthing, HTTPS between servers, a Nostr relay, a radio and
others. Its promise is that a message that was accepted is not lost, is not
delivered twice, and is confirmed only when it has arrived. Almost nothing in
the package holds a lock across a file and a network operation, several
processes share its directories, and most of its failures are silent. That is
what these modules are about.

Paths below are relative to `src/src/skcomms/` unless they say otherwise.

Run a check with `tlc -config MCStores.cfg MCStores`, a proof with
`tlapm Outbox_proofs.tla`. `PROJECT.json` lists components, runs, mutants, the
source lines of each definition, hazards and theorems.

## 1. Inventory

| Component | State it keeps | Operations | Module |
|---|---|---|---|
| Persistent outbox (`outbox.py`) | one JSON file per envelope in `pending/`, `dead/` | `enqueue`, `retry_all` and its thread, `remove`, `mark_dead`, `requeue_dead`, `purge_dead`, `prune_dead` | `Outbox`, `DurableQueue` |
| Acknowledged delivery (`ack.py`, `core.py`) | one ACK file per message; holds in the outbox | `send`, `receive`, `track`, `process_ack`, `check_timeouts`, `sweep_ack_timeouts` | `Delivery` |
| Engine and cryptography (`core.py`, `crypto.py`, `signing.py`, `pq*.py`) | key store, peer records, prekeys | sign, seal, open, verify | `Sealing` |
| Router (`router.py`) | failure counters, cooldowns, backoffs, quarantine, seen ids, in memory | `route*`, `receive_all`, quarantine and re-probe | `Router`, `FileRail` |
| Rate limiter (`ratelimit.py`) | a token bucket per rail and per peer | `allow` with refill and refund | `RateLimit` |
| File and Syncthing rails (`transports/file.py`, `syncthing.py`), provisioning (`syncthing_rail.py`) | envelope, temporary and archive files; the Syncthing configuration | `send`, `receive`, trimming, pruning; `provision_rail` | `FileRail`, `Syncthing` |
| Chunked files (`transports/file.py`) | one state file per transfer | `send_file`, `resume_file` | `Transfer` |
| Other rails (`transports/nostr.py`, `websocket.py`, `ble/`, `lora/`) | seen ids, sockets and threads, filters, queues | send, receive, flood, drain | `Nostr`, `Socket`, `Radio` |
| WebRTC and signaling (`signaling.py`, `transports/webrtc*.py`, `p2p_*.py`) | rooms, peer entries, sessions, one GPU permit | join, relay, offer, answer, hang up | `Signaling`, `WebRtc`, `Sessions` |
| Federation gate (`federation.py`, `api.py` `post_inbox`, `store_forward.py`, `http_s2s.py`) | SQLite nonce store, seen events of the puller | `accept_signed`, `post_inbox`, `pull`, `send` over HTTPS or relay | `Federation` |
| Consent gate (`consent*.py`) | contacts, knocks, tokens, greylist (SQLite), policy and ban feeds (JSON, YAML); groups and captchas | classify, accept, decline, block; join, invite, moderate | `Consent`, `GroupConsent` |
| Discovery (`skfed_*.py`, `discovery.py`) | the signed directory of a realm, its cache elsewhere | announce, re-address, resolve | `Directory`, `RealmCache` |
| Trust stores (`tofu.py`, `peers.py`, `pairing*.py`), identity backup (`trustbackup.py`) | pins, peers, keys, archive | pin, pair, re-pin; back up, restore, gate | `Trust`, `Backup` |
| Message queue (`queue.py`), outbox migration (`outbox_migrate.py`, `paths.py`) | pairs of files; what an older release left | enqueue, drain, purge, adopt; migrate | `MessageQueue`, `Migration` |
| Mailboxes (`mailbox.py`), conversations (`api.py`) | sealed letters and records in a shared tree | send, sweep, prune; list and page | `Mailbox` |
| Pub/sub (`pubsub*.py`) | subscriptions, bridged agents | publish, subscribe, bridge | `PubSub` |
| Heartbeat (`heartbeat.py`) | one file per node | publish, start, stop, discover | `Heartbeat` |
| Access plane (`access/`) | `grants.yml`, what the server merged | grant, revoke, launch, call a tool | `Access` |
| Channel adapters (`adapters/`) | watermarks, inbound tasks | start, stop, poll, dispatch | `Adapters` |
| HTTP API, CLI, MCP server, housekeeping | none of their own | call the operations above | where they write |
| Glossa, operations (`glossa/`, `metrics.py`, ...) | none that two steps share | | not modelled |

### How they interact

`SKComms.send` wraps a message and routes it. The router selects the rails
that suit mode, recipient and wire format and are neither cooling down nor in
quarantine; it tries them in order, or all of them in broadcast mode, and ends
with the store-and-forward rail. What no rail took goes to the outbox, whose
thread sends it again later, through the same router. What was only *queued*
by a rail (written to a file) is held in the outbox, marked `awaiting_ack`,
and an ACK file is written; `receive` removes the hold when the peer's ACK
comes, and dead-letters it after the ACK horizon. At the far end a file rail
archives what it reads and the router drops repeated ids; a message that comes
in over HTTPS or the relay must first pass the federation gate (signature,
freshness, nonce), then the consent gate.

### What is hard

- *Interleavings.* The retry threads of several processes, ACK timers, callers
  of `enqueue` and the operator's CLI work on one directory; senders share a
  router and token buckets without a lock; two HTTP processes and the puller
  share a nonce store; commands load, change and save whole JSON and YAML
  stores through one temporary name.
- *Crashes* between two file operations, or inside `write_text`, which first
  truncates.
- *Unreliable delivery.* Lost or late answers, duplicated and forged ACKs,
  copies of one message over two rails, signals and frames in any order.
- *Time.* Backoffs, cooldowns, ACK horizons, the freshness window, the life of a
  nonce, of a cache and of a heartbeat race with each other.
- *Await points.* A coroutine that was suspended finds another room, entry or
  session than the one it looked up.
- *Limits.* `max_pending`, `max_retries`, the depth cap of a directory, the
  sweep batch, the bound of the seen ids, one GPU permit, airtime.

`PROJECT.json` lists the hazards one by one, with their lines and the
properties that cover them.

### What makes each component correct

- Outbox: an accepted message stays on disk until it is resolved
  (`KeepsPromise`); a crash costs at most the file it cut short
  (`LossBoundedByCrashes`); the retry budget is spent before a message is set
  aside (`BudgetSpent`); a message is in one place (`OneHome`); the bound holds
  (`SoftBound`); every failed send is resolved (`EventuallyResolved`).
- Delivery: only the recipient confirms; an answer read in time counts; every
  hold is tracked and resolved, once.
- Router: one bad recipient does not cost another one its rail
  (`DeliverableReached`); cooldowns are earned (`CooldownEarned`); rails come
  back (`RailsReturn`).
- File rail: reported queued means on disk, archived means handed on
  (`Accounted`), once (`HandedOnOnce`); the cap holds (`CapHolds`).
- Federation: at most once (`AtMostOnce`); confirmed means held or refused by
  choice (`ConfirmedIsHeld`); a replay is a copy (`ReplayedWasHandled`); what
  is retried or relayed within the window arrives (`DeferredArrives`).
- The other components: one conjunction of a few named parts each, described
  with its module below.

## 2. Modules

Two kinds of instance. `MCOutbox`, `MCDelivery`, `MCRouter`, `MCFileRail` and
`MCFederation` give one component its instance. `MCStores`, `MCLinks`,
`MCNode` and `MCPlane` put several components that share no state beside one
another: the variable `part` chooses which of them a behaviour is about, the
others rest in one of their initial states. Exploring their product would add
nothing, as no action of one reads a variable of another; composing them this
way lets one run serve several modules, whose actors it also shares, so that
the same two processes are symmetric in all of them.

| Module | Models | Run in | Proofs in |
|---|---|---|---|
| `DurableQueue` | the abstract promise of the outbox: none → held → dead or resolved | instance in `Outbox` | `Outbox_proofs` |
| `Outbox` | `outbox.py`, one step per file operation | `MCOutbox`, `MCStores` | `Outbox_proofs` |
| `Delivery` | `ack.py` and the ACK side of `core.py`; the outbox is one slot per message | `MCDelivery` | `Delivery_proofs` |
| `Router` | the sending side of `router.py` | `MCRouter`, `MCLinks` | `Router_proofs` |
| `FileRail` | `transports/file.py` and the loop of `Router.receive_all` | `MCFileRail` | `FileRail_proofs` |
| `Federation` | the two signed routes from node to node, with the sender's retries | `MCFederation`, `MCPlane` | `Plane_proofs` |
| `Consent`, `GroupConsent` | the first-contact gate and admission to groups | `MCNode` | `Delivery_proofs` |
| `MessageQueue`, `Migration` | the CLI's queue; what an upgrade finds | `MCNode` | `Node_proofs` |
| `Transfer` | one chunked file transfer | `MCNode` | `Node_proofs` |
| `Signaling`, `WebRtc` | the broker's rooms; the peer entries of the rail | `MCNode` | `Node_proofs`, `Router_proofs` |
| `Trust`, `Backup` | pins and peers; backup, restore and the identity gate | `MCNode` | `Node_proofs` |
| `Sessions` | calls between peers, and avatar sessions on one GPU | `MCLinks` | `Links_proofs` |
| `Nostr` | gift-wrapped letters over flaky relays | `MCLinks` | `Links_proofs` |
| `PubSub` | the bus and its bridge | `MCLinks` | `Links_proofs` |
| `Sealing` | what the engine makes of a payload; the wire forms of an envelope | `MCLinks` | `Links_proofs` |
| `Syncthing` | provisioning, and the rail through a shared folder | `MCStores` | `Stores_proofs` |
| `Mailbox` | sealed mailboxes, and the API's lists of conversations | `MCStores` | `Stores_proofs` |
| `Radio`, `Heartbeat` | the Bluetooth mesh and LoRa; the heartbeat file | `MCStores` | `Stores_proofs` |
| `Directory`, `RealmCache` | the signed directory, and its cache elsewhere | `MCPlane` | `Plane_proofs` |
| `Adapters`, `Socket` | channel adapters; the WebSocket client | `MCPlane` | `Plane_proofs` |
| `RateLimit`, `Access` | token buckets; scope grants | `MCPlane` | `Plane_proofs` |

The modules hold some definitions that no action uses (`DurableSuperseded`,
`UnboundAck`, ...). Each is a plausible fault of the definition below it.
`PROJECT.json` "mutants" says which property catches which fault: every
property of every passing run has one.

Variables marked *history* in their declarations record what happened and are
read by no action of the code; the properties need them.

### Outbox

`pending` and `dead` map an id to the file there: an entry, `Absent` or `Torn`
(opened for writing, not flushed). An entry keeps the attempt count, whether
its retry is due and whether it awaits an ACK. Processes have a program counter
`phase`, the id `cur` and the entry `mem` they hold in memory; a sweep also has
the names it listed (`todo`) and the attempts it charged to its batch (`used`).

Code and actions: `enqueue` is `Enqueue` (evict what the key supersedes), then
`AdmitEnqueue` or `RefuseEnqueue`, then `OpenPending` and `FlushPending`;
`retry_all` is `SweepStart`, `Visit` per file, one of `Throttled`,
`Delivered`, `FailedRetry`, `FailedExhausted`, and `SweepEnd`; `_move_to_dead`
is `OpenDead`, `FlushDead`, `UnlinkPending`; `requeue_dead` is `RequeueDead`,
`OpenPending`, `FlushPending`, `UnlinkDead`; `remove` is `AckRemove`;
`mark_dead` is `MarkDead` followed by the move; the purges are `DropDead`.
`Crash` stops a process between any two of these. `Redrained` are ids that a
legacy retry file enqueues again at every start (`outbox_migrate.py:340`).

`status`, `done`, `fails` and `ackOpen` are history: what callers were told,
who was resolved, how many attempts failed on the wire. `KeepsPromise` is
`DurableQueue!Spec` under the mapping `Held == [i \in Ids |-> StatusOf(i)]`.

### Delivery

Each message has a `send()` (`sending`), the best a rail made of it (`wire`), a
slot in the outbox (`box`), an ACK file (`track`). A receiver takes an ACK,
checks it (`CheckAck`), rewrites the file (`Confirm`), drops the hold
(`DropHold`); or it loads the expired ACK files (`LoadExpired`), rewrites them
(`MarkTimedOut`) and dead-letters their holds (`Bury`). `Forge` puts ACKs in
the net that somebody else sent or that are not signed, `LoseAck` and the
choice `keep` in `TakeAck` lose and duplicate them.

### Router

`failed` and `backoff` hold a count and an age in ticks. `Route` selects
(`Eligible`, `Ordered`), `Attempt` tries the next rail with everything
`_try_send` records, `TryStoreForward` is the fallback, `Finish` ends the
route. One attempt with its bookkeeping is one step. `Outcomes` says what a
rail may answer for a recipient, `Flapping` rails may be unavailable, `Deaf`
rails may raise in `receive`. The order among the rails (`Leads`) is in the
model, but no instance has two direct rails whose order a property could
tell apart. Left out: the cap of 10,000 backoff entries, the log-once
bookkeeping and metrics.

### FileRail

`tmp` and `file` map a name to the message in it; `age` is the order of the
modification times. A send is `WriteTmp`, `Rename`, `ListExcess`, `Evict`; a
poll is `List`, then `Read` and `Archive` per file, then `HandOn` per message,
then `EndPoll`; the code reads in the order of the file names, and as ids are
random the model reads in any order. `NameOf` is `_extract_id`: a legacy
envelope is named by its id, anything else by the second. Two messages without
an id that are written in the same second overwrite each other, which is why
`Accounted` speaks of names that tell the messages apart; and a payload that is
not a JSON object ends the loop that hands a batch on, which is why it speaks
of objects. The outbox of the sender and the inbox of the receiver are one
directory: what Syncthing does between them is in `Syncthing`.

### Federation

A message is signed once (`created`), posted up to `MaxAttempts` times, and may
go to the relay after a failure. A worker takes a request or an event, checks
signature and freshness (`PassCheck`, `Refuse`), then the nonce (`Accept`,
`Replay`), then writes (`Deliver`, `DeliverFails`); time passes between these
steps, at most `MaxDelay` from the freshness check to the nonce check. `nonce`
survives a crash, `pulled` does not. The signature is a choice of `Trusted`
messages: an untrusted one takes the same branch, `Refuse`, as a stale one, so
the instances trust all of theirs. The consent gate is a choice of `Decisions`
here and has its own module.

### The consent gate and groups

`Consent`: a handler takes an envelope through `BanGate`, `Policy`, `Known`,
`VerifyToken`, greylist (`SeeGrey`, `InsertGrey`) and the knock cap
(`CountKnocks`, `InsertKnock`), each a read or a write of its own, while
operators accept, decline, block, unblock, change the policy and the feeds.
`ConsentKeeps`: who was blocked or banned ever since its envelope arrived
neither is delivered nor queued; in public mode a stranger is delivered only
when the tiering failed (the code then fails open); the queue of one sender
exceeds its cap by at most one knock per handler.

`GroupConsent`: gates read, decide and write a membership table and a table of
captchas in separate SQL statements. `AdmissionHolds`: a member was invited,
approved, let in by the mode or solved a challenge; a call that began after a
block seats nobody while it stands; a solved challenge buys no more seats than
there are gates.

### Queue, migration, transfer

`MessageQueue`: a mail is an envelope file and a meta file; drainers of any
agent claim, send, purge and adopt the pairs of the shared directory of earlier
versions, one rename, write or unlink at a time. `QueueKeeps`: halves never lie
with two agents, a mail is stranded only by a crash, and is sent at most once
per drainer and crash. `Migration`: each start adopts the old outbox and drains
the JSONL file, its worker sweeps, and an operator may run `migrate_outbox`;
`MigrationKeeps`: a letter is held by a file, the archive or a process until it
is delivered, but for one per halt, unless `migrate_outbox` ran beside another
runner. How the id of a line is derived is left out.

`Transfer`: `send_file`, `resume_file` and the state file, while the source is
rewritten or removed and the process dies. `TransferKeeps`: marks are true,
what was put has the bytes whose sums were taken, and a chunk is put again only
if its mark was lost or taken back.

### Signaling, WebRTC, sessions

`Signaling`: the coroutines of the broker run from one await to the next;
several connections may share a fingerprint. `SignalingKeeps`: who is alone
with its fingerprint is registered in the room newcomers join; a room lives
while somebody is in it, within its size; ICE sessions end with their peers
unless a candidate was relayed to one that was being removed. `WebRtc`: threads
in `send()` and one event loop change the peer entries. `WebRtcKeeps`: one
offer per remote at a time; whoever is marked negotiating has somebody at work
for it; an open channel that has not failed is used. ICE and SDP are what the
environment may do.

`Sessions`: managers place calls and hang up beside their one route loop, over
mailbox files that arrive in any order; creators and destroyers of avatar
sessions share a permit. `SessionsKeep`: a call that nobody hangs up and that
crosses no other connects the two; an answer that a session takes was meant for
it or for one that was ended; the permit is never doubled.

### Nostr, bus, sealing

`Nostr`: a letter is wrapped anew at each attempt, with a date of up to two
days back, and offered to the relays in turn; a poll asks them all for the
gifts of its window. `NostrKeeps`: nothing is opened twice in one life of the
recipient, and a poll that no relay failed has opened every gift of its window
that was published before it began. `PubSub`: publications take a snapshot of
the subscriptions and call them without the lock; `BusKeeps` says each listener
is called once and each agent sent to once, unless the list shifted.

`Sealing`: letters are compressed, signed, sealed, carried, opened and
acknowledged while the peer's key is linked, loaded, rotated and forgotten;
`SealingKeeps` says when a letter may go out in the clear, and that what is
handed on as opened was opened. Its wire section follows one signed envelope in each
of its forms over a wire that garbles it; `WireKeeps` says that what a receiver
accepts was signed or sealed so. The primitives are external.

### Folders, mailboxes, radio, heartbeat

`Syncthing`: runs of `rail provision` read the peers, then the daemon's
configuration, and PUT devices and folders while an operator edits both
(`ProvisionKeeps`); and machines whose clocks disagree write, trim and read a
folder whose copies are merged file by file (`SyncKeeps`). `Mailbox`: who can
read a letter and its record, through the two files, the sweep and its pruning
(`MailboxKeeps`); and what a request for conversations lists while the
messages move (`ConversationsKeep`). `Radio`: the flood of a mesh whose filters
may err, and LoRa's airtime, queue and reassembly (`RadioKeeps`). `Heartbeat`:
the loop, other publishers and another node's copy (`HeartbeatKeeps`: never
partial while publishers do not overlap, a running node is seen, a started one
runs).

### Directory, cache, adapters, socket, buckets, grants

`Directory`: processes load, change, sign and rename the directory of a realm.
`DirectoryKeeps`: it lists no address that was not announced, and keeps what was
answered "ok" while one process at a time changes it. `RealmCache`: threads
share and expire a verified copy; `RealmCacheKeeps`: no answer that did not
verify, none older than the lifetime and a fetch. `Adapters`: the registry, a
Telegram user session (watermark) and a bot (offset). `AdaptersKeep`: nothing
twice in one process, nothing skipped without an excuse (a full page, an
exception). `Socket`: connect, disconnect, the receiver thread and senders.
`SocketKeeps`: transport and receiver agree on the connection unless two
receivers were started. `RateLimit`: `allow` read by read and write by write.
`RateLimitKeeps`: a bucket passes no more than it held, got and one per other
thread, as long as no two write it at once. `Access`: grant and revoke commands
through one temporary file, and a server that merges the file when it starts.
`AccessKeeps`: nobody has what nobody granted; an uncrossed revoke counts from
the next start on.

## 3. Runs

| Run | Instance | Properties |
|---|---|---|
| `node_stores` | *outbox*: 2 messages, 2 sweepers, 1 producer, bound 1, batch 1, 2 retries, no crash; *provisioning*: 2 runs, 2 operators, 2 devices, 1 edit; *Syncthing rail*: 2 posts of up to 2 writes, cap 1, 1 mishap; *mailbox*: 1 letter, 2 names, 2 upsets; *conversations*: 2 turns, pages of 1, 2 moves; *mesh*: 4 nodes, ttl 3, 1 packet, 2 misses; *LoRa*: 3 letters of 2 frames, airtime 2, window 2; *heartbeat*: 1 other publisher, 5 ticks, 2 orders | `KeepsPromise`, `SyncthingKeeps`, `BeaconsKeep` |
| `outbox_holds` | 2 messages (one redrained), sweeper, producer, timer, operator | `OneHome`, `BudgetSpent` |
| `outbox_crashes` | 3 messages (two beacons of one key), 1 crash, fair | `LossBoundedByCrashes`, `SoftBound`, `EventuallyResolved` |
| `delivery_poller` | 2 messages, one named by fqid, 1 receiver, 1 crash, fair | `OnlyRecipientConfirms`, `HoldIsTracked`, `AnswerCounts`, `ResolvedOnce`, `HoldResolved` |
| `router_live` | 4 modes, throttling, a flapping and deaf HTTP rail, a quarantined relay, fair | `CooldownEarned`, `RailsReturn` |
| `node_links` | *router*: 2 threads, a file rail and the relay, 2 recipients and `*`; *calls*: 3 managers, 2 sessions each, 2 calls, 1 hang-up, 1 restart; *avatars*: 2 avatars, 2 creators, 2 destroyers, 1 exception; *Nostr*: 2 relays, 2 gifts, 1 tick, 1 restart; *bus*: 2 messages, 2 listeners, 2 remote agents, 4 changes; *sealing*: 2 letters, 1 rotation, 1 edit, 2 processes; *wire*: 2 speakers, 2 receivers, 2 garbles | `DeliverableReached`, `SessionsKeep`, `NostrKeeps`, `TrafficKeeps` |
| `filerail_one` | 2 messages (one an array), cap 2, 1 receiver, 3 resends, 1 restart, 2 seconds | `HandedOnOnce`, `CapHolds` |
| `filerail_two` | a legacy and a signed message, cap 1, 2 receivers, 1 failing move, fair | `Accounted`, `QueuedArrives` |
| `node_plane` | *gate*: 1 message ahead of our clock, 2 inbox processes and the puller, 3 attempts, 5 time units, 1 timeout, fault and crash; *directory*: 2 announcers, 2 writers, 1 death; *cache*: 2 threads, lifetime 2; *adapters*: a polled chat with pages of 2 and a bot, 3 posts, 2 starts; *socket*: 2 receivers, 2 senders, 3 connections; *buckets*: 2 callers, 1 token each, 5 asks; *grants*: 2 clerks, 1 guest, 2 scopes, 3 commands | `AtMostOnce`, `ConfirmedIsHeld`, `DirectoryKeeps`, `RealmCacheKeeps`, `AdaptersKeep`, `SocketKeeps`, `RateLimitKeeps`, `AccessKeeps` |
| `federation_live` | 2 messages, 1 handler, 1 time unit, 1 fault, 1 crash, fair | `ReplayedWasHandled`, `DeferredArrives` |
| `federation_late_retry` | 1 message, 2 time units, no relay, fair | `RetriedArrives`, **violated** |
| `node_parts` | *consent*: 1 sender, 2 knocks, 2 handlers, 1 operator, public mode, cap 1; *group*: 2 peers, 2 gates, 1 challenge of 2 attempts; *queue*: 1 mail, 2 drainers of 2 agents, 1 crash; *migration*: 2 letters in five mixes of origins, 2 runners, 1 crash; *signaling*: 3 connections of 2 fingerprints, room of 2; *WebRTC*: 1 remote, 2 callers, 2 objects, 1 stop; *transfer*: 2 chunks, 3 rewrites, 2 crashes; *trust*: 1 handle, 2 keys, 2 clients; *backup*: 1 waiting entry, 2 identities, 1 wipe, 1 restore | `ConsentKeeps`, `AdmissionHolds`, `LegacyKeeps`, `SignalingKeeps`, `WebRtcKeeps`, `TransferKeeps`, `KeysKeep` |

The conjunctions of several parts: `SyncthingKeeps` is `ProvisionKeeps`,
`SyncKeeps`, `MailboxKeeps` and `ConversationsKeep`; `BeaconsKeep` is
`RadioKeeps` and `HeartbeatKeeps`; `SessionsKeep` is `CallsKeep` and
`FaceTimeKeeps`; `TrafficKeeps` is `BusKeeps`, `SealingKeeps` and `WireKeeps`;
`LegacyKeeps` is `QueueKeeps` and `MigrationKeeps`; `KeysKeep` is `TrustKeeps`
and `BackupKeeps`.

Deadlock is checked in every run but those of the Federation instances
(`node_plane`, `federation_*`) and `node_parts`, where the models stop when
their bounds are used up.

### Why the bounds are enough

- Outbox: a batch of 1 with 2 or 3 messages is a batch that starves the tail; a
  bound of 1 is exceeded by the second message; 2 retries tell the first
  attempt, the last one and the one beyond apart; two sweepers are enough for a
  stale copy to meet a newer one, as each race here is between two.
- Delivery: the messages only share receivers, so two of them show what one
  receiver can mix up.
- Router: two threads, one that fails and one that wants to send; a threshold
  of 2 has a first failure that does nothing and a second that counts; windows
  1 and 2 are a doubling and its cap.
- FileRail: two messages at a cap of 1, and three writes of resends at a cap of
  2, exceed the cap; two seconds give names that are equal and names that
  differ. `SeenMax` is never less than the messages of a run: the code's bound
  (10,000) is far beyond any batch.
- Federation: `TTL = MaxAge + MaxSkew + MaxDelay` is the least life the theorem
  allows (the code has 300 + 60 + 60 s, so `MaxDelay` is 60 s there); five time
  units outlast a message's window and the life of its nonce, so both ends of
  each are crossed.
- The parts: two actors of each kind, as every race met in them is between two;
  a cap, page, batch or capacity one below the number of things it limits; one
  crash, exception or edit, as a second one meets what the first left behind
  only where a part says so (transfer: 2 crashes). The mesh has a node behind a
  cycle, so that copies of one packet reach it over paths of different lengths.

Filters of the harnesses, which bound the search and not the code: `MCNode`
lets a stop of the WebRTC rail meet one call of `send()` at a time, and stops
the trust part once two clients changed the pins at once (nothing is promised
beyond it); `MCStores` fixes the authors of two envelopes up to exchanging
them, lets a poll die only where one machine wrote both, and makes one message
of a conversation a text; `MCLinks` sends only unsigned jobs, as
`SignedOnly` is empty there.

`MaxCrashes`, `MaxTimeouts`, `MaxFaults`, `MaxResends`, `MaxArchiveErrors`,
`MaxTime`, `Seconds` and their like in the parts bound behaviours of the
environment, nothing in the code.

### Fairness

- Outbox: the threads run (`start` starts a daemon thread whose loop catches
  every exception), backoffs elapse, and the rate limiter does not refuse the
  same entry for ever. No fairness for ACKs, callers or operators.
- Delivery: a caller of `send` runs on; the daemon polls and every poll ends
  with the timeout sweep (strong fairness of `LoadExpired`, which a stream of
  ACKs only interrupts); clocks advance. No ACK ever has to come.
- Router: clocks advance, a route runs to its end, somebody keeps sending (the
  heartbeat does every minute). No rail has to succeed.
- FileRail: a send runs to its end, a receiver keeps polling.
- Federation: the sender's outbox retries, systemd restarts the node
  (`contrib/systemd/skcomms-api.service:44`, `Restart=always`), workers serve
  what arrives. `Tick` is not fair: no property may rely on time passing.
- The parts of `MCStores`, `MCLinks`, `MCNode` and `MCPlane` have safety
  properties only, and no fairness.

## 4. Theorems

TLAPS checks every proof for all values of the constants that satisfy the
modules' named assumptions. `PROJECT.json` "theorems" lists the results, one
section per component in eight proof modules. Each invariant below was found
the same way: the property is not inductive because some copy, in memory or in
another file, is about to break it; the invariant says what is true of that
copy.

`TypeOK` (or its counterpart of the part) is proved for every component of
which anything is proved, except Router: the length of its doubled backoff is
bounded through a power of two, whose growth needs induction over data, so its
proofs use a weaker `Shape`; and calls, bus, sealing and wire, whose invariants
carry what shape they need (`BusShape`, `Shaped`, `Framed`).

### Outbox

- `BudgetIsSpent`: where nobody requeues and nothing is redrained
  (`Operators = {}`, `Redrained = {}`), a failed send reaches `dead/` only after
  `MaxRetries` attempts failed on the wire; for any sweepers, producers, timers
  and crashes. A sweep may carry a copy of an entry it read before another one
  rewrote it. `BudgetInv` adds that no copy of the count runs ahead of the
  failures, on disk (`CountOnDisk`) or in a sweep's hands (`CountInHand`); that
  a sweep about to write to `dead/` has seen the last failure (`Exhausted`);
  that an id not yet accepted is nowhere and has one producer (`Origins`), since
  flushing a new entry starts its count again; and that what a timer moves is a
  hold, which has no budget. A stale copy can only lag.
- `PromiseIsKept`: the refinement of `DurableQueue`, without requeues, redrained
  entries and crashes. `Home(i)` says where an accepted message is while some
  process has its file open or half moved; with it every step maps to a step of
  the abstract queue or to a stutter. With a requeue the property is false (see
  Disagreements), so the hypothesis is necessary.
- `LossIsBounded`: with any number of crashes, `LossInv` charges every message
  without a home to a crash of the one process that had its file cut short.
- `SoftBoundHolds`: counting `Live` ids and those that threads are about to
  add. An operator's requeue asks for no room, hence `Operators = {}`.
- `HomesAreSingle`: with one sweep at a time and no crash, and with requeues,
  timeouts and enqueues. `OneHomeInv` says per id which move is under way
  (`SameHold`, `RewriteIsRequeued`).

### Delivery

- `OnlyRecipient`, `HoldsAreTracked`: for any receivers (the latter without a
  crash, which is part of the property). `PeerAnswered` says that what a
  receiver took for an answer of the peer is one.
- `AnswersCount`, `ResolvedIsFinal`: with one receiver (`OneReceiver`).
  `AnswerInv` says that nothing a receiver holds in memory is older than the
  file it is about to write (`NothingStale`, `HeardIsConfirmed`, `NotBuried`).
  With two receivers both are false, see Disagreements.

The consent gate and the groups are proved in the same module.

- `GateIsKept`: `ConsentInv` says of each handler what it has judged so far
  (`Judged`) and how many knocks are being pressed in (`Pressing`).
- `AdmissionIsEarned`: `GroupInv` (`Minded`, `NoneUninvited`, `Spent`) says why
  each gate is about to write what it writes.

### Federation

Proved in `Plane_proofs`.

- `NeverTwice`: for any clock offset, workers and both rails, with crashes.
  `OnceInv` calls a message *closed* when no worker can accept it any more: its
  nonce is remembered and its creation is not more than `MaxSkew` after it, or
  it is older than every window. What was handled is closed
  (`HandledIsClosed`); a worker past the freshness check bounds the age of that
  check (`FreshWhenChecked`); so a worker that finds no nonce works on a message
  that is not closed (`AcceptedIsOpen`), and the step that evicts a nonce leaves
  its message closed (`StaysClosed`). The assumption is `NonceAssumption`:
  `TTL >= MaxAge + MaxSkew + MaxDelay`. The code meets it (`federation.py:33-37`)
  as long as no more than 60 s pass between the two checks.
- `ForgottenIsHeld`, `ReplayIsACopy`: for a gate that never defers
  (`"defer" \notin Decisions`; a deferred message is confirmed and not kept, see
  Disagreements). `HeldInv` follows a confirmation back to the worker that took
  the nonce (`NonceIsKept`).

### File rail

- `TypeCorrect`, with `Named`: a file holds a message that bears its name.
- `DirectoryIsCapped`: for any senders that list and evict at the same time.
  `Aged` makes the ages a strict order of the files, `Trimmed` says that whoever
  listed last leaves no more than the cap; the oldest files exist by
  well-foundedness of that order.
- `IdsAreHandedOnOnce`: a process remembers what it handed on (`Remembered`),
  as long as it remembers as many ids as there are.
- `QueuedIsAccounted`: when names tell messages apart (`NamesTell`) and no
  payload is an array; both hypotheses are needed, see the FileRail module.

### Router

- `CooldownsAreEarned`: `Earned` ties the counter of a rail that is not deaf to
  failures in a row, whatever threads do between selection and attempt.
- `ServedIsReached`: in every mode a route to a recipient that some rail surely
  serves is delivered unless that rail was throttled. The hypothesis
  (`SureRailsAreHealthy`) is that such a rail fails others only permanently: a
  transient failure counts against the rail, which is what a cooldown is for.
  `Uncharged`, `Welcome` and `Owing` say that the rail stays eligible, is
  selected, and is still to be tried.
- `OffersAreAnsweredFor` (the WebRTC rail): `WebRtcInv` says per remote who is
  about to offer (`OneOffers`) and who answers for a mark (`Tended`).

### Node

- `LegacyIsKept`: for the queue, each mail has a trace (`Tidy`: the agent that
  has its halves, who is moving them, what is over), and each crash strands at
  most the mail its drainer moves; for the migration, each letter is kept
  (`Settled`, `TornIsHeld`, `CopiedIsWhole`, ...) but for one per halt. Any number of
  processes and crashes.
- `SignalsFindTheirRoom`: `SignalingInv` (`Roomy`, `LoneAlone`, `SessionsKept`,
  `OwnDropped`) relates the handler of each connection to the room object it
  joined, which need not be the broker's any more.
- `StateFileIsTrue`: `TransferInv` (`InStep`, `MarkIsDue`, `Counted`), for any
  chunks, contents, rewrites and crashes.
- `PinsAreKept`: `TrustInv` says, as long as no two clients changed the pins at
  once, that what lies in a store, in its temporary file or in the hands of a
  client is a key that was trusted or re-pinned for its handle (`PinsVouched`,
  `PeersVouched`, `Rightly`), and that at most one client is between the load
  of the pins and their rename (`OnePinner`). For any handles, keys and
  clients, and deaths anywhere.
- `RestoresAreTrue`: `BackupInv` relates four copies of a key: the file, what a
  backup has read, the archive, what a restore has staged (`ReadsTruly`,
  `RestoresTruly`). As long as no identity was made since the backup began
  all keys are of one origin (`OneOrigin`); as long as no restore was torn the
  halves of a key pair belong together (`HalvesBelong`); an entry is sent again
  at most once per restore (`SentRightly`). For any wipes, restores, identities
  and entries.
  The attempt corrected the model: a restore that was cut short tears the
  archive that is made of its result, so that a later restore of that archive
  is torn as well. `SameIdentity` now says so (`atBackup.torn`); without it the
  property holds with one wipe and one restore and fails with two and three.
- `KeysAreKept` puts both together: `KeysKeep`, the property the run checks.

### Stores

What `MCStores` checks beside the outbox. Each theorem is the conjunction of
components that share no state, and is proved of their own specifications.

- `SyncthingIsTrue`: `SyncthingKeeps`, for any operators, devices, machines,
  clocks, envelopes, caps, letters, names, messages and pages.
  *Provisioning* (`ProvisionInv`): every device a run is about to share a folder
  with is known to the daemon, or the run makes it known first (`Announced`); as
  long as only runs over the same peers PUT beside it, what a run need not PUT
  is as it should be, and what it has PUT stays so (`Provided`).
  *Syncthing rail* (`SyncInv`): until something took an envelope every copy that
  knows of it has it; of an envelope that was written once, a copy that has it
  knows of nothing but the write, so that none comes back where more is known
  (`Fit`), as it is in the reader's folder once the poll read it
  (`HandedOnce`); and no file is of a later write than the last of its envelope.
  *Mailboxes* (`MailboxInv`): what the two files may hold is settled when the
  letter is sealed (`Sealing`); what a sweep is about to write the sender can
  open (`Sweeping`).
  *Conversations* (`ConversationsInv`): a message that is to be shown is in the
  answer, or all its files are still to be read (`Complete`), because the places
  a message moves on to are read later than those it leaves (`Onward`); before
  the first message that stepped back, came or went the pages are cut from the
  same list (`Paged`).
  The attempt corrected the model: the cap compares files, and a machine may
  still have the file of an earlier write of an envelope that its author wrote
  again. `SyncKeeps` used to blame the cap for evicting it as if it were the
  later write, which three writes show and the two of the run do not; it now
  compares the writes that the files are of (`WriteOf`).
- `BeaconsAreTrue`: `BeaconsKeep`, for any nodes, links, letters, budgets and
  times; its three parts share no state.
  *Heartbeat* (`BeatInv`): while publishers do not overlap one at a time has a
  file open (`Alone`, `Whole`); what the loop, Syncthing and a publish may take
  bounds the age of what is about to be read (`Timely`, `Recent`).
  *Mesh* (`MeshInv`): a frame that has lost hops has been seen by as many nodes
  (`Trailing`), so that a packet that may live as long as there are nodes to
  pass runs out of nodes first; a node that has seen a packet passed it on, is
  about to, or need not (`Passing`), so that the nodes a settled packet was
  seen by are closed under the links.
  *LoRa* (`LoraInv`): what went on the air falls into the present window, the
  one before, and what left at least one whole window before the present one
  (`InWindows`); the frames not yet sent are in order (`InOrder`); a frame the
  receiver holds arrived once more than its letter was handed up (`Earned`).

### Links

`CallsAreAnswered` and `TrafficIsKept` are stated of the specification of
`MCLinks`: a step of one part is a step of that part's own specification and
leaves the others at rest (`LinksPart`, `WirePart`).

- `OnePermit`: at most one avatar session uses the GPU. `FaceInv` counts the
  permit in its four places: free, with a session that starts, with one that is
  registered or ends, or lost with a start or stop that raised.
- `CallsAreAnswered`: for any managers, peers, mailboxes and redeliveries, a
  session that offered and is still open waits for something under way, unless
  its pair is one of those the property excepts. `CallsInv` says whose a session is until
  it is closed (`Belongs`), that numbers are not used again (`Fresh`), what a
  message in a mailbox was sent for (`Addressed`, `AnswersFit`, `Gathers`), and
  what each end knows of the other (`Answering`, `Remotes`, `WaitsFor`);
  `OneEnd` puts both ends together.
- `PollsAreWhole`: `NostrInv` says how far a publication and a poll have come
  (`Publishing`, `Gathering`, `Gathered`, `Opening`).
- `TrafficIsKept` has three parts. For the bus, `BusInv` says of a message in
  work what is left of the list it found (`LeftOf`), that the callbacks before
  it were called (`Heard`), and that so many times, and once more for the agents
  before the index, it was forwarded (`Sent`), unless a removal moved the list
  of agents under it. For the sealing, `SealingInv` says of a letter, at each
  stage, why it would be in the clear (`SentWell`), what its opener was handed
  (`HandedWell`), and who signed its answer (`Signed`). For the wire, `WireInv` says that a
  frame that was opened is the one on the wire (`OpenedAsIs`) and what its tags
  are bound to (`Bound`). That padding comes off (`PaddingHolds`) needs no
  induction: a size is rounded up, and the least bucket that fits is unique.

### Plane

- `FailsClosed` (`CacheIsSound`, `LookIsRecent`), `ListsWhatWasAnnounced`
  (`NothingAhead`, `WithinAnnounced`, `TakingTurns`), `AgreesOnItsSocket`
  (`Stopping`, `OneReceiver`, `NamesItsSocket`, `NamesNoOther`),
  `GrantsAreGiven` (`OnlyWhatWasSaid`, `OneAtATime`, `MergedAtLaunch`,
  `CallsAreGranted`), `PassesItsQuota` (`InTurn`, `OneWriter`, `ReadsLast`,
  `Timely`, `WithinBudget`, `Floor`), `OnlyNewOnes` (`ReadsOnce`, `SkipsNone`,
  `Rested`): for any threads, processes, capacities, pages and restarts.

### What is only model-checked, and why

- Liveness (`EventuallyResolved`, `HoldResolved`, `RailsReturn`, `QueuedArrives`,
  `DeferredArrives`): fairness and ENABLED are beyond the prover.
- Induction over data: the bound of Router's doubled backoff.
- Every other property of every passing run is stated by a theorem.
## 5. Disagreements

What the code does against what its documentation says of it, met while
modelling. One is a run: `federation_late_retry`. For the others the
properties above state the condition under which they hold, and this list says
what happens without it. Those that a model can show were found as
counterexamples of the property that states the documented behaviour; the
rest were read.

Federation

- A retry posts the bytes that were signed at first, and `check_freshness`
  (`federation.py:187`) compares their creation with its clock: a message whose
  recipient was away for longer than the window never arrives, against
  `docs/federation-data-comms-architecture.md:75` ("outbox retry for offline").
  For the same reason an event that waited on the relay is dropped
  (`store_forward.py:574`), which `router.py:753-756` calls a deferred delivery.
- After the nonce is recorded, a failed write (`api.py:1424`) or a crash
  (`federation.py:229`) makes the retry a replay: 409, message lost.
- A greylisted (deferred) message is answered `{"ok": true}` (`api.py:1320`
  against 1317-1318), so its sender does not retry.
- A 409 after a lost answer, or a 429, is a permanent failure to the sender:
  the outbox dead-letters what was delivered or what should be retried.

Outbox

- A requeued hold keeps `awaiting_ack`, so no sweep retries it
  (`outbox.py:484`, `789`; `SOP.md:389-391`).
- `write_text` truncates first (`outbox.py:1094`): a crash loses the entry
  (`SOP.md:270-272`).
- A requeue that overtakes the second half of a move to `dead/` loses the
  message: the move unlinks the file it wrote (`outbox.py:1080`).
- With two sweepers a stale rewrite may leave copies in both directories: a
  duplicate, no loss.
- `enqueue` evicts the older beacon, then may refuse the newer one
  (`outbox.py:383` against 340-343).
- A requeued entry starts at 0 attempts, a new one at 1 (`SOP.md:387-388`).
- One line that cannot be drained keeps the whole legacy file, so every start
  enqueues all its other lines again (`outbox_migrate.py:340` against 248-253).
- Shutdown (`api.py` lifespan) drops the engine without stopping its worker.

Delivery

- With two receivers, the timeout sweep of one overwrites the confirmation that
  the other has just written (`ack.py:304` against 172-175) and dead-letters
  the message (`core.py:1107` against 1096-1097).
- An ACK that arrives before the ACK file is written is ignored (`core.py:943`),
  and so is every ACK of a message that was addressed by fqid, as the peer
  answers with its bare name (`ack.py:155`, `core.py:786`).
- A crash between hold and ACK file leaves a hold nobody resolves (`core.py:938`).
- A retry by the sweep that only queued the message counts as delivered: entry
  gone, no ACK tracked (`outbox.py:516` against `core.py:935-936`).

Router

- An exception of a send to `*`, and a missing address, count against the rail
  (`router.py:1185`, `store_forward.py:356` against `router.py:1157-1162`).
- A failing `receive` renews the cooldown of `send` (`router.py:563`).
- The fallback ignores the backoff of its pair (`router.py:781`) and is handed
  unsigned bytes (`router.py:264`).
- An entry that is pruned forgets its doubled window (`router.py:954`).
- Token buckets are not locked: concurrent `allow` calls lose updates or count a
  refill twice (`ratelimit.py`).

File and Syncthing rails

- Signed envelopes of one second share a name, and the later replaces the
  earlier (`transports/file.py:840`).
- A file replaced between read and archive is archived unread
  (`transports/file.py:439`).
- Signed envelopes have no top-level `envelope_id` and are not deduplicated; a
  payload that is not a JSON object aborts the batch, whose files are already
  archived (`router.py:1199`).
- On Syncthing, a machine whose clock is behind has its fresh envelope evicted
  by its own trim while `send` returns success.
- Provisioning PUTs a folder of the wrong type with the expected one when it is
  under-shared, though mismatches are "never auto-corrected"
  (`syncthing_rail.py`, near 507); a PUT drops extra shares; a run with a stale list of peers
  unshares a new device; a peer of one's own operator makes a receive-only
  folder with the id of the own one.
- Chunked files: an empty file divides by zero (`transports/file.py:579`); after
  the source changed, a resume raises for ever where a comment (651) says "will
  resend"; `completed` stays true with unverified chunks; nothing in the source
  receives chunks or calls `send_file`.

Engine and cryptography

- The key store reads a path that nothing in the source writes into a peer's
  record, and `PeerStore.add` rewrites the record without it: with
  `encrypt: true` letters go out in the clear unless an operator edits the
  YAML, against `core.py:824-826` ("Do NOT route").
- `_loaded` is raised before the keys are read (`crypto.py:644`), so a second
  thread sends in the clear; a recipient named by fqid is not found; a key added or rotated
  later is not seen until a restart.
- A payload that cannot be decrypted is handed on as it is and acknowledged.
- A send whose envelope signing fails falls back to unsigned local rails.
- `pqdm2` binds the names of the devices, not the slots, so a missing slot is not noticed
  (`pqdm.py:447-449`).
- `_find_key` falls back to the bare local name, so a namesake of another operator
  verifies for a fqid that is not registered, against "We bind key↔identity".

Consent and groups

- `accept` over the API does not clear the queue of requests; `block` does not
  revoke the token, against `consent_tokens.py:28-30`.
- A truncated `invite_policy.json`, a truncated `runtime.yml` (no ban feeds) and
  the race of two first inserts into the greylist fail open; policy commands lose updates.
- A captcha is not bound to its peer, and two verifiers may both consume one
  ("one-shot"); opening a group again seats a blocked owner; `approve` and
  `deny` check no status.

Queue and migration

- Nothing in the source calls `MessageQueue.enqueue`; `update_meta`
  (`queue.py:264`) resurrects an orphan; a crash between two renames strands
  the envelope.
- `migrate_outbox` beside a writer archives a truncated file as corrupt and
  unlinks it; two archivings at once replace the copy by nothing
  (`outbox_migrate.py:355-374`, "preserved verbatim"); 193-194 unlinks before
  it rewrites; "exactly once" fails with a line that cannot be drained (339-340).

Signaling, WebRTC, sessions

- When a fingerprint reconnects, the removal of its old connection removes the
  new one, and maybe the room, and resets its rate counter; a failed welcome
  leaves a ghost; a full room refuses a member that reconnects; a signal relayed during
  `_cancel_ice_sessions` leaves a session.
- An offer written while the broker is away, or an answer that fails, leaves the entry
  negotiating, never to be offered again (against `transports/webrtc.py:620`);
  a send that races a stop leaves a marked stub.
- Calls: glare never connects; a stale answer after a hang-up and another call
  is accepted; an exception in one signal drops the rest of its batch; after a
  restart every old offer in the mailbox is answered; a hang-up tells nobody.
- Avatars: a start or stop that raises keeps the GPU permit for ever.

Bus, Nostr, other rails

- `TransportBridge.stop` never unsubscribes, as bound methods are compared by
  identity ("After calling this, no further forwarding occurs"), and a restart
  doubles; removing an agent during forwarding skips the next one; two bridges
  with overlapping patterns echo.
- A gift is dated up to 48 h back (`transports/nostr.py:428-432`) while a poll
  asks for 24 h: a published letter may never be found.
- WebSocket: `disconnect` waits 5 s for a thread that may open for 10 s, so a
  reconfiguration may leave two receivers; a stale failed send clears
  `_connected` of a newer connection; a full inbox drops.
- Mesh: a copy over a longer path that arrives first may stop the flood short of
  a node within reach, and a false positive of the filter loses the packet,
  though `ble/relay.py:26-27` counts on redundancy. LoRa: a raising
  `send_frame` loses the rest of what was drained; partial buffers never expire.
- Tailscale: nothing in the source starts its listener; a stop before the loop
  made its socket leaves one that nobody accepts on.

Mailbox and conversations

- The operator is compared, not the realm (`mailbox.py:274-286` against
  255-263); `_load_verifier_key` (317-333) prefers local keys to the pinned one,
  so mail of remote peers is called invalid on a machine with an operator key.
- Signed envelopes, the default form on the wire, are never listed, as the requests
  parse `MessageEnvelope` only (`api.py:1810-2373`); a retry or a requeue during the
  request hides a message; a page shifts when an older message comes or goes;
  one list deduplicates, another does not.

Discovery, trust, backup

- `directory.json` is loaded, changed and saved without a lock: updates are lost, two
  writers of one temporary file publish a torn one ("Atomically persist"), an
  unreadable one makes the next announce start from nothing, and a delayed
  announce overwrites a newer one. Two threads that expire the cache raise out
  of `resolve_agent` ("fails closed, returns None").
- Two first contacts with different keys: the later pin silently replaces the
  earlier (`tofu.py`); a torn store reads as empty, which forgets every pin; a
  re-pin without its key file leaves the old armor in charge; it does not update
  `peers.json`.
- The consolidated identity layout is not in the backup set: a node keyed there
  refuses to back up, or archives only the legacy key, and the gate calls it
  absent, against `core.py:147-150`. A restored outbox on a live node sends
  delivered entries again; an entry sent during the backup aborts it.
- Pairing (read, not modelled): accepting a revoked key again enrolls a new
  device, against "must be an explicit operator action"; a bearer token may be
  replayed within its window, against "preventing replay attacks".

Access plane, adapters, heartbeat

- Revoking the last scope drops the identity from the overlay, so its static
  grant returns (against the docstring of the merge, 131-135); the shared
  temporary file may publish an empty store; servers read grants only when they
  start, though they are "edited live".
- A Telegram user session asks for the newest 100 and sets the watermark to the newest:
  older new ones beyond the page, or after an exception, are never delivered
  (`adapters/telegram.py:399-402`); the watermark is in memory, so a restart
  dispatches again; an exception in `_normalize` ends an inbound task for ever; one
  adapter that fails to connect keeps the others from being stopped.
- The presence endpoint and the CLI share the publisher's temporary file, so a
  torn heartbeat can be published, though "An atomic rename ensures readers
  never see a partial file"; `start` does nothing while a stopped thread lives.

## 6. Not modelled, and the plan

Not modelled: byte formats and cryptographic primitives (pure functions,
external); third-party chat clients (Matrix, Slack, Discord hand callbacks to a
queue); the media tracks, ICE and SDP; the Tailscale listener (nothing starts
it); Glossa (stateless encoding); metrics, probes and catalogues; the tools of the access
plane that read files, run processes and query a database; the command line,
most HTTP endpoints and the MCP server, which parse, print and call operations
of other components. These wrappers, parsers and formats are most of the
package, which is why the modelled lines are a small share of it. `PROJECT.json`
gives the reason for each component.

What is left:

- Models: pairing and bearer tokens (`pairing.py`, `capauth_validator.py`), the
  resolution of an address by `http_s2s`, calls between nodes of the access
  plane, the start and stop of the engine, the failure log of the router,
  trickled candidates.
