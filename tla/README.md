# xxscreeps in TLA+

TLA+ models of the tick engine of xxscreeps, of the storage under it and of the
protocols of its mods, the TLC configurations that check them on small
instances, and TLAPS proofs of what holds for every instance.
All source paths are relative to `src/packages/xxscreeps/` unless they start
with `docs/`.

## The system

A shard is a world of rooms that advances tick by tick. Its services are
threads (or processes) that share no memory: they meet in a *scratch store* of
sorted sets, sets, lists and counters (`engine/db/storage/local/keyval.ts`, or
Redis), in a *data store* of room blobs, and on *channels* of published
messages.

| Part | Source | State it keeps | Operations |
|---|---|---|---|
| main | `engine/service/main.ts` | `shard.time`, `paused`, the tick delay, the intent abandon timer | handshake, `tick()`, pause loop, shutdown |
| processor service | `engine/service/processor.ts`, `wakeable-worker.ts` | its workers, each one's idle flag, current, pending and finalized time, affinity | `process`, `finalize`, `shutdown` messages, `startWorker` |
| worker | `engine/processor/worker.ts` | the rooms it processed, a cache of room objects | `initialize`, `process`, `finalize` requests |
| room processor | `engine/processor/room.ts` | one room's intents, tasks, wake-up time | `process`, `finalize` |
| scratch protocol | `engine/processor/model.ts` | active, sleeping and process queues, two countdowns, rooms to finalize additionally, who acts where | beget, publish, abandon, count down, sleep, wake, update relationships |
| runner | `engine/service/runner.ts`, `engine/runner/*.ts` | player instances, the users still to run | run every user of a tick, deactivate idle users |
| launcher, signals | `engine/service/launcher.ts`, `signal.ts` | which services live | start, interrupt, shutdown |
| storage | `engine/db/**` | keyval, blobs, pubsub, mutex | atomic commands, save, subscribe, lock |
| utilities | `functional/**`, `utility/**` | - | asynchronous iterables, responder, file lock |
| rules with a protocol | `mods/controller`, `market`, `creep`, `portal`, `notifications`, `powercreep`, `engine/processor/movement.ts` | owned rooms, sends between terminals, creeps on their way, notification schedules, rosters, moves | intents, tasks that await the stores, inter-room intents, drains, compare-and-swap |
| other game rules, backend, sandbox, schema, client, command line | `mods/**`, `backend/**`, `driver/**`, `schema/**`, ... | game data | not part of the protocol |

One tick: main copies `activeUsers` to the tick's user queue and publishes
`process` and `run`. Each queued room's score is the number of players it waits
for; the runner runs each player, decrements the scores of his rooms, pushes
his intents and tells the processors when a score reaches zero. Workers take
rooms of score zero, process them, send inter-room intents to other rooms, and
count the tick's rooms down. The worker that counts the last one publishes
`finalize`; every service finalizes what it processed and the rooms that were
only sent intents, and the worker that accounts for the last of those publishes
`tickFinished`. Main then builds the next queue out of the active rooms and the
sleeping rooms that are due, advances the time, and starts over after a delay.
If players are late, a timer sets all scores to zero.

What is hard in it, and what makes each part correct:

* **main / scratch protocol** - ticks must be bulk-synchronous although no
  message carries an acknowledgement: every queued room is processed once, none
  before its players (unless abandoned), none while another is finalized, all
  of them finalized before the next queue exists. Late answers, late timers and
  repeated messages must not leak into another tick.
* **workers** - several loops drain one queue; the last look at the queue and
  the decision to idle must not lose a wake-up
  (`docs/intent-stall-investigation.md`).
* **relationships** - a room's score in the active set, its list of players and
  the players' own sets must agree, or a tick waits for nobody or forever.
* **runner** - it is best effort: it may hang, lag behind or die at any await,
  and the shard has to keep moving (`docs/architecture.md:107-109`).
* **services** - any start order, pause and step at any time, shutdown only
  between ticks.
* **mutex** - main and administration scripts exclude each other with a lock
  that its owner keeps after use; messages, commands and timers race.
* **storage** - blobs are written behind the game's back and awaited by several
  callers; whatever is saved, deleted or lost with a process, they must be a map.
  Rooms alternate between two blobs, and workers keep them from tick to tick.
  Subscriptions begin and end while messages are on their way.
* **mods** - rooms are processed side by side, and what an intent starts (a
  *task*) awaits stores that other rooms' tasks, main or the backend change too:
  a user's level, a terminal's capacity, a notification's count and a roster
  must survive that. A creep that leaves its room is removed there and inserted
  elsewhere by a room that may be asleep, and must not be lost or doubled. Movement has no concurrency, but chains and circles of
  creeps that push one another.

## Modules

| Module | What it is |
|---|---|
| `Keyval` | the store commands the protocol uses, as operators on sorted sets |
| `Tick` | main's `tick()`, one processor service with its workers, the runner, the scratch store |
| `BulkTick` | the promise of `Tick`: bulk-synchronous ticks, without queues, messages, counters |
| `TickRefinement` | the refinement mapping from `Tick` to `BulkTick` |
| `Services` | handshake, initialisation, main's outer loop, pause, shutdown, several processors |
| `Mutex` | the soft lock between main and scripts |
| `BlobStorage` | the local blob storage: cache, marks, saves, deletions, processes that end |
| `DurableMap` | the promise of `BlobStorage`, and the store under `RoomBlobs`: a map and its snapshots |
| `RoomBlobs` | the double buffer of room blobs, the workers' caches, sleep, saves and crashes |
| `PubSub` | one channel of the local pubsub provider: top thread, clients, ports |
| `Channel` | the loops over a subscription (`iterable`) and its disconnection |
| `Claims` | who owns a room and how many a user may |
| `Terminals` | sends between terminals |
| `Crossing` | creeps that go from room to room |
| `Movement` | the resolution of a room's moves |
| `Notifications` | recording, scheduling and draining a user's notifications |
| `Roster` | the account's power creeps, changed by compare-and-swap and followed by the runner |
| `TickProofs`, `TickPlayersProofs`, `ServicesProofs`, `MutexProofs`, `BlobStorageProofs`, `ClaimsProofs` | theorems about one module each |
| `StorageParts`, `ModsParts` | modules that share no state, instantiated side by side, with their properties; each with constants of its own |
| `StorageProofs`, `ModsProofs` | theorems about these instances and properties |
| `MCTick`, `MCServices`, `MCServicesEither`, `MCMutex`, `MCStorage`, `MCMods` | instances for TLC |

### Tick

A step is one turn of an event loop. Commands issued together (`Promise.all`)
are one step, since one connection executes them in order; an `await`
between two batches is a step boundary. Two actions merge several batches,
because no property looks between them and nobody else writes the keys they
change there: `RoomsDidFinalize` (`processor/model.ts:211-233`) and
`SettleRoom` (`processor/room.ts:191-239`). So `PublishIntents`, `ResetCounts` and
`NotifyProcessors` are the three turns of `publishRunnerIntentsForRooms`;
`BegetRoomProcessQueue` and `AdvanceTime` are the two halves of one
`Promise.all` and take place in either order; `AbandonIntents` and
`PublishAbandoned` are the two turns of the timer's callback, the second of
which runs even when the tick has ended.

State and code correspond by name: `processRooms[t]`, `processedRooms[t]`,
`roomsPending[t]`, `finalizePending[t]`, `finalizeExtraRooms[t]` are the keys of
`processor/model.ts`, `runnerUsers[t % 2]` the two user queues of
`runner/model.ts`, `currentTime`, `pendingTime`, `finalizedTime` the fields of a
`WakeableWorker`. `workerPc` is where a worker's loop stands, `userPc` where the
runner is with a player, `finalizePc` where a worker is with a finalize request.

Abstractions, each allowing at least what the code does:

* A room is the set of players who may act in it (`users`) and, when it is
  finalized, the time it wants to wake; both are chosen freely.
* `IntentRooms(u)` is derived from `users`, because
  `updateUserRoomRelationships` writes both sides of a difference in one batch.
* An intent is its sender and tick. Players' intents and pushed ones differ.
* A room does not send intents to itself (guard of `SendIntents`): `sendRoomIntent`
  (`processor/room.ts:263`) does not check it, but its callers only send to other rooms.
* Any worker may look ahead to any room: affinity only restricts this.
* The runner may run any number of users at a time; the code's limit restricts
  this. A runner takes users in any order.
* `activations` without room names is the number of workers.
* `answered` is a history variable: who published for the tick.
* One processor service and one runner. `Services` has several processors.

### Services

What is inside a tick is reduced to `work` (rooms to process, to finalize, or
none). A message of an earlier tick is dropped when the next is begotten, as its
receivers drop it (`requestWorkerWake`). Processors run under the launcher
(`isEntry` is false); the launcher's interrupt reaches main and each processor
as separate steps, in any order.

### Mutex

`pc[p]` is where the one user of process `p` stands in `lock()`, `unlock()` or
the disposal; `internalLock`, `yielding` (`yieldPromise`) and `listening`
(`waitingListener`) are the fields of `Mutex`. `owner` is the stored key. What
a peer has sent and the store has not yet executed is `tries` (commands of
`tryLock()`, of which several may be under way, also after one succeeded),
`complaints` (their `waiting` messages) and `yieldPc` (the two commands of
`yieldLock()`). Commands of one peer execute in order, and messages of a peer
arrive in order; the two are not ordered with each other. Timers may fire at any moment, which
allows every length. A key expires only when its owner is dead: that a
live owner refreshes it in time (every 5 of 10 seconds) is assumed, so a process that is
suspended for longer is outside the model. `Expires` is TRUE for Redis; the
local provider keeps keys until it restarts (`engine/db/storage/local/keyval.ts:178`),
and there `Granted` does not hold of a peer that waits for a dead owner.

`NeverFails` is stated as long as nobody disconnects, because a disposal yields
the lock with the listener still attached: a `waiting` message in this
moment calls `yieldLock()` again and its assertion (`mutex.ts:131`) fails. The
failure is caught and logged, and the lock is given away all the same.

### BlobStorage

`memory` is the value of a cache entry and `pending` the set of keys whose
entry carries the current `saveId`; `batch` is what a save has captured and not
yet written. `get()` and `del()` are two or three turns (look into the cache;
open or stat the file; write to the cache), and anything may happen between
them. `Flush` writes or unlinks one file, in any order; `rejected` are the keys whose file
a save was to unlink and did not find. No call is excluded. What goes wrong when
calls overlap is recorded by history variables, on which no other variable depends, and the properties say
what holds for all other keys:

* `written` is what the last `set`, `copy` or `del` of a key was to leave there, taken
  from its arguments. `ReadsLastWrite`: readers find it.
* `overtaken`: the key was written while a `get()` of it awaited the disk.
  `get()` then writes what it read to the cache without another look
  (`blob.ts:138`), over the newer value, which is neither read nor saved any more.
* `crossed`: so it was, or two deletions of the key overlapped, or it was deleted before
  its last write or deletion was on disk. `del()` (`blob.ts:82`) takes an entry of the
  current generation for one that was never saved: a blob that was overwritten and
  then deleted between two saves keeps its old file, which is back when the process
  restarts. And a second `del()`, while the save that captured the first one has not yet
  come to the file, finds it (`:96`) and marks it once more: the next save unlinks a
  file that is gone and rejects. A later write, with no other call of the key under way and no
  save of it, ends both. `UnlinksExist`: no other
  save rejects. `KeepsBlobs`: the storage refines `DurableMap`, where a snapshot
  is the map of what was written, except on crossed keys.

These exceptions are not remote. A player's code reaches them by what it does with memory
segments: writing and clearing one between two saves, or clearing it in two ticks
while a save is under way (`mods/memory/model.ts:53-58`; main does not await the save,
`engine/service/main.ts:184`), and its loads of other players' segments
(`mods/memory/driver.ts:86-88`) may overlap their owners' writes. Pushed code
(`engine/db/user/code.ts:56-61`) and flags (`mods/flag/model.ts:46-53`) are set and deleted
too. The consequences: a cleared segment comes back after a restart; a write is lost to
an older read; and the rejected save ends the process (`mustNotReject`,
`utility/async.ts:191`).

### RoomBlobs

A room's state is named by the time it was computed for and the life of the
server that computed it; `state` and `saved` are history variables with what
the rooms were when the tick, and the last save, began. The store is
`DurableMap` itself, with the game's time as one key and no crossed keys:
room blobs and the time are set and copied, not deleted, and a room's blob is read
by the worker that has the room before it is written. That nobody else, like the backend, still
awaits its file by then is assumed. `Process` is the worker's
`process` request with its three cases of the cache (`Kept`), `ProcessExtra` a
room asleep that was sent an intent, `Finalize` saves or copies, `Sleep` copies
to the other side, which is the side of the tick under way: a crash before that
tick is saved takes such a room one tick further than the others, and
`RollsBackTogether` says so. A tick's order (all are processed, then all are
finalized, then time advances) is what `Tick` and `BulkTick` establish.

### PubSub and Channel

In `PubSub` the ports are queues, `references` is the top thread's set of
subscriptions (its own, and one for each client), `syn` a client's queue of
promises, `entry` and `member` its `subscriptionsByKey`. `HearAck` includes
what awaited the promise, because continuations run before the port's next
message. Two rules are guards: a client's subscriptions to a channel do not
begin while its first one is not acknowledged (else both subscribe upstream,
`pubsub.ts:295`), and the last one does not end while another begins (else the
new one is added to a set nobody reads any more).

In `Channel` a loop's await is two turns (`waiting`, `resuming`); messages and
`disconnect()` may come between. Two rules are guards of `Disconnect`: no loop
was just handed a message (else `deferred!` is undefined and `disconnect()`
throws, `channel.ts:162`), and every loop has begun (else it does not look at
`didDisconnect` before it waits).

### Claims

`level`, `roomUser` and `user` are a controller's level, the room's `#user` and
the controller's `#user`; `controlled` is the scratch set `controlledRooms`.
Rooms go through `intents`, `tasks` and `done` independently. A first spawn is a
request and, later, an intent. `AsksSpawn` is the backend's route, which lets through a
user without rooms to send intents to (`known`, a scratch set that a room's
finalization fills, `mods/spawn/backend.ts:155`) and pushes the intent (`asked`);
`PlaceSpawn` is its processing, in whichever tick, which only looks at the room's user
(`mods/spawn/processor.ts:71`). The time of the last spawn is written after the push
(`backend.ts:181`), and the delay it asks for may be zero, so it is left out: several requests of one user
may pass before the first spawn is in the world. All those that find their room free
claim it, and nothing counts them: a user of level 1 may own several rooms. `raced` are the rooms that were
placed for a user already in the world, and `NeverOverLevel` is about the rest. A claim's task
reads the count and the level from two stores, inserts, counts again and may
withdraw, each a step. Store operations that intents sent are executed in
order before what the tasks send. A claim that fails leaves the controller's
mark (`user`) as it is, against the wish of the comment at
`mods/controller/processor.ts:102` that it should stand "while the promises are
pending": only the success resets it (`:126`). Such a room cannot be claimed by
anybody else, nor reserved, until it is released. The model has these states; no property is about them.

### Crossing

`blob` holds the creeps of a room's blob on each side of the double buffer,
`cached` those of the object a worker keeps, `live` those of the room under its
`RoomProcessor`. `outbox` is `interRoomIntents`, `finalIntents` the list of the
room that is to execute them; `fresh` are the rooms that
`publishInterRoomIntents` found new in `processing` and has yet to put into
`extra` (`finalizeExtraRooms`). `Process`, `PublishInterRoomIntents` and
`RoomDidProcess` are a room's turns in the worker, `ProcessExtra` a room asleep
that is woken to be finalized, `Finalize` executes the intents, updates the
relationships, and saves the room if it received an update or copies it if not.
`Advance` wakes active rooms and those whose alarm rings.

Where in a room a creep stands is left out: any creep may stay, die or leave
for any room. Destinations exist. A creep that is killed on a portal before
the portal's turn is buried and sent all the same (`mods/portal/processor.ts:20`);
here a creep that dies stays. The order of a tick is again `Tick`'s and
`BulkTick`'s.

### Terminals, Movement, Notifications, Roster

* `Terminals`: `ingress` is the scratch counter of outstanding sends, `saved`
  the destination as loaded from its blob (the state when the tick began),
  `inbox` the `terminalSend` intents. Nobody may take from a terminal what it
  is about to send (guard of `Move`): the task's finalizer subtracts without
  another look. The counter is cleared by deliveries only
  (`mods/market/processor.ts:65`), so amounts that were refused may stay in it;
  then later sends are refused too, never accepted too much.
* `Movement`: the resolver is a recursive function of the stack of creeps that
  wait for one another (`Resolve`), evaluated in the room as the first call found it: a call
  changes nothing before the last call under it has answered, and at most
  one creep can be asked, since no two start on one tile. (In safe mode creeps
  that are not in each other's way may share a tile, and start the next tick
  there; these placements are left out.) `hostile` are the creeps that the safe
  user's creeps pass through, none without safe mode. Moves are taken in any order, since
  powers only order them. A move is not
  withdrawn when two others want its tile (guard of `Withdraw`): the code
  deletes the tile's whole list (`movement.ts:94`), and the others would not see
  each other. In safe mode the properties speak of pairs that are in each
  other's way in both directions; two hostile creeps and one of the owner's may
  share tiles as the obstacle checker allows.
* `Notifications`: a row's count stands for the row. The history variable
  `overlapped` says whether somebody recorded while the user was drained; then
  an occurrence may be lost with its row (`mods/notifications/model.ts:69`),
  which is why `CountsConverge` is about behaviours without overlaps and
  `NothingStranded` about all.
* `Roster`: `client` is where a request of `mutate()` stands, with the blob it
  read; `dirty` and `mail` are the runner's flag and the messages it has not
  heard. Reads and writes of the store are atomic. With the local storage a roster
  that is not cached yet and is read from disk while it is written is the exception
  `overtaken` of `BlobStorage`, which could undo the write.

## Runs

| Run | Instance | What it shows |
|---|---|---|
| `two_workers` | 2 rooms, 1 player, 2 workers, look-ahead 2, 1 tick and the next queue | exact countdowns, no room twice, phases do not overlap, no lost wake-up, one current `tickFinished` |
| `sleeping_rooms` | 2 rooms, no players, 1 worker, alarms up to 2 ticks ahead, 1 push, 2 ticks | types, finalization before the next tick, pushed intents are not stranded, refinement of `BulkTick` |
| `two_users` | 1 room, 2 players, 1 crash of the runner, abandonment at any time | counts agree with players, only one live queue, refinement of `BulkTick` |
| `liveness` | 1 room, 1 player, 1 worker, 2 ticks | every tick ends |
| `services` | 2 processors and 2 rooms with an interrupt; or 1 of them with empty ticks and 3 requests of the operator | nobody left out of a tick, main starts, closes only between ticks, busy ticks finish |
| `mutex` | 2 peers, 3 locks, 1 crash, 1 disposal | types, mutual exclusion, no failed assertion, whoever waits is granted the lock |
| `storage` | four parts, see below | the blobs are a durable map whose readers find the last write, rooms are current and roll back together, messages are heard and yielded once and in order |
| `mods` | six parts, see below | levels, capacities and tiles are respected, creeps that cross rooms are neither lost nor doubled, rosters survive races, notifications are counted once and never stranded |
| `crash_stall`, `lost_activation`, `pause_stall`, `shutdown_hang` | smallest instances | the four disagreements below |

`storage` and `mods` check independent modules side by side. Their initial
states choose a *part*; the next-state relation runs that part's module and
leaves the others' variables as they were at first. As parts share no state,
their states add up and are not multiplied, and a property of a part is checked
in every behaviour of that part. The instances that runs and proofs share, with
the properties of each, are in `StorageParts` and `ModsParts`: what a run checks
of them on small constants is what a theorem states for all. The parts of
`storage` are *blobs* (2 clients, 2 keys, one of which has a file at the start, 2 values, 3 writes, 2 saves, 1
restart; while a call is under way, with which others may cross, only its key is called), *rooms* (2 workers, 2 rooms, 3 ticks; or 1 worker at a time with 1 save
and 1 crash: `Bounded`), *pubsub* (2 clients and the top thread, 2 subscriptions
at one client and 1 at the top, 2 messages) and *channel* (2 loops, 3
messages). Those of `mods` are *claims* (2 users, 2 rooms, levels up to 2, 2
ticks; at a time one user asks for spawns, of any rooms, as a tick begins, and they are processed in that tick; at most
3 claims run at once), *terminals* (3 rooms, so that two send to one; capacity 2), *crossing*
(2 rooms, 3 creeps of 2 players, 3 ticks), *moves* (4 creeps on 5 tiles and a
wall, none hostile or two hostile in safe mode), *power* (2 requests at once, 1
creep, 2 names, 2 attempts) and *notes* (2 recorders, 2 rows, 3 occurrences).

Bounds: `MaxTime` ticks are run in full and the queue after the last is built.
Two workers and two rooms are the least with which a room can be taken while
another is finished, and one can idle while the other is busy. Two players are
the least with which a room is released by the second of them, with a repeated
or late answer of the first in between. Two ticks let messages, timers and
runners of one tick arrive in the next; the aliasing of user queues by parity
needs three and is not reached. In `mutex` two peers and three locks let a peer lock, keep
the lock softly, lose it to the other and ask for it back; `MaxMail` only stops the
retry timer while messages pile up. `MaxNap`, `Prefetch`, `MaxCrashes`, `MaxPushes`
and `MaxRequests` bound what the environment may do. Workers, rooms, players, and the keys and values of blobs,
are symmetric; symmetry is used in safety runs only. Three writes are an overwrite, its deletion
and a write that heals the key; two saves are one that fails on what the other has unlinked.
The bounds on *claims* leave out requests that only wait: their spawn is placed, or not, as it would be
if they came as the tick begins. The proofs have none of these bounds.

In `storage` three ticks bring both sides of the double buffer and the cache of
the tick before last; one restart with a save before it is the least that rolls
back. Two subscriptions of one client and one of another thread are the least
with which a message is both forwarded and delivered locally. Two rooms and a
level of 2 let two claims pass the first look together when only one may
stand. Two rooms and two players let one creep arrive while its player's last
other creep leaves or dies, in a room that is awake, asleep or falls asleep;
three ticks bring a room to sleep, wake it, and take it out of a worker's cache.
Four creeps are a circle of three or four and a rival.

Deadlock is checked except where the system really stops: the runs with a
crash, where that is the finding or where a runner dead in mid-publication
leaves a room behind (`two_users`), and those of `Services`, where a processor
that has left and the message it misses leave nothing to do, `mutex`, where
everybody may stop asking, and `storage` and `mods`, whose parts end at their bounds.

**Fairness.** Main, the message loop, each worker's two loops and the timer are
event loops that turn as long as the process lives: weak fairness of each. Of the runner
only the turns after a player's code has returned are fair (`ResetCounts`,
`NotifyProcessors`): it may hang in that code, never take a user, or never come
back. In `Services` main, each processor, the processing of rooms (module
`Tick`'s `TickCompletes`) and the launcher's message are weakly fair; the
operator is not. In `Mutex` commands, messages and timers are fair, and whoever
has the lock unlocks it (a tick ends); nobody needs to ask for it, to disconnect or to die.

### Disagreements with the documentation

1. `crash_stall`: a runner that answers an abandoned tick and dies between the
   decrement and its repair leaves a room at -1, which no worker takes
   (`engine/processor/model.ts:114-124`). The shard stops, though runner work is
   documented as best-effort.
2. `lost_activation`: the runner's removal of a player without rooms
   (`engine/service/runner.ts:107`) may come after the finalization that gave
   him one. He is not run again, and his room waits for him until the timeout.
3. `pause_stall`: `tickFinished` of a tick without rooms is published before the
   pause loop, which drops it (`engine/service/main.ts:190-205`), against the
   comment at `engine/processor/model.ts:199`.
4. `shutdown_hang`: the end-of-tick halt of a processor
   (`engine/service/processor.ts:208`) is not limited to standalone mode, against
   the comment at `processor.ts:20`; main may start a tick nobody processes.

A fifth one came out of the proof of `NeverCollide`, which the run with one hostile creep
had not contradicted. In safe mode hostile creeps *c* and *d* want to exchange
places, and a creep *a* of the safe user wants *d*'s tile. *a* is resolved first
(hostile creeps have the lowest power) and walks through *d*, who is not in its
way. Then *c* pushes *d*, who finds *c* first in the stack ("Completing a circuit",
`movement.ts:109-111`) and moves onto *c*'s tile; back in *c*'s call *a* is
found on *d*'s old tile ("Check moved obstacles", `:143-148`), *c* stays, and *c* and
*d* share a tile. `mods/creep/test.ts:254` tests a hostile creep with a follower, not
an exchange. `NeverCollide` excepts just the two of such a `Broken`
circuit, and its proof shows that nothing else collides. To see it, check
`NeverCollide` of the part *moves* without its consequent, with `FALSE` instead.

The open question of `docs/intent-stall-investigation.md`, whether the runner can
still be publishing for tick N when N + 1 runs, is answered by `OneLiveQueue`:
it can, and it does no harm, because a missing member is not created (`XX`).

## Proofs

The theorems hold for all values of the constants that satisfy the assumptions
of their modules: `NullAssumption`, `TickAssumption`, `ServicesAssumption`, `MutexAssumption`,
`BlobStorageAssumption`, `ClaimsAssumption`, and the operators `Assumptions` of `RoomBlobs`,
`Channel`, `Notifications`, `Roster`, `Terminals` and `Movement`, which the theorems name as
hypotheses because those modules are instantiated. They say that sets are finite where
they are counted, that bounds are numbers, and that values like `Null` are none of the others.

* `TickProofs!TypeCorrect`: `Spec => []TypeOK`. `TypeOK` is not inductive: that a
  time stays within the ticks depends on program counters. `Clocks` adds what is
  needed: `MainClock` (a tick starts only at `shardTime <= MaxTime`; after both
  tasks `shardTime = tickTime + 1`), `WorkerClock`, `FinalizeClock`, `RunClock`
  (a busy loop works on a real tick). Lemmas give the types of the store
  commands; one lemma per process has a step for every action.
* `TickProofs!ActiveCounts`: `Spec => []ActiveCountsPlayers`, inductive given types. The
  score changes in two places: when the queue is begotten (`BegetCounts`: the
  waking rooms join with weight 0, and a room without a score has no players)
  and when a room is settled (`SettleCounts`: a changed list rewrites the score,
  an unchanged one needs no rewriting, only rooms without players leave).
* `TickProofs!BarriersHold`, one invariant for the barriers of a tick, from which
  `QueuesLiveOnce`, `CountdownExact`, `PhaseBarrier`, `TickBarrier` and
  `OneTickFinished` follow. None of them is inductive, nor are two or three together: that the
  countdown is exact depends on which queue is live, this on what main has
  done, and this on the countdown of the phase before. Its parts: times and timer at
  each point of main's loop (`MainStages`); no loop and no message is ahead of main
  (`NobodyAhead`) and only the queued tick has keys in the store (`OthersQuiet`); what
  a worker holds at each point of its loop (`WorkerShape`); a tick is in one
  phase, announced once (`Phases`); every room of the tick is in one place (`Apart`) and
  the rooms in some place are those of the tick, with every intent's (`Accounted`); the two
  counters are the numbers of rooms undone (`Countdown`) and of rooms unfinished or
  finished and unreported (`Tallied`).
* `TickPlayersProofs`: with this, `RendezvousExact` (`QueueCountsPlayers`),
  `PlayersFirst`, `PushedIntentsArrive`, `NoWakeUpLost`. The invariants are
  `Turns` (a player is queued, in the runner's hands, or has answered, never two of
  these, and the rooms the runner read for him are still his) with
  `QueueCountsPlayers` and `PlayersBeforeRoom` themselves; `Alarms` (a room that was sent an intent is queued, held, or
  rings in time); `Awake` (while a room is free a worker will look, is asked to, or will be).
* `TickPlayersProofs!TicksAreBulkSynchronous`: `Spec => BulkSynchronous`. `BegetRoomProcessQueue`, `AdvanceTime`,
  the workers' processing and finalization of a room map to steps of `BulkTick`; the lemmas
  show that its guards, which speak of all rooms, follow from counters and
  messages; every other action leaves the mapped state alone.
* `ServicesProofs!TypeCorrect`: `Spec => []TypeOK`.
* `ServicesProofs!ClosesCleanly`: `Spec => []ClosesBetweenTicks`, from `TickState`:
  there is at most one `tickFinished` in the channel and none while rooms are
  being worked on, nor before the queue is begotten (`FinishFollowsWork`); finalization
  happens only inside the tick (`WorkFollowsMain`); wake-ups of a tick do not
  outlive it (`WakesFollowMain`).
* `ServicesProofs!NobodySitsOut`: `Spec => []EveryProcessorTold`, given `TickState`: a processor
  that reported before the tick was published is told with it, one that reports
  later has a report under way, to which main answers with the tick.

* `MutexProofs!Exclusive`: `Spec => []MutualExclusion`. `MutualExclusion` speaks of
  program counters; `Ownership` ties them to the key: who holds the lock, has won it, or
  has yet to delete the key is its owner (`OwnsKey`), a soft lock is a lock
  (`SoftLockIsLock`), who gives the lock away has it no more (`GivenAway`), and the dead
  hold nothing but the key (`DeadOwnNothing`).
* `MutexProofs!Succeeds`: `Spec => []NeverFails`, from `Calm`: while nobody has
  disconnected, who yields does not listen until he asks again, and a command
  still under way finds the key taken.

* `BlobStorageProofs!ReadersFindLastWrite`, `UnlinksOnlyFiles` and `ImplementsMap`
  (`[]ReadsLastWrite`, `UnlinksExist`, `KeepsBlobs`), with `TypeCorrect`. `Inv` is types and, for each key,
  what is known of it by what has got in whose way: always, that a marked entry is what was
  written (`Marked`); unless it was overtaken, that cache, disk and reads under way
  have what was written (`Told`); unless calls crossed on it, that only what needs
  no saving is unmarked and a deletion that is marked or captured has its file (`Saved`), and what a read or a
  deletion under way found is still so (`Stands`). A step on another key touches none of this (lemma `Undisturbed`). Each action is then a
  step of `DurableMap` or a stutter; for `Save` the keys it passes over are those whose write it does not have, which
  `Saved` says are crossed.
* `ClaimsProofs!StaysWithinLevel` and `CountsEveryRoom`: `Spec => []NeverOverLevel` and
  `[]OwnedIsCounted`. `Claiming` says which claims may still succeed, `Counting` that whoever
  owns a room or is about to is in the scratch set (`Counted`) or the last operation about him enters him (`EndsWithInsert`), and
  `Within` that the rooms a user has, but for those of raced spawns, together with those his tasks have won (`Held`)
  stay within his level. The step that counts is the second look: what he owns
  or has claimed is in the set that is counted, so a count within the
  level bounds it, whatever others insert before or after (lemma `TaskStep`).
* `ModsProofs!NoneIsLost`: `Cross!Spec => []NobodyGetsLost`, from no assumption at all. `Order`
  is the order of the steps: letters exist while their room sends, intents
  wait in rooms that are still to be finalized (`IntentsWait`), a sleeping room
  among them is or will be in `extra` (`SleepersWake`). `Storage` says that a
  worker's object is the blob (`KeptIsNow`), that a room without update is as it was loaded
  (`UnchangedIsNow`, why copying is enough) and that both sides of a sleeping
  room are empty (`SleepersAreEmpty`). With these every step moves a creep from
  one place to one other place (`Alone`).

* `ModsProofs!RunnersAgree` and `RequestsAreAtomic` (`Roster`): a request about to write has been
  checked against the blob that it read, at that moment or before (`Passed`); the view of a runner that
  works is the roster, or it is marked dirty, or a message or a publication is to come (`Fresh`).
* `ModsProofs!TerminalsAreNotOverfilled`: until a terminal's tick is finalized, all sends to it that may still be
  paid out are in its counter (`Counted`) and fit with what it held when the tick began, or take
  from it (`Fitting`). It needs sums over finite sets.
  `MapThenSumSet` is recursive, and what the lemmas on it (`SumChanges`, `SumParts`)
  say follows by induction over the subsets of a set (`SubsetInduction`), stated for a set of
  subsets instead of a predicate.
* `ModsProofs!NobodyIsStranded` and `EachOccurrenceCounts` (`Notifications`): a row's user is
  scheduled in time, or a recorder will do so (`Covered`), unless the drain that
  runs has the row or will schedule him (`Owed`); what was recorded is what was
  delivered, plus what the rows count less those that are delivered and not yet removed
  (`Removing`), plus what recorders have yet to write (`Accounts`, `Uncounted`).
* `ModsProofs!NobodyCollides`: `Walk!Spec => []NeverCollide`. `WalkInv` says that positions follow from who
  has moved (`Standing`), that no two alike moved to one tile (`Distinct`), that all who want a
  tile are in its list (`Contested`), and that one who moved onto the start of one
  who did not has a broken circuit to show (`Yields`). A step is a whole recursion, so the lemma
  `ResolveOutcome` says what a call leaves behind for every stack of creeps that push one
  another (`Linked`): either nobody who moved stands where another stayed, or all who moved are
  in one circuit with the stack, and only its first creep is still to move.
  It is proved by induction on the number of creeps not in the stack
  (`Left`); that `Resolve` satisfies its own recursive definition is a lemma too, by the
  same induction (`ResolvingExists`).
* `ModsProofs!EverybodyMovesOn`: `Walk!Spec => []MovesGoThrough`. Creeps that exchange places with nobody who may
  enter one of them without a push are a `Round`. `Turning` says that at any moment it turns
  as a whole or waits as a whole: who of it was resolved has moved, a place of it that
  was entered has been left, and a place that was left was left for who wanted it. Only the first two
  are needed at the end; the third makes it inductive, for a creep must find the next of its round
  where it was. The lemmas are about one recursion again (`StackInduction`): one
  that a creep of the round starts goes around all of it and comes back (`Insiders`, `Goes`), and any
  other comes back from the round with a refusal and has left it alone (`Outsiders`, `Waits`).
  Nobody is resolved without having moved but the one whose move it was, or for a wall
  (`OnlyTheFirst`), so a free tile that is not taken still has somebody to ask for it (`Taken`).
* `StorageProofs!ProcessesCurrent` and `CrashesGoBack` (`RoomBlobs`): each side of the double
  buffer has the room as it was when the tick began, or as the worker left it, by how far the room is in
  the tick (`InStore`); a worker's cache agrees with that as long as anybody may ask it
  (`InCache`); no room is finalized while another is still to be processed (`Barrier`); and what
  is saved is what a crash takes the rooms back to (`GoesBack`).
* `StorageProofs!YieldsInOrder` (`Channel`): what a loop has yielded, was handed and has queued is what
  was published since it began (`Counts`, `Handed`, `InOrder`), and a loop that waits is the one
  whose promise a message resolves (`Promised`).
* `StorageProofs!EverybodyHearsAll` (`PubSub`): what is on its way to a client is a sequence of *items*, the
  messages of others and what its own acknowledged requests were for. An acknowledgement does
  not say what for: `Paired` numbers acknowledgements and open requests so that the client's queue of
  promises `syn` says it, in order. `Shape` bounds what may be on its way together (one
  request per beginning subscription, none while the last one ends). `Follows` gives each item
  the number of messages the top thread had handled when it sent it: the stamps advance message by message, a
  subscription among the items began at its stamp, and a listener has heard exactly what it
  is told up to the first stamp. With nothing on its way the first stamp is the last, and the
  listener has heard all. `PubInv` is that for every client the top thread knows, and
  the plain fact for the top thread's own listeners.

Only model-checked: every liveness property (fairness and ENABLED are out of the
prover's reach). All invariants and safety properties that the passing runs check are theorems.

## Not modelled

Most of the repository's lines are not the engine: sample bots and a
reinforcement learning environment (`src/samples`), the game API that runs in
the players' sandbox, the rules of the single mods, schema code generation, the
HTTP backend and the client. They are sequential computation on game data, or
input and output, and the protocols above do not look at what they compute; so
the modelled lines are a small share of all.

Of the engine itself these are left out:

* Failure of a worker or of main: the launcher then ends the server.
* `utility/file-lock.ts`: its comment acknowledges the race of two processes
  that both find a dead lock. `utility/responder.ts` only matches answers to
  requests.
* The sort of tick processors by their constraints
  (`engine/processor/index.ts:116-163`) puts some out of order for certain orders of
  registration; the order the mods register in is not one of them.
* `consumeSortedSetMembers` (`engine/db/async.ts:145-165`) may take the wrong member out of
  the caller's array when several are gone; the room is then tried later, so
  `Tick`'s workers, which may look at any room, allow it.

`PROJECT.json` lists every component with its
status, and the hazards of the code with the properties that cover them, or why
none does.

## Plan

1. Done: `Keyval`, `Tick`, `BulkTick`, `TickRefinement`, `Services`, `Mutex`,
   `BlobStorage`, `DurableMap`, `RoomBlobs`, `PubSub`, `Channel`, `Claims`,
   `Terminals`, `Crossing`, `Movement`, `Notifications`, `Roster`, and the theorems above.
2. An abstract lock that `Mutex` implements; the tick and the scripts as its users.
3. Pure algorithms against reference definitions: `IntentConstraints`,
   `consumeSortedSetMembers`.
4. `FileLock`, `Responder`; the processor's shutdown as a property of its own.
