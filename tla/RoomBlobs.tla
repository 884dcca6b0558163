------------------------------ MODULE RoomBlobs ------------------------------
(***************************************************************************)
(* Where the state of a room lives (engine/db/shard.ts, processor/         *)
(* worker.ts and room.ts): in two blobs, one for even and one for odd      *)
(* times, in a store that is saved now and then and rolls back to its last *)
(* save when the process ends; and in the caches of workers, which keep    *)
(* the rooms they processed in one tick for the next.                      *)
(*                                                                         *)
(* A tick is what module Tick establishes of it: every room in the queue   *)
(* is processed by some worker, then all of them are finalized, and then   *)
(* the time advances.  The store is the map of module DurableMap, with the *)
(* game time as one of its keys and no calls that cross on any of them:    *)
(* rooms and the time are written often and deleted by nobody here.  A     *)
(* state of a room is named by the time it was computed for and the life   *)
(* of the server that computed it.                                         *)
(***************************************************************************)
EXTENDS Integers, FiniteSets

CONSTANTS
  Workers,
  Rooms,
  Time,        \* the key of the game time
  NoWorker,    \* no worker has the room
  MaxTime,     \* bound: game time
  MaxSaves,    \* bound: calls of save()
  MaxRestarts  \* bound: crashes of the server

VARIABLES
  map, snapshot, durable,   \* the store, see DurableMap
  phase,       \* of a room in this tick: "asleep", "queued", "processed", "finalized", "slept"
  processor,   \* the worker with the room's context
  context,     \* the state of the room in it
  cacheTime, roomCache, nextRoomCache,   \* per worker
  state,       \* history: the rooms' states when the tick began
  saved,       \* history: the same of the tick in which the last save began
  life, saves

store == <<map, snapshot, durable>>
caches == <<cacheTime, roomCache, nextRoomCache>>
tick == <<phase, processor, context>>
vars == <<store, tick, caches, state, saved, life, saves>>

Versions == [time : 0..MaxTime, life : 0..MaxRestarts]
Blobs == (0..1) \X Rooms
Entries == Blobs \cup {Time}

Assumptions == {MaxTime, MaxSaves, MaxRestarts} \subseteq Nat /\ Time \notin Blobs

Store == INSTANCE DurableMap WITH
  Keys <- Entries,
  Contents <- Versions \cup 0..MaxTime,
  crossed <- {}

time == map[Time]

\* roomKeyForTime
Key(r, t) == <<t % 2, r>>

Nothing == [r \in {} |-> 0]
NoState == [time |-> 0, life |-> 0]

\* room-gen and the importer save a room at the time and copy it to the next
Init ==
  /\ map = [k \in Entries |-> IF k = Time THEN 0 ELSE NoState]
  /\ snapshot = map /\ durable = map
  /\ phase = [r \in Rooms |-> "queued"]
  /\ processor = [r \in Rooms |-> NoWorker] /\ context = [r \in Rooms |-> NoState]
  /\ cacheTime = [w \in Workers |-> -1]
  /\ roomCache = [w \in Workers |-> Nothing] /\ nextRoomCache = [w \in Workers |-> Nothing]
  /\ state = [r \in Rooms |-> NoState] /\ saved = state
  /\ life = 0 /\ saves = 0

With(cache, r, version) == [q \in DOMAIN cache \cup {r} |-> IF q = r THEN version ELSE cache[q]]
-----------------------------------------------------------------------------
(***************************************************************************)
(* A worker processes a room                                               *)
(***************************************************************************)
\* mutant: the rooms of whatever tick the worker processed last
KeptForever(w) == IF cacheTime[w] = time THEN roomCache[w] ELSE nextRoomCache[w]

\* "Flush cache if time has changed"
Kept(w) ==
  IF cacheTime[w] = time THEN roomCache[w]
  ELSE IF cacheTime[w] + 1 = time THEN nextRoomCache[w]
  ELSE Nothing

\* loadRoom, unless the worker has the room
Loaded(w, r) == IF r \in DOMAIN Kept(w) THEN Kept(w)[r] ELSE map[Key(r, time)]

HasContext(w, r, version) ==
  /\ processor' = [processor EXCEPT ![r] = w]
  /\ context' = [context EXCEPT ![r] = version]

Process(w, r) ==
  /\ phase[r] = "queued" /\ time < MaxTime
  /\ phase' = [phase EXCEPT ![r] = "processed"]
  /\ HasContext(w, r, Loaded(w, r))
  /\ cacheTime' = [cacheTime EXCEPT ![w] = time]
  /\ roomCache' = [roomCache EXCEPT ![w] = Kept(w)]
  /\ nextRoomCache' = [nextRoomCache EXCEPT ![w] =
       With(IF cacheTime[w] = time THEN nextRoomCache[w] ELSE Nothing, r, Loaded(w, r))]
  /\ UNCHANGED <<store, state, saved, life, saves>>

AllProcessed == \A r \in Rooms : phase[r] # "queued"

\* a room asleep that was sent an intent: loaded, processed and finalized once all rooms were processed
ProcessExtra(w, r) ==
  /\ AllProcessed /\ phase[r] = "asleep" /\ time < MaxTime
  /\ phase' = [phase EXCEPT ![r] = "processed"]
  /\ HasContext(w, r, map[Key(r, time)])
  /\ nextRoomCache' = [nextRoomCache EXCEPT ![w] = With(nextRoomCache[w], r, map[Key(r, time)])]
  /\ UNCHANGED <<store, cacheTime, roomCache, state, saved, life, saves>>
-----------------------------------------------------------------------------
(***************************************************************************)
(* finalize()                                                              *)
(***************************************************************************)
SaveRoom(r, version) == Store!Write(Key(r, time + 1), version)

\* copyRoomFromPreviousTick(time + 1)
CopyRoom(r) == Store!Write(Key(r, time + 1), map[Key(r, time)])

\* the object in the worker's cache is the one that was processed and finalized
Finalize(w, r) ==
  /\ AllProcessed /\ phase[r] = "processed" /\ processor[r] = w
  /\ phase' = [phase EXCEPT ![r] = "finalized"]
  /\ \/ LET version == [time |-> time + 1, life |-> life]   \* it received an update
        IN /\ SaveRoom(r, version)
           /\ context' = [context EXCEPT ![r] = version]
           /\ nextRoomCache' = [nextRoomCache EXCEPT ![w] = With(nextRoomCache[w], r, version)]
     \/ CopyRoom(r) /\ UNCHANGED <<context, nextRoomCache>>
  /\ UNCHANGED <<processor, cacheTime, roomCache, state, saved, life, saves>>

\* mutant: a room that goes to sleep keeps an older state for the other times
SleepsUncopied(r) ==
  /\ phase[r] = "finalized"
  /\ phase' = [phase EXCEPT ![r] = "slept"]
  /\ UNCHANGED <<store, processor, context, caches, state, saved, life, saves>>

\* sleepRoomUntil(time + 1): to the other side of the buffer, which is this tick's
Sleep(r) ==
  /\ phase[r] = "finalized"
  /\ Store!Write(Key(r, time + 2), map[Key(r, time + 1)])
  /\ phase' = [phase EXCEPT ![r] = "slept"]
  /\ UNCHANGED <<processor, context, caches, state, saved, life, saves>>
-----------------------------------------------------------------------------
(***************************************************************************)
(* The next tick, saves and crashes                                        *)
(***************************************************************************)
\* rooms awake stay in the queue, and alarms or activations wake others
Advance ==
  /\ time < MaxTime
  /\ \A r \in Rooms : phase[r] \in {"asleep", "finalized", "slept"}
  /\ Store!Write(Time, time + 1)
  /\ \E woken \in SUBSET {r \in Rooms : phase[r] # "finalized"} :
       phase' = [r \in Rooms |-> IF phase[r] = "finalized" \/ r \in woken THEN "queued" ELSE "asleep"]
  /\ processor' = [r \in Rooms |-> NoWorker]
  /\ state' = [r \in Rooms |-> IF phase[r] = "asleep" THEN state[r] ELSE context[r]]
  /\ context' = [r \in Rooms |-> NoState]
  /\ UNCHANGED <<caches, saved, life, saves>>

\* main saves between ticks, but a save that waited for another begins later
Save ==
  /\ saves < MaxSaves /\ saves' = saves + 1
  /\ Store!BeginSave({})
  /\ saved' = state
  /\ UNCHANGED <<tick, caches, state, life>>

Saved ==
  /\ durable # snapshot
  /\ Store!Flush(Entries)
  /\ UNCHANGED <<tick, caches, state, saved, life, saves>>

\* every process ends, perhaps amid a save; when they are back all rooms are active
Restart(written) ==
  /\ life < MaxRestarts /\ life' = life + 1
  /\ Store!Restart(written)
  /\ phase' = [r \in Rooms |-> "queued"]
  /\ processor' = [r \in Rooms |-> NoWorker] /\ context' = [r \in Rooms |-> NoState]
  /\ cacheTime' = [w \in Workers |-> -1]
  /\ roomCache' = [w \in Workers |-> Nothing] /\ nextRoomCache' = [w \in Workers |-> Nothing]
  /\ state' = [r \in Rooms |-> map'[Key(r, map'[Time])]]
  /\ saved' = state'
  /\ UNCHANGED saves

\* bound: of the files a save writes in any order, the time's comes before or after the rooms'
Tears == {{}, {Time}, Blobs}

Next ==
  \/ \E w \in Workers, r \in Rooms : Process(w, r) \/ ProcessExtra(w, r) \/ Finalize(w, r)
  \/ \E r \in Rooms : Sleep(r)
  \/ Advance
  \/ Save
  \/ Saved
  \/ \E written \in Tears : Restart(written)

Spec == Init /\ [][Next]_vars
-----------------------------------------------------------------------------
(* What a worker processes is the room as the tick before left it, wherever *)
(* the worker found it (the 'process' case of worker.ts); and as long as a  *)
(* room is to be processed, whoever loads any room at this time finds it so *)
(* too: player code that the tick waits for runs on one state of the world  *)
(* (loadRoom, saveRoom).                                                    *)
ReadsCurrent ==
  /\ \A r \in Rooms : phase[r] = "processed" => context[r] = state[r]
  /\ (\E r \in Rooms : phase[r] = "queued") => \A r \in Rooms : map[Key(r, time)] = state[r]

(* A crash that does not interrupt a save takes each room back to what it   *)
(* was at the time that was saved, or, if it had gone to sleep in the very  *)
(* tick that was under way, one tick further; never to an older state.      *)
RollsBackTogether ==
  [][(life' # life /\ durable = snapshot) =>
       \A r \in Rooms : LET back == map'[Key(r, time')]
                       IN back = saved[r] \/ (back.time = time' + 1 /\ map'[Key(r, time' + 1)] = back)]_vars
=============================================================================
