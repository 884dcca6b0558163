---------------------------- MODULE StorageProofs ----------------------------
(***************************************************************************)
(* Theorems about what stands on the storage, for all values of the        *)
(* constants: the states of rooms in the store and in the caches of        *)
(* workers (RoomBlobs), the loops that read a subscription (Channel), and  *)
(* the subscriptions of all threads to one channel (PubSub).  They share   *)
(* no state.                                                               *)
(***************************************************************************)
EXTENDS StorageParts, Integers, Sequences, FiniteSets, WellFoundedInduction, TLAPS

-----------------------------------------------------------------------------
(***************************************************************************)
(* Rooms.                                                                  *)
(***************************************************************************)

(***************************************************************************)
(* The inductive invariant: types; where the state of each room is found;  *)
(* what a worker's cache holds; and what the last save has captured.       *)
(***************************************************************************)
Stores ==
  {m \in [Shard!Entries -> Shard!Versions \cup 0..MaxTime] : m[Time] \in 0..MaxTime /\ \A k \in Shard!Blobs : m[k] \in Shard!Versions}

Caches == UNION {[rs -> Shard!Versions] : rs \in SUBSET Rooms}
Started == {"processed", "finalized", "slept"}

Types ==
  /\ map \in Stores /\ snapshot \in Stores /\ durable \in Stores
  /\ phase \in [Rooms -> {"asleep", "queued"} \cup Started]
  /\ processor \in [Rooms -> Workers \cup {NoWorker}] /\ context \in [Rooms -> Shard!Versions]
  /\ cacheTime \in [Workers -> -1..MaxTime]
  /\ roomCache \in [Workers -> Caches] /\ nextRoomCache \in [Workers -> Caches]
  /\ state \in [Rooms -> Shard!Versions] /\ saved \in [Rooms -> Shard!Versions]
  /\ life \in 0..MaxCrashes
  /\ \A r \in Rooms : phase[r] \in Started => Shard!time < MaxTime

\* this tick's side of the buffer has the room as the tick began, until it goes to sleep; the next
\* tick's has what the worker made of it, from its finalization on
InStore(r) ==
  /\ phase[r] # "slept" => map[Shard!Key(r, Shard!time)] = state[r]
  /\ phase[r] = "asleep" => map[Shard!Key(r, Shard!time + 1)] = state[r]
  /\ phase[r] = "processed" => context[r] = state[r]
  /\ phase[r] \in {"finalized", "slept"} =>
       /\ map[Shard!Key(r, Shard!time + 1)] = context[r]
       /\ context[r] = state[r] \/ context[r].time = Shard!time + 1
  /\ phase[r] = "slept" => map[Shard!Key(r, Shard!time)] = context[r]

\* nothing is finalized while a room is still to be processed
Barrier == ~Shard!AllProcessed => \A r \in Rooms : phase[r] \notin {"finalized", "slept"}

\* a cache of this tick has the rooms as they were and as the worker leaves them; one of the tick
\* before has them as they are, as long as anybody may ask it
InCache(w) ==
  /\ cacheTime[w] <= Shard!time
  /\ cacheTime[w] = Shard!time =>
       /\ \A r \in DOMAIN roomCache[w] : roomCache[w][r] = state[r]
       /\ \A r \in DOMAIN nextRoomCache[w] :
            processor[r] = w /\ phase[r] \in Started /\ nextRoomCache[w][r] = context[r]
  /\ cacheTime[w] + 1 = Shard!time /\ ~Shard!AllProcessed =>
       \A r \in DOMAIN nextRoomCache[w] : nextRoomCache[w][r] = state[r]

\* what a crash would go back to, once the save has ended
GoesBack(m, r, version) ==
  LET back == m[Shard!Key(r, m[Time])]
  IN back = version \/ (back.time = m[Time] + 1 /\ m[Shard!Key(r, m[Time] + 1)] = back)

Inv ==
  /\ Types /\ Barrier
  /\ \A r \in Rooms : InStore(r)
  /\ \A w \in Workers : InCache(w)
  /\ \A r \in Rooms : GoesBack(snapshot, r, saved[r])
-----------------------------------------------------------------------------
(* the two sides of the buffer *)
LEMMA Sides ==
  ASSUME Shard!Assumptions, NEW t \in Nat, NEW r \in Rooms
  PROVE  /\ Shard!Key(r, t) \in Shard!Blobs /\ Shard!Key(r, t) \in Shard!Entries /\ Shard!Key(r, t) # Time /\ Shard!Key(r, t + 1) # Time
         /\ Shard!Key(r, t + 1) \in Shard!Blobs /\ Shard!Key(r, t + 1) \in Shard!Entries
         /\ Shard!Key(r, t + 2) = Shard!Key(r, t) /\ Shard!Key(r, t + 1) # Shard!Key(r, t)
         /\ \A q \in Rooms : q # r =>
              /\ Shard!Key(q, t) \notin {Shard!Key(r, t), Shard!Key(r, t + 1)}
              /\ Shard!Key(q, t + 1) \notin {Shard!Key(r, t), Shard!Key(r, t + 1)}
BY DEF Shard!Assumptions, Shard!Key, Shard!Blobs, Shard!Entries

(* time is a tick *)
LEMMA TimeType == Shard!Assumptions /\ Types => Shard!time \in 0..MaxTime /\ Shard!time \in Nat /\ MaxTime \in Nat
BY DEF Shard!Assumptions, Types, Stores, Shard!time

(* writing a blob keeps the time and every other blob *)
LEMMA WriteBlob ==
  ASSUME Shard!Assumptions, NEW m \in Stores, NEW k \in Shard!Blobs, NEW v \in Shard!Versions
  PROVE  /\ [m EXCEPT ![k] = v] \in Stores
         /\ [m EXCEPT ![k] = v][Time] = m[Time] /\ [m EXCEPT ![k] = v][k] = v
         /\ \A j \in Shard!Blobs : j # k => [m EXCEPT ![k] = v][j] = m[j]
<1>1. k \in Shard!Entries /\ k # Time /\ Shard!Blobs \subseteq Shard!Entries /\ Time \in Shard!Entries
  BY DEF Shard!Assumptions, Shard!Entries
<1>2. m \in [Shard!Entries -> Shard!Versions \cup 0..MaxTime] /\ m[Time] \in 0..MaxTime /\ \A j \in Shard!Blobs : m[j] \in Shard!Versions
  BY DEF Stores
<1> QED BY <1>1, <1>2 DEF Stores

(* a cache with one room more *)
LEMMA WithOne ==
  ASSUME NEW cache \in Caches, NEW r \in Rooms, NEW v \in Shard!Versions
  PROVE  /\ Shard!With(cache, r, v) \in Caches /\ DOMAIN Shard!With(cache, r, v) = DOMAIN cache \cup {r}
         /\ Shard!With(cache, r, v)[r] = v /\ DOMAIN cache \subseteq Rooms
         /\ \A q \in DOMAIN cache : q # r => Shard!With(cache, r, v)[q] = cache[q]
<1>1. PICK rs \in SUBSET Rooms : cache \in [rs -> Shard!Versions]
  BY DEF Caches
<1>2. DOMAIN Shard!With(cache, r, v) = rs \cup {r} /\ DOMAIN cache = rs
  BY <1>1 DEF Shard!With
<1>3. Shard!With(cache, r, v) \in [rs \cup {r} -> Shard!Versions]
  BY <1>1 DEF Shard!With
<1>4. rs \cup {r} \in SUBSET Rooms
  BY <1>1
<1>5. Shard!With(cache, r, v) \in Caches
  BY <1>3, <1>4 DEF Caches
<1>6. Shard!With(cache, r, v)[r] = v /\ \A q \in DOMAIN cache : q # r => Shard!With(cache, r, v)[q] = cache[q]
  BY <1>1 DEF Shard!With
<1> QED BY <1>1, <1>2, <1>5, <1>6

(* the empty cache *)
LEMMA NothingCached == Shard!Nothing \in Caches /\ DOMAIN Shard!Nothing = {}
<1>1. Shard!Nothing \in [{} -> Shard!Versions] /\ DOMAIN Shard!Nothing = {}
  BY DEF Shard!Nothing
<1> QED BY <1>1 DEF Caches

(* at first the two sides of every room are the same *)
LEMMA InitInv == Shard!Assumptions /\ Shard!Init => Inv
<1> SUFFICES ASSUME Shard!Assumptions, Shard!Init PROVE Inv
  OBVIOUS
<1>1. Shard!NoState \in Shard!Versions /\ 0 \in 0..MaxTime /\ Time \in Shard!Entries /\ Shard!Blobs \subseteq Shard!Entries
  BY DEF Shard!NoState, Shard!Versions, Shard!Assumptions, Shard!Entries
<1>2. map \in Stores /\ Shard!time = 0 /\ \A k \in Shard!Blobs : map[k] = Shard!NoState
  BY <1>1 DEF Shard!Init, Stores, Shard!time, Shard!Assumptions
<1>3. Types
  BY <1>1, <1>2, NothingCached DEF Shard!Init, Types, Started, Shard!Assumptions
<1>4. Barrier
  BY DEF Shard!Init, Barrier
<1>5. ASSUME NEW r \in Rooms PROVE InStore(r) /\ GoesBack(snapshot, r, saved[r])
  BY <1>1, <1>2, Sides, TimeType, <1>3 DEF Shard!Init, InStore, GoesBack, Shard!time
<1>6. ASSUME NEW w \in Workers PROVE InCache(w)
  BY <1>2, NothingCached DEF Shard!Init, InCache
<1> QED BY <1>3, <1>4, <1>5, <1>6 DEF Inv
-----------------------------------------------------------------------------
(***************************************************************************)
(* A worker processes rooms.                                               *)
(***************************************************************************)
(* wherever the worker finds a room it is to process, it is the room as the tick began *)
LEMMA LoadsCurrent ==
  ASSUME Shard!Assumptions, Inv, NEW w \in Workers, NEW r \in Rooms, phase[r] = "queued"
  PROVE  Shard!Loaded(w, r) = state[r] /\ Shard!Loaded(w, r) \in Shard!Versions
<1>1. InStore(r) /\ InCache(w) /\ Types /\ ~Shard!AllProcessed
  BY DEF Inv, Shard!AllProcessed
<1>2. map[Shard!Key(r, Shard!time)] = state[r]
  BY <1>1 DEF InStore
<1>3. r \in DOMAIN Shard!Kept(w) => Shard!Kept(w)[r] = state[r]
  BY <1>1, NothingCached DEF InCache, Shard!Kept
<1> QED BY <1>1, <1>2, <1>3 DEF Shard!Loaded, Types

(* the caches of the worker after it has processed a room *)
LEMMA ProcessSteps ==
  ASSUME Shard!Assumptions, Inv, NEW w \in Workers, NEW r \in Rooms, Shard!Process(w, r)
  PROVE  Inv'
<1> DEFINE v == Shard!Loaded(w, r)
           old == IF cacheTime[w] = Shard!time THEN nextRoomCache[w] ELSE Shard!Nothing
<1>1. phase[r] = "queued" /\ Shard!time < MaxTime /\ ~Shard!AllProcessed
  BY DEF Shard!Process, Shard!AllProcessed
<1>2. v = state[r] /\ v \in Shard!Versions
  BY <1>1, LoadsCurrent
<1>3. Types /\ Barrier /\ InCache(w)
  BY DEF Inv
<1>4. map' = map /\ Shard!time' = Shard!time /\ state' = state /\ snapshot' = snapshot /\ durable' = durable
      /\ saved' = saved /\ life' = life
  BY DEF Shard!Process, Shard!store, Shard!time
<1>5. /\ phase' = [phase EXCEPT ![r] = "processed"] /\ processor' = [processor EXCEPT ![r] = w]
      /\ context' = [context EXCEPT ![r] = v]
      /\ cacheTime' = [cacheTime EXCEPT ![w] = Shard!time] /\ roomCache' = [roomCache EXCEPT ![w] = Shard!Kept(w)]
      /\ nextRoomCache' = [nextRoomCache EXCEPT ![w] = Shard!With(old, r, v)]
  BY DEF Shard!Process, Shard!HasContext
<1>6. old \in Caches /\ Shard!Kept(w) \in Caches
  BY <1>3, NothingCached DEF Types, Shard!Kept
<1>7. Shard!time \in 0..MaxTime /\ Shard!time \in Nat /\ MaxTime \in Nat
  BY <1>3, TimeType
<1>8. Types'
  <2>1. Shard!With(old, r, v) \in Caches
    BY <1>2, <1>6, WithOne
  <2>2. -1..MaxTime \subseteq Int /\ Shard!time \in -1..MaxTime
    BY <1>7
  <2> HIDE DEF v, old
  <2> QED BY <1>1, <1>2, <1>3, <1>4, <1>5, <1>6, <2>1, <2>2 DEF Types, Started
<1>9. Barrier'
  <2>1. \A q \in Rooms : phase[q] \notin {"finalized", "slept"}
    BY <1>1, <1>3 DEF Barrier
  <2> QED BY <1>3, <1>5, <2>1 DEF Barrier, Types
<1>10. ASSUME NEW q \in Rooms PROVE InStore(q)'
  <2>1. InStore(q) /\ phase[q] \in {"asleep", "queued"} \cup Started
    BY <1>3 DEF Inv, Types
  <2> HIDE DEF v
  <2> QED BY <1>1, <1>2, <1>3, <1>4, <1>5, <2>1 DEF InStore, Types
<1>11. ASSUME NEW x \in Workers PROVE InCache(x)'
  <2>1. InCache(x) /\ (\A q \in DOMAIN nextRoomCache[x] : q \in Rooms)
    BY <1>3, WithOne DEF Inv, Types, Caches
  <2>3. CASE x # w
    <3>1. cacheTime'[x] = cacheTime[x] /\ roomCache'[x] = roomCache[x] /\ nextRoomCache'[x] = nextRoomCache[x]
      BY <1>3, <1>5, <2>3 DEF Types
    <3>2. cacheTime[x] = Shard!time => r \notin DOMAIN nextRoomCache[x]
      BY <1>1, <2>1 DEF InCache, Started
    <3>3. ~Shard!AllProcessed' => ~Shard!AllProcessed
      BY <1>1
    <3>4. \A q \in Rooms : q # r => phase'[q] = phase[q] /\ processor'[q] = processor[q] /\ context'[q] = context[q]
      BY <1>3, <1>5 DEF Types
    <3> QED BY <1>4, <2>1, <3>1, <3>2, <3>3, <3>4 DEF InCache
  <2>4. CASE x = w
    <3>1. cacheTime'[x] = Shard!time /\ roomCache'[x] = Shard!Kept(w) /\ nextRoomCache'[x] = Shard!With(old, r, v)
      BY <1>3, <1>5, <2>4 DEF Types
    <3>2. \A q \in DOMAIN Shard!Kept(w) : Shard!Kept(w)[q] = state[q]
      BY <1>1, <1>3, NothingCached DEF InCache, Shard!Kept
    <3>3. ASSUME NEW q \in DOMAIN Shard!With(old, r, v)
          PROVE  processor'[q] = w /\ phase'[q] \in Started /\ Shard!With(old, r, v)[q] = context'[q]
      <4>1. CASE q = r
        <5>1. Shard!With(old, r, v)[r] = v
          BY <1>2, <1>6, WithOne
        <5> QED BY <1>3, <1>5, <4>1, <5>1 DEF Types, Started
      <4>2. CASE q # r
        <5>1. q \in DOMAIN old /\ Shard!With(old, r, v)[q] = old[q] /\ q \in Rooms
          <6>1. /\ DOMAIN Shard!With(old, r, v) = DOMAIN old \cup {r} /\ DOMAIN old \subseteq Rooms
                /\ \A i \in DOMAIN old : i # r => Shard!With(old, r, v)[i] = old[i]
            <7> HIDE DEF old, v
            <7> QED BY ONLY <1>2, <1>6, r \in Rooms, WithOne
          <6> HIDE DEF old, v
          <6> QED BY <3>3, <4>2, <6>1
        <5>2. cacheTime[w] = Shard!time /\ old = nextRoomCache[w]
          BY <5>1, NothingCached
        <5>3. processor[q] = w /\ phase[q] \in Started /\ nextRoomCache[w][q] = context[q]
          BY <1>3, <5>1, <5>2 DEF InCache
        <5> HIDE DEF old, v
        <5> QED BY <1>3, <1>5, <4>2, <5>1, <5>2, <5>3 DEF Types
      <4> QED BY <4>1, <4>2
    <3>4. cacheTime'[x] + 1 # Shard!time'
      BY <1>4, <1>7, <3>1
    <3> HIDE DEF old, v
    <3> QED BY <1>4, <1>7, <2>4, <3>1, <3>2, <3>3, <3>4 DEF InCache
  <2> QED BY <2>3, <2>4
<1>12. \A q \in Rooms : GoesBack(snapshot, q, saved[q])'
  BY <1>4 DEF Inv, GoesBack
<1> QED BY <1>8, <1>9, <1>10, <1>11, <1>12 DEF Inv

(* a room that is woken by an intent once all others have been processed *)
LEMMA ProcessExtraSteps ==
  ASSUME Shard!Assumptions, Inv, NEW w \in Workers, NEW r \in Rooms, Shard!ProcessExtra(w, r)
  PROVE  Inv'
<1> DEFINE v == map[Shard!Key(r, Shard!time)]
<1>1. phase[r] = "asleep" /\ Shard!time < MaxTime /\ Shard!AllProcessed
  BY DEF Shard!ProcessExtra
<1>2. Types /\ Barrier /\ InCache(w) /\ InStore(r)
  BY DEF Inv
<1>3. v = state[r] /\ v \in Shard!Versions
  BY <1>1, <1>2 DEF InStore, Types
<1>4. map' = map /\ Shard!time' = Shard!time /\ state' = state /\ snapshot' = snapshot /\ durable' = durable
      /\ saved' = saved /\ life' = life /\ cacheTime' = cacheTime /\ roomCache' = roomCache
  BY DEF Shard!ProcessExtra, Shard!store, Shard!time
<1>5. /\ phase' = [phase EXCEPT ![r] = "processed"] /\ processor' = [processor EXCEPT ![r] = w]
      /\ context' = [context EXCEPT ![r] = v]
      /\ nextRoomCache' = [nextRoomCache EXCEPT ![w] = Shard!With(nextRoomCache[w], r, v)]
  BY DEF Shard!ProcessExtra, Shard!HasContext
<1> HIDE DEF v
<1>6. /\ Shard!With(nextRoomCache[w], r, v) \in Caches
      /\ DOMAIN Shard!With(nextRoomCache[w], r, v) = DOMAIN nextRoomCache[w] \cup {r}
      /\ Shard!With(nextRoomCache[w], r, v)[r] = v
      /\ \A q \in DOMAIN nextRoomCache[w] : q # r => Shard!With(nextRoomCache[w], r, v)[q] = nextRoomCache[w][q]
  <2>1. nextRoomCache[w] \in Caches
    BY <1>2 DEF Types
  <2> QED BY <1>3, <2>1, WithOne
<1>7. Types'
  BY <1>1, <1>2, <1>3, <1>4, <1>5, <1>6 DEF Types, Started
<1>8. Shard!AllProcessed'
  BY <1>1, <1>2, <1>5 DEF Shard!AllProcessed, Types
<1>9. ASSUME NEW q \in Rooms PROVE InStore(q)'
  <2>1. InStore(q) /\ phase[q] \in {"asleep", "queued"} \cup Started
    BY <1>2 DEF Inv, Types
  <2> QED BY <1>1, <1>2, <1>3, <1>4, <1>5, <2>1 DEF InStore, Types
<1>10. ASSUME NEW x \in Workers PROVE InCache(x)'
  <2>1. InCache(x) /\ (\A q \in DOMAIN nextRoomCache[x] : q \in Rooms)
    BY <1>2, WithOne DEF Inv, Types, Caches
  <2>2. \A q \in Rooms : q # r => phase'[q] = phase[q] /\ processor'[q] = processor[q] /\ context'[q] = context[q]
    BY <1>2, <1>5 DEF Types
  <2>3. phase'[r] = "processed" /\ processor'[r] = w /\ context'[r] = v
    BY <1>2, <1>5 DEF Types
  <2>4. cacheTime[x] = Shard!time => r \notin DOMAIN nextRoomCache[x]
    BY <1>1, <2>1 DEF InCache, Started
  <2>5. nextRoomCache'[x] = IF x = w THEN Shard!With(nextRoomCache[w], r, v) ELSE nextRoomCache[x]
    BY <1>2, <1>5 DEF Types
  <2> QED BY <1>4, <1>6, <1>8, <2>1, <2>2, <2>3, <2>4, <2>5 DEF InCache, Started
<1>11. \A q \in Rooms : GoesBack(snapshot, q, saved[q])'
  BY <1>4 DEF Inv, GoesBack
<1> QED BY <1>7, <1>8, <1>9, <1>10, <1>11 DEF Inv, Barrier
-----------------------------------------------------------------------------
(***************************************************************************)
(* Rooms are finalized and go to sleep: a blob is written.                 *)
(***************************************************************************)
(* the blob of the next time is written; this one's stays *)
LEMMA FinalizeSteps ==
  ASSUME Shard!Assumptions, Inv, NEW w \in Workers, NEW r \in Rooms, Shard!Finalize(w, r)
  PROVE  Inv'
<1>1. Shard!AllProcessed /\ phase[r] = "processed" /\ processor[r] = w
  BY DEF Shard!Finalize
<1>2. Types /\ Barrier /\ InCache(w) /\ InStore(r)
  BY DEF Inv
<1>3. Shard!time \in Nat /\ MaxTime \in Nat /\ Shard!time < MaxTime /\ Shard!time \in 0..MaxTime
  BY <1>1, <1>2, TimeType DEF Types, Started
<1>4. map[Shard!Key(r, Shard!time)] = state[r] /\ context[r] = state[r]
  BY <1>1, <1>2 DEF InStore
<1>5. PICK v \in Shard!Versions :
        /\ v = state[r] \/ v.time = Shard!time + 1
        /\ map' = [map EXCEPT ![Shard!Key(r, Shard!time + 1)] = v]
        /\ \/ /\ context' = [context EXCEPT ![r] = v]
              /\ nextRoomCache' = [nextRoomCache EXCEPT ![w] = Shard!With(nextRoomCache[w], r, v)]
           \/ v = context[r] /\ UNCHANGED <<context, nextRoomCache>>
  <2>1. CASE Shard!CopyRoom(r) /\ UNCHANGED <<context, nextRoomCache>>
    <3>1. map' = [map EXCEPT ![Shard!Key(r, Shard!time + 1)] = state[r]]
      BY <1>4, <2>1 DEF Shard!CopyRoom, Shard!Store!Write
    <3> QED BY <1>2, <1>4, <2>1, <3>1 DEF Types
  <2>2. CASE ~(Shard!CopyRoom(r) /\ UNCHANGED <<context, nextRoomCache>>)
    <3> DEFINE u == [time |-> Shard!time + 1, life |-> life]
    <3>1. u \in Shard!Versions /\ u.time = Shard!time + 1
      BY <1>2, <1>3 DEF Shard!Versions, Types
    <3>2. /\ Shard!SaveRoom(r, u) /\ context' = [context EXCEPT ![r] = u]
          /\ nextRoomCache' = [nextRoomCache EXCEPT ![w] = Shard!With(nextRoomCache[w], r, u)]
      BY <2>2 DEF Shard!Finalize
    <3> HIDE DEF u
    <3> QED BY <3>1, <3>2 DEF Shard!SaveRoom, Shard!Store!Write
  <2> QED BY <2>1, <2>2
<1>6. v = state[r] \/ v.time = Shard!time + 1
  BY <1>5
<1>7. /\ phase' = [phase EXCEPT ![r] = "finalized"]
      /\ snapshot' = snapshot /\ durable' = durable /\ processor' = processor /\ cacheTime' = cacheTime
      /\ roomCache' = roomCache /\ state' = state /\ saved' = saved /\ life' = life
  BY DEF Shard!Finalize, Shard!SaveRoom, Shard!CopyRoom, Shard!Store!Write
<1>8. map' \in Stores /\ Shard!time' = Shard!time /\ map'[Shard!Key(r, Shard!time + 1)] = v
      /\ \A k \in Shard!Blobs : k # Shard!Key(r, Shard!time + 1) => map'[k] = map[k]
  <2> DEFINE k == Shard!Key(r, Shard!time + 1)
  <2>1. k \in Shard!Blobs /\ map \in Stores
    BY <1>2, <1>3, Sides DEF Types
  <2> HIDE DEF k
  <2>2. /\ [map EXCEPT ![k] = v] \in Stores
        /\ [map EXCEPT ![k] = v][Time] = map[Time] /\ [map EXCEPT ![k] = v][k] = v
        /\ \A j \in Shard!Blobs : j # k => [map EXCEPT ![k] = v][j] = map[j]
    BY <2>1, WriteBlob
  <2>3. map' = [map EXCEPT ![k] = v]
    BY <1>5 DEF k
  <2> QED BY <2>2, <2>3 DEF k, Shard!time
<1>9. context'[r] = v /\ \A q \in Rooms : q # r => context'[q] = context[q]
  BY <1>2, <1>5 DEF Types
<1>10. /\ nextRoomCache' \in [Workers -> Caches]
       /\ \A x \in Workers : x # w => nextRoomCache'[x] = nextRoomCache[x]
       /\ \/ nextRoomCache'[w] = nextRoomCache[w] /\ v = context[r]
          \/ /\ DOMAIN nextRoomCache'[w] = DOMAIN nextRoomCache[w] \cup {r} /\ nextRoomCache'[w][r] = v
             /\ \A q \in DOMAIN nextRoomCache[w] : q # r => nextRoomCache'[w][q] = nextRoomCache[w][q]
  <2>1. /\ Shard!With(nextRoomCache[w], r, v) \in Caches
        /\ DOMAIN Shard!With(nextRoomCache[w], r, v) = DOMAIN nextRoomCache[w] \cup {r}
        /\ Shard!With(nextRoomCache[w], r, v)[r] = v
        /\ \A q \in DOMAIN nextRoomCache[w] : q # r => Shard!With(nextRoomCache[w], r, v)[q] = nextRoomCache[w][q]
    <3>1. nextRoomCache[w] \in Caches
      BY <1>2 DEF Types
    <3> QED BY <3>1, WithOne
  <2> QED BY <1>2, <1>5, <2>1 DEF Types
<1>11. \A q \in Rooms : phase'[q] = IF q = r THEN "finalized" ELSE phase[q]
  BY <1>2, <1>7 DEF Types
<1>12. Types'
  <2>1. context' \in [Rooms -> Shard!Versions]
    BY <1>2, <1>5 DEF Types
  <2> QED BY <1>2, <1>3, <1>7, <1>8, <1>10, <1>11, <2>1 DEF Types, Started
<1>13. Shard!AllProcessed'
  BY <1>1, <1>11 DEF Shard!AllProcessed
<1>14. ASSUME NEW q \in Rooms PROVE InStore(q)'
  <2>1. InStore(q) /\ Shard!Key(q, Shard!time) \in Shard!Blobs /\ Shard!Key(q, Shard!time + 1) \in Shard!Blobs
        /\ Shard!Key(q, Shard!time) # Shard!Key(r, Shard!time + 1) /\ (q # r => Shard!Key(q, Shard!time + 1) # Shard!Key(r, Shard!time + 1))
    BY <1>3, Sides DEF Inv
  <2>2. map'[Shard!Key(q, Shard!time)] = map[Shard!Key(q, Shard!time)] /\ (q # r => map'[Shard!Key(q, Shard!time + 1)] = map[Shard!Key(q, Shard!time + 1)])
    BY <1>8, <2>1
  <2> QED BY <1>4, <1>6, <1>7, <1>8, <1>9, <1>11, <2>1, <2>2 DEF InStore
<1>15. ASSUME NEW x \in Workers PROVE InCache(x)'
  <2>1. InCache(x) /\ (\A q \in DOMAIN nextRoomCache[x] : q \in Rooms)
    BY <1>2, WithOne DEF Inv, Types, Caches
  <2>2. CASE x = w
    BY <1>1, <1>2, <1>7, <1>8, <1>9, <1>10, <1>11, <1>13, <2>1, <2>2 DEF InCache, Started
  <2>3. CASE x # w
    BY <1>1, <1>7, <1>8, <1>9, <1>10, <1>11, <1>13, <2>1, <2>3 DEF InCache, Started
  <2> QED BY <2>2, <2>3
<1>16. \A q \in Rooms : GoesBack(snapshot, q, saved[q])'
  BY <1>7 DEF Inv, GoesBack
<1> QED BY <1>12, <1>13, <1>14, <1>15, <1>16 DEF Inv, Barrier

(* this time's blob is written *)
LEMMA SleepSteps ==
  ASSUME Shard!Assumptions, Inv, NEW r \in Rooms, Shard!Sleep(r)
  PROVE  Inv'
<1>1. Types /\ Barrier /\ InStore(r) /\ phase[r] = "finalized"
  BY DEF Inv, Shard!Sleep
<1>2. Shard!time \in Nat /\ MaxTime \in Nat /\ Shard!time < MaxTime
  BY <1>1, TimeType DEF Types, Started
<1>3. map[Shard!Key(r, Shard!time + 1)] = context[r] /\ context[r] \in Shard!Versions
  BY <1>1 DEF InStore, Types
<1>4. /\ map' = [map EXCEPT ![Shard!Key(r, Shard!time)] = context[r]] /\ snapshot' = snapshot /\ durable' = durable
      /\ phase' = [phase EXCEPT ![r] = "slept"]
      /\ UNCHANGED <<processor, context, Shard!caches, state, saved, life>>
  BY <1>2, <1>3, Sides DEF Shard!Sleep, Shard!Store!Write
<1>5. map' \in Stores /\ Shard!time' = Shard!time /\ map'[Shard!Key(r, Shard!time)] = context[r]
      /\ \A k \in Shard!Blobs : k # Shard!Key(r, Shard!time) => map'[k] = map[k]
  <2> DEFINE k == Shard!Key(r, Shard!time)
  <2>1. k \in Shard!Blobs /\ map \in Stores
    BY <1>1, <1>2, Sides DEF Types
  <2> HIDE DEF k
  <2>2. /\ [map EXCEPT ![k] = context[r]] \in Stores
        /\ [map EXCEPT ![k] = context[r]][Time] = map[Time] /\ [map EXCEPT ![k] = context[r]][k] = context[r]
        /\ \A j \in Shard!Blobs : j # k => [map EXCEPT ![k] = context[r]][j] = map[j]
    BY <1>3, <2>1, WriteBlob
  <2>3. map' = [map EXCEPT ![k] = context[r]]
    BY <1>4 DEF k
  <2> QED BY <2>2, <2>3 DEF k, Shard!time
<1>6. \A q \in Rooms : phase'[q] = IF q = r THEN "slept" ELSE phase[q]
  BY <1>1, <1>4 DEF Types
<1>7. Types'
  BY <1>1, <1>2, <1>4, <1>5, <1>6 DEF Types, Started, Shard!caches
<1>8. Shard!AllProcessed /\ Shard!AllProcessed'
  BY <1>1, <1>6 DEF Shard!AllProcessed, Barrier
<1>9. ASSUME NEW q \in Rooms PROVE InStore(q)'
  <2>1. InStore(q) /\ Shard!Key(q, Shard!time) \in Shard!Blobs /\ Shard!Key(q, Shard!time + 1) \in Shard!Blobs
        /\ Shard!Key(q, Shard!time + 1) # Shard!Key(r, Shard!time) /\ (q # r => Shard!Key(q, Shard!time) # Shard!Key(r, Shard!time))
    BY <1>2, Sides DEF Inv
  <2>2. map'[Shard!Key(q, Shard!time + 1)] = map[Shard!Key(q, Shard!time + 1)] /\ (q # r => map'[Shard!Key(q, Shard!time)] = map[Shard!Key(q, Shard!time)])
    BY <1>5, <2>1
  <2> QED BY <1>1, <1>3, <1>4, <1>5, <1>6, <2>1, <2>2 DEF InStore, Shard!caches
<1>10. ASSUME NEW x \in Workers PROVE InCache(x)'
  <2>1. InCache(x) /\ (\A q \in DOMAIN nextRoomCache[x] : q \in Rooms)
    BY <1>1, WithOne DEF Inv, Types, Caches
  <2> QED BY <1>4, <1>5, <1>6, <1>8, <2>1 DEF InCache, Started, Shard!caches
<1>11. \A q \in Rooms : GoesBack(snapshot, q, saved[q])'
  BY <1>4 DEF Inv, GoesBack
<1> QED BY <1>7, <1>8, <1>9, <1>10, <1>11 DEF Inv, Barrier
-----------------------------------------------------------------------------
(***************************************************************************)
(* The next tick, saves and crashes.                                       *)
(***************************************************************************)
(* what was this tick's and the next one's side are the next one's and this one's *)
LEMMA AdvanceSteps ==
  ASSUME Shard!Assumptions, Inv, Shard!Advance
  PROVE  Inv'
<1>1. Types /\ (\A r \in Rooms : phase[r] \in {"asleep", "finalized", "slept"})
  BY DEF Inv, Shard!Advance
<1>2. Shard!time \in Nat /\ MaxTime \in Nat /\ Shard!time < MaxTime
  BY <1>1, TimeType DEF Shard!Advance
<1>3. /\ map' = [map EXCEPT ![Time] = Shard!time + 1] /\ snapshot' = snapshot /\ durable' = durable
      /\ processor' = [r \in Rooms |-> NoWorker] /\ context' = [r \in Rooms |-> Shard!NoState]
      /\ state' = [r \in Rooms |-> IF phase[r] = "asleep" THEN state[r] ELSE context[r]]
      /\ cacheTime' = cacheTime /\ roomCache' = roomCache /\ nextRoomCache' = nextRoomCache
      /\ saved' = saved /\ life' = life
  BY DEF Shard!Advance, Shard!Store!Write, Shard!caches
<1>4. /\ phase' \in [Rooms -> {"asleep", "queued"}]
      /\ \A r \in Rooms : phase'[r] = "asleep" => phase[r] # "finalized"
  BY DEF Shard!Advance
<1>5. map' \in Stores /\ Shard!time' = Shard!time + 1 /\ \A k \in Shard!Blobs : map'[k] = map[k]
  <2>1. Shard!time + 1 \in 0..MaxTime /\ Time \in Shard!Entries
    BY <1>2 DEF Shard!Entries
  <2>2. map \in [Shard!Entries -> Shard!Versions \cup 0..MaxTime] /\ \A k \in Shard!Blobs : k \in Shard!Entries /\ map[k] \in Shard!Versions
    BY <1>1 DEF Types, Stores, Shard!Entries
  <2> QED BY <1>3, <2>1, <2>2 DEF Stores, Shard!Assumptions, Shard!time
<1>6. Types'
  <2>1. Shard!NoState \in Shard!Versions
    BY DEF Shard!NoState, Shard!Versions, Shard!Assumptions
  <2> QED BY <1>1, <1>3, <1>4, <1>5, <2>1 DEF Types, Started
<1>7. Barrier'
  BY <1>4 DEF Barrier
<1>8. ASSUME NEW q \in Rooms PROVE InStore(q)'
  <2>1. /\ InStore(q) /\ Shard!Key(q, Shard!time) \in Shard!Blobs /\ Shard!Key(q, Shard!time + 1) \in Shard!Blobs
        /\ Shard!Key(q, Shard!time + 2) = Shard!Key(q, Shard!time)
    BY <1>2, Sides DEF Inv
  <2>2. Shard!Key(q, Shard!time') = Shard!Key(q, Shard!time + 1) /\ Shard!Key(q, Shard!time' + 1) = Shard!Key(q, Shard!time)
    <3>1. Shard!time' + 1 = Shard!time + 2
      BY <1>2, <1>5
    <3> QED BY <1>5, <2>1, <3>1
  <2>3. map'[Shard!Key(q, Shard!time')] = map[Shard!Key(q, Shard!time + 1)] /\ map'[Shard!Key(q, Shard!time' + 1)] = map[Shard!Key(q, Shard!time)]
    BY <1>5, <2>1, <2>2
  <2>4. phase[q] \in {"asleep", "finalized", "slept"}
    BY <1>1
  <2>5. state'[q] = IF phase[q] = "asleep" THEN state[q] ELSE context[q]
    BY <1>3
  <2>6. map[Shard!Key(q, Shard!time + 1)] = state'[q] /\ (phase[q] # "finalized" => map[Shard!Key(q, Shard!time)] = state'[q])
    BY <2>1, <2>4, <2>5 DEF InStore
  <2> QED BY <1>4, <2>3, <2>6 DEF InStore
<1>9. ASSUME NEW x \in Workers PROVE InCache(x)'
  <2>1. InCache(x) /\ (\A q \in DOMAIN nextRoomCache[x] : q \in Rooms) /\ cacheTime[x] \in Int
    BY <1>1, <1>2, WithOne DEF Inv, Types, Caches
  <2>2. cacheTime[x] <= Shard!time' /\ cacheTime[x] # Shard!time' /\ (cacheTime[x] + 1 = Shard!time' => cacheTime[x] = Shard!time)
    BY <1>2, <1>5, <2>1 DEF InCache
  <2>3. cacheTime[x] = Shard!time => \A q \in DOMAIN nextRoomCache[x] : nextRoomCache[x][q] = state'[q]
    BY <1>3, <2>1 DEF InCache, Started
  <2> QED BY <1>3, <2>2, <2>3 DEF InCache
<1>10. \A q \in Rooms : GoesBack(snapshot, q, saved[q])'
  BY <1>3 DEF Inv, GoesBack
<1> QED BY <1>6, <1>7, <1>8, <1>9, <1>10 DEF Inv

(* what a save begins with: a room's state when the tick began, or the one it went to sleep with *)
LEMMA SaveSteps ==
  ASSUME Shard!Assumptions, Inv, Shard!Save
  PROVE  Inv'
<1>1. Types /\ Shard!time \in Nat
  BY TimeType DEF Inv
<1>2. /\ map' = map /\ snapshot' = map /\ durable' = durable /\ saved' = state /\ phase' = phase
      /\ UNCHANGED <<processor, context, cacheTime, roomCache, nextRoomCache, state, life>>
  <2>1. snapshot' = [k \in Shard!Entries |-> map[k]] /\ map' = map /\ durable' = durable
    BY DEF Shard!Save, Shard!Store!BeginSave
  <2>2. [k \in Shard!Entries |-> map[k]] = map
    BY <1>1 DEF Types, Stores
  <2> QED BY <2>1, <2>2 DEF Shard!Save, Shard!tick, Shard!caches
<1>3. Types' /\ Barrier'
  BY <1>1, <1>2 DEF Inv, Types, Barrier, Shard!AllProcessed, Shard!time
<1>4. ASSUME NEW r \in Rooms PROVE InStore(r)' /\ GoesBack(snapshot, r, saved[r])'
  <2>1. InStore(r) /\ phase[r] \in {"asleep", "queued"} \cup Started
    BY <1>1 DEF Inv, Types
  <2>2. InStore(r)'
    BY <1>2, <2>1 DEF InStore, Shard!time
  <2>3. map[Shard!Key(r, Shard!time)] = state[r] \/ (map[Shard!Key(r, Shard!time)].time = Shard!time + 1 /\ map[Shard!Key(r, Shard!time + 1)] = map[Shard!Key(r, Shard!time)])
    BY <2>1 DEF InStore
  <2> QED BY <1>2, <2>2, <2>3 DEF GoesBack, Shard!time
<1>5. ASSUME NEW w \in Workers PROVE InCache(w)'
  BY <1>2 DEF Inv, InCache, Shard!AllProcessed, Shard!time
<1> QED BY <1>3, <1>4, <1>5 DEF Inv

(* a save that writes some of its files *)
LEMMA FlushedType ==
  ASSUME Shard!Assumptions, Inv, NEW ks
  PROVE  Shard!Store!Flushed(ks) \in Stores /\ (durable = snapshot => Shard!Store!Flushed(ks) = snapshot)
<1>1. /\ snapshot \in [Shard!Entries -> Shard!Versions \cup 0..MaxTime] /\ durable \in [Shard!Entries -> Shard!Versions \cup 0..MaxTime]
      /\ snapshot[Time] \in 0..MaxTime /\ durable[Time] \in 0..MaxTime
      /\ \A k \in Shard!Blobs : snapshot[k] \in Shard!Versions /\ durable[k] \in Shard!Versions
  BY DEF Inv, Types, Stores
<1>2. Shard!Store!Flushed(ks) = [k \in Shard!Entries |-> IF k \in ks THEN snapshot[k] ELSE durable[k]]
  BY DEF Shard!Store!Flushed
<1>3. Shard!Blobs \subseteq Shard!Entries /\ Time \in Shard!Entries
  BY DEF Shard!Entries
<1> QED BY <1>1, <1>2, <1>3 DEF Stores

(* a save ends: only the disk changes *)
LEMMA SavedSteps ==
  ASSUME Shard!Assumptions, Inv, Shard!Saved
  PROVE  Inv'
<1>1. /\ map' = map /\ snapshot' = snapshot /\ durable' = Shard!Store!Flushed(Shard!Entries)
      /\ UNCHANGED <<saved, phase, processor, context, cacheTime, roomCache, nextRoomCache, state, life>>
  BY DEF Shard!Saved, Shard!Store!Flush, Shard!tick, Shard!caches
<1>2. durable' \in Stores
  BY <1>1, FlushedType
<1>3. Types' /\ Barrier'
  BY <1>1, <1>2 DEF Inv, Types, Barrier, Shard!AllProcessed, Shard!time
<1>4. ASSUME NEW r \in Rooms PROVE InStore(r)' /\ GoesBack(snapshot, r, saved[r])'
  BY <1>1 DEF Inv, InStore, GoesBack, Shard!time
<1>5. ASSUME NEW w \in Workers PROVE InCache(w)'
  BY <1>1 DEF Inv, InCache, Shard!AllProcessed, Shard!time
<1> QED BY <1>3, <1>4, <1>5 DEF Inv

(* everybody starts over from what is on disk *)
LEMMA RestartSteps ==
  ASSUME Shard!Assumptions, Inv, NEW written, Shard!Restart(written)
  PROVE  Inv'
<1>1. /\ durable' = Shard!Store!Flushed(written) /\ map' = durable' /\ snapshot' = durable'
      /\ phase' = [r \in Rooms |-> "queued"]
      /\ processor' = [r \in Rooms |-> NoWorker] /\ context' = [r \in Rooms |-> Shard!NoState]
      /\ cacheTime' = [w \in Workers |-> -1]
      /\ roomCache' = [w \in Workers |-> Shard!Nothing] /\ nextRoomCache' = [w \in Workers |-> Shard!Nothing]
      /\ state' = [r \in Rooms |-> map'[Shard!Key(r, map'[Time])]]
      /\ saved' = state' /\ life < MaxCrashes /\ life' = life + 1
  BY DEF Shard!Restart, Shard!Store!Restart
<1>2. map' \in Stores
  BY <1>1, FlushedType
<1>3. map'[Time] \in 0..MaxTime /\ MaxTime \in Nat /\ map'[Time] \in Nat /\ Shard!time' = map'[Time]
  BY <1>2 DEF Stores, Shard!Assumptions, Shard!time
<1>4. \A r \in Rooms : Shard!Key(r, map'[Time]) \in Shard!Blobs
  BY <1>3, Sides
<1>5. \A r \in Rooms : map'[Shard!Key(r, map'[Time])] \in Shard!Versions
  BY <1>2, <1>4 DEF Stores
<1>6. Types'
  <2>1. life' \in 0..MaxCrashes /\ Shard!NoState \in Shard!Versions /\ -1 \in -1..MaxTime
    BY <1>1, <1>3 DEF Inv, Types, Shard!Assumptions, Shard!NoState, Shard!Versions
  <2> QED BY <1>1, <1>2, <1>5, <2>1, NothingCached DEF Types, Started
<1>7. Barrier'
  BY <1>1 DEF Barrier
<1>8. ASSUME NEW r \in Rooms PROVE InStore(r)' /\ GoesBack(snapshot, r, saved[r])'
  BY <1>1, <1>3 DEF InStore, GoesBack
<1>9. ASSUME NEW w \in Workers PROVE InCache(w)'
  <2>1. cacheTime'[w] = -1 /\ nextRoomCache'[w] = Shard!Nothing /\ roomCache'[w] = Shard!Nothing
    BY <1>1
  <2> QED BY <1>3, <2>1, NothingCached DEF InCache
<1> QED BY <1>6, <1>7, <1>8, <1>9 DEF Inv

(* no step breaks the invariant *)
LEMMA NextInv == Shard!Assumptions /\ Inv /\ [Shard!Next]_Shard!vars => Inv'
<1> SUFFICES ASSUME Shard!Assumptions, Inv, [Shard!Next]_Shard!vars PROVE Inv'
  OBVIOUS
<1>1. ASSUME NEW w \in Workers, NEW r \in Rooms, Shard!Process(w, r) \/ Shard!ProcessExtra(w, r) \/ Shard!Finalize(w, r)
      PROVE  Inv'
  BY <1>1, ProcessSteps, ProcessExtraSteps, FinalizeSteps
<1>2. ASSUME NEW r \in Rooms, Shard!Sleep(r) PROVE Inv'
  BY <1>2, SleepSteps
<1>3. ASSUME NEW written \in Shard!Tears, Shard!Restart(written) PROVE Inv'
  BY <1>3, RestartSteps
<1>4. CASE Shard!Advance \/ Shard!Save \/ Shard!Saved
  BY <1>4, AdvanceSteps, SaveSteps, SavedSteps
<1>5. CASE UNCHANGED Shard!vars
  BY <1>5 DEF Shard!vars, Shard!store, Shard!tick, Shard!caches, Inv, Types, Barrier, InStore, InCache,
     GoesBack, Shard!AllProcessed, Shard!time
<1> QED BY <1>1, <1>2, <1>3, <1>4, <1>5 DEF Shard!Next

(* the types and the whereabouts of every room, in every reachable state *)
LEMMA InvHolds == ASSUME Shard!Assumptions PROVE Shard!Spec => []Inv
<1>1. Shard!Init => Inv
  BY InitInv
<1>2. Inv /\ [Shard!Next]_Shard!vars => Inv'
  BY NextInv
<1> QED BY <1>1, <1>2, PTL DEF Shard!Spec
-----------------------------------------------------------------------------
(* Whichever worker processes a room, and whether it has it in a cache of  *)
(* this tick, of the one before or not at all, it processes the room as    *)
(* the tick before left it; and while rooms are still to be processed,     *)
(* everybody who loads any room finds it as the tick began.                *)
THEOREM ProcessesCurrent == ASSUME Shard!Assumptions PROVE Shard!Spec => []ReadsCurrent
<1>1. Inv => ReadsCurrent
  BY DEF Inv, InStore, Barrier, Shard!AllProcessed, ReadsCurrent, Shard!ReadsCurrent
<1> QED BY <1>1, InvHolds, PTL

(* A crash that interrupts no save takes every room back to the tick that  *)
(* was saved, or one tick further if it had just gone to sleep; whatever   *)
(* number of saves and crashes, torn ones too, came before.                *)
THEOREM CrashesGoBack == ASSUME Shard!Assumptions PROVE Shard!Spec => RollsBackTogether
<1>1. ASSUME Inv, [Shard!Next]_Shard!vars, life' # life, durable = snapshot
      PROVE  map' = snapshot /\ \A r \in Rooms : GoesBack(snapshot, r, saved[r])
  <2>1. PICK written \in Shard!Tears : Shard!Restart(written)
    BY <1>1 DEF Shard!Next, Shard!Process, Shard!ProcessExtra, Shard!Finalize, Shard!Sleep, Shard!Advance,
       Shard!Save, Shard!Saved, Shard!vars
  <2>2. map' = Shard!Store!Flushed(written)
    BY <2>1 DEF Shard!Restart, Shard!Store!Restart
  <2> QED BY <1>1, <2>2, FlushedType DEF Inv
<1>2. ASSUME Inv, [Shard!Next]_Shard!vars
      PROVE  [(life' # life /\ durable = snapshot) =>
                \A r \in Rooms : LET back == map'[Shard!Key(r, Shard!time')]
                                IN back = saved[r] \/ (back.time = Shard!time' + 1 /\ map'[Shard!Key(r, Shard!time' + 1)] = back)]_Shard!vars
  BY <1>1, <1>2 DEF GoesBack, Shard!time
<1> QED BY <1>2, InvHolds, PTL DEF Shard!Spec, RollsBackTogether, Shard!RollsBackTogether
-----------------------------------------------------------------------------
(***************************************************************************)
(* Subscriptions (Channel): what a loop has had, what it was handed and    *)
(* what is kept for it are together the messages that arrived, in order.   *)
(***************************************************************************)
ChanTypes ==
  /\ loop \in [Loops -> {"idle", "waiting", "resuming", "body", "returned"}]
  /\ queue \in [Loops -> Seq(Nat)] /\ yielded \in [Loops -> Seq(Nat)]
  /\ value \in [Loops -> Nat] /\ arrived \in Nat
  /\ deferred \subseteq Loops /\ attached \subseteq Loops /\ disconnected \in BOOLEAN

\* the messages behind the first `from`
Counts(s, from) == \A k \in 1..Len(s) : s[k] = from + k

\* was the loop handed a message that it has not got yet; what it has got or was handed
Handed(i) == loop[i] = "resuming" /\ value[i] # 0
Had(i) == IF Handed(i) THEN Len(yielded[i]) + 1 ELSE Len(yielded[i])

InOrder(i) ==
  /\ Counts(yielded[i], 0)
  /\ loop[i] # "returned" =>
       /\ Handed(i) => value[i] = Had(i)
       /\ Counts(queue[i], Had(i))
       /\ Had(i) + Len(queue[i]) = arrived

\* a loop that waits has a promise, which disconnect() finds too
Promised(i) ==
  /\ loop[i] = "waiting" => ~disconnected /\ i \in deferred \cap attached /\ queue[i] = <<>>
  /\ ~disconnected /\ i \in deferred => loop[i] = "waiting"
  /\ disconnected => loop[i] # "idle"

ChanInv == ChanTypes /\ \A i \in Loops : InOrder(i) /\ Promised(i)

(* one more message, or one less *)
LEMMA CountOne ==
  ASSUME NEW s \in Seq(Nat), NEW from \in Nat, Counts(s, from)
  PROVE  /\ Append(s, from + Len(s) + 1) \in Seq(Nat) /\ Len(Append(s, from + Len(s) + 1)) = Len(s) + 1
         /\ Counts(Append(s, from + Len(s) + 1), from)
         /\ s # <<>> => /\ Head(s) = from + 1 /\ Tail(s) \in Seq(Nat) /\ Len(Tail(s)) = Len(s) - 1
                        /\ Counts(Tail(s), from + 1) /\ Len(s) > 0
<1>1. /\ Append(s, from + Len(s) + 1) \in Seq(Nat) /\ Len(Append(s, from + Len(s) + 1)) = Len(s) + 1
      /\ Counts(Append(s, from + Len(s) + 1), from)
  <2> DEFINE m == from + Len(s) + 1
  <2>1. m \in Nat /\ Len(s) \in Nat
    OBVIOUS
  <2> HIDE DEF m
  <2>2. /\ Append(s, m) \in Seq(Nat) /\ Len(Append(s, m)) = Len(s) + 1 /\ Append(s, m)[Len(s) + 1] = m
        /\ \A k \in 1..Len(s) : Append(s, m)[k] = s[k]
    BY <2>1
  <2>3. ASSUME NEW k \in 1..Len(Append(s, m)) PROVE Append(s, m)[k] = from + k
    <3>1. k \in 1..Len(s) \/ k = Len(s) + 1
      BY <2>1, <2>2
    <3> QED BY <2>1, <2>2, <3>1 DEF Counts, m
  <2>4. Counts(Append(s, m), from)
    BY <2>3 DEF Counts
  <2> QED BY <2>2, <2>4 DEF m
<1>2. ASSUME s # <<>>
      PROVE  /\ Head(s) = from + 1 /\ Tail(s) \in Seq(Nat) /\ Len(Tail(s)) = Len(s) - 1 /\ Len(s) > 0
             /\ Counts(Tail(s), from + 1)
  <2>1. Tail(s) \in Seq(Nat) /\ Len(Tail(s)) = Len(s) - 1 /\ Len(s) > 0 /\ Head(s) = s[1]
    BY <1>2
  <2>2. ASSUME NEW k \in 1..Len(Tail(s)) PROVE Tail(s)[k] = from + 1 + k
    <3>1. k + 1 \in 1..Len(s) /\ Tail(s)[k] = s[k + 1]
      BY <1>2, <2>1, <2>2
    <3> QED BY <2>1, <3>1 DEF Counts
  <2> QED BY <2>1, <2>2 DEF Counts
<1> QED BY <1>1, <1>2

(* at first nothing has arrived *)
LEMMA ChanInit == Chan!Init => ChanInv
<1> SUFFICES ASSUME Chan!Init PROVE ChanInv
  OBVIOUS
<1>1. ChanTypes
  <2>1. <<>> \in Seq(Nat)
    OBVIOUS
  <2> QED BY <2>1 DEF Chan!Init, ChanTypes
<1>2. \A i \in Loops : InOrder(i) /\ Promised(i)
  BY DEF Chan!Init, InOrder, Promised, Counts, Handed, Had
<1> QED BY <1>1, <1>2 DEF ChanInv

(* a message arrives: it is handed to the loops that wait and kept for the others *)
LEMMA ArriveSteps == ChanInv /\ Chan!Arrive => ChanInv'
<1> SUFFICES ASSUME ChanInv, Chan!Arrive PROVE ChanInv'
  OBVIOUS
<1>1. ChanTypes /\ arrived' = arrived + 1 /\ ~disconnected
      /\ UNCHANGED <<attached, disconnected, yielded>>
  BY DEF ChanInv, Chan!Arrive
<1>2. ASSUME NEW i \in Loops
      PROVE  /\ loop[i] # "returned" /\ i \in deferred =>
                  value'[i] = arrived + 1 /\ loop'[i] = "resuming" /\ queue'[i] = queue[i] /\ i \notin deferred'
             /\ loop[i] # "returned" /\ i \notin deferred =>
                  /\ value'[i] = value[i] /\ loop'[i] = loop[i] /\ queue'[i] = Append(queue[i], arrived + 1)
                  /\ i \notin deferred'
             /\ loop[i] = "returned" =>
                  /\ value'[i] = value[i] /\ loop'[i] = loop[i] /\ queue'[i] = queue[i]
                  /\ (i \in deferred' <=> i \in deferred)
  BY <1>1 DEF Chan!Arrive, Chan!Listening
<1>3. ChanTypes'
  <2>1. arrived' \in Nat /\ arrived + 1 \in Nat
    BY <1>1 DEF ChanTypes
  <2>2. \A i \in Loops : queue'[i] \in Seq(Nat) /\ value'[i] \in Nat
                         /\ loop'[i] \in {"idle", "waiting", "resuming", "body", "returned"}
    <3> SUFFICES ASSUME NEW i \in Loops
                 PROVE  queue'[i] \in Seq(Nat) /\ value'[i] \in Nat
                        /\ loop'[i] \in {"idle", "waiting", "resuming", "body", "returned"}
      OBVIOUS
    <3>1. queue[i] \in Seq(Nat) /\ Append(queue[i], arrived + 1) \in Seq(Nat) /\ value[i] \in Nat
          /\ loop[i] \in {"idle", "waiting", "resuming", "body", "returned"}
      BY <1>1, <2>1 DEF ChanTypes
    <3> QED BY <1>2, <2>1, <3>1
  <2>3. /\ loop' = [i \in Loops |-> loop'[i]] /\ queue' = [i \in Loops |-> queue'[i]]
        /\ value' = [i \in Loops |-> value'[i]] /\ deferred' \subseteq deferred
    BY DEF Chan!Arrive
  <2> HIDE DEF Chan!Arrive
  <2> QED BY <1>1, <2>1, <2>2, <2>3 DEF ChanTypes
<1>4. ASSUME NEW i \in Loops PROVE (InOrder(i) /\ Promised(i))'
  <2>1. InOrder(i) /\ Promised(i)
    BY DEF ChanInv
  <2>2. /\ queue[i] \in Seq(Nat) /\ Len(queue[i]) \in Nat /\ Len(yielded[i]) \in Nat /\ arrived \in Nat
        /\ value[i] \in Nat /\ Had(i) \in Nat
    BY <1>1 DEF ChanTypes, Had
  <2>3. CASE loop[i] = "returned"
    BY <1>1, <1>2, <2>1, <2>3 DEF InOrder, Promised
  <2>4. CASE loop[i] # "returned" /\ i \in deferred
    <3>1. loop[i] = "waiting" /\ queue[i] = <<>> /\ ~Handed(i)
      BY <1>1, <2>1, <2>4 DEF Promised, Handed
    <3>2. Had(i) = arrived /\ Len(yielded[i]) = arrived /\ Len(queue[i]) = 0
      BY <2>1, <2>2, <3>1 DEF InOrder, Had
    <3>3. loop'[i] = "resuming" /\ value'[i] = arrived + 1 /\ queue'[i] = <<>> /\ i \notin deferred'
      BY <1>2, <2>4, <3>1
    <3>4. Handed(i)' /\ Had(i)' = arrived + 1
      BY <1>1, <2>2, <3>2, <3>3 DEF Handed, Had
    <3>5. Counts(queue'[i], arrived + 1) /\ Len(queue'[i]) = 0
      BY <3>3 DEF Counts
    <3>6. InOrder(i)'
      BY <1>1, <2>1, <2>2, <3>3, <3>4, <3>5 DEF InOrder
    <3> QED BY <1>1, <2>1, <3>3, <3>6 DEF Promised
  <2>5. CASE loop[i] # "returned" /\ i \notin deferred
    <3>1. loop'[i] = loop[i] /\ value'[i] = value[i] /\ i \notin deferred' /\ loop[i] # "waiting"
          /\ queue'[i] = Append(queue[i], arrived + 1)
      BY <1>2, <2>1, <2>5 DEF Promised
    <3>2. (Handed(i)' <=> Handed(i)) /\ Had(i)' = Had(i)
      BY <1>1, <3>1 DEF Handed, Had
    <3>3. Counts(queue[i], Had(i)) /\ Had(i) + Len(queue[i]) = arrived
      BY <2>1, <2>5 DEF InOrder
    <3>4. Counts(Append(queue[i], arrived + 1), Had(i)) /\ Len(Append(queue[i], arrived + 1)) = Len(queue[i]) + 1
      BY <2>2, <3>3, CountOne
    <3>5. Had(i) + (Len(queue[i]) + 1) = arrived + 1
      <4> DEFINE had == Had(i) kept == Len(queue[i])
      <4>1. had \in Nat /\ kept \in Nat /\ arrived \in Nat /\ had + kept = arrived
        BY <2>2, <3>3
      <4>2. had + (kept + 1) = arrived + 1
        <5> HIDE DEF had, kept
        <5> QED BY <4>1
      <4> QED BY <4>2
    <3>6. InOrder(i)'
      BY <1>1, <2>1, <2>5, <3>1, <3>2, <3>4, <3>5 DEF InOrder
    <3> QED BY <1>1, <2>1, <3>1, <3>6 DEF Promised
  <2> QED BY <2>3, <2>4, <2>5
<1> QED BY <1>3, <1>4 DEF ChanInv

(* the oldest message that is kept is the next one *)
LEMMA ContinueSteps == ASSUME ChanInv, NEW i \in Loops, Chan!Continue(i) PROVE ChanInv'
<1>1. ChanTypes /\ InOrder(i) /\ Promised(i) /\ loop[i] \in {"idle", "body"}
      /\ UNCHANGED <<value, disconnected, arrived>>
  BY DEF ChanInv, Chan!Continue
<1>2. /\ queue[i] \in Seq(Nat) /\ yielded[i] \in Seq(Nat) /\ Len(queue[i]) \in Nat /\ Len(yielded[i]) \in Nat
      /\ arrived \in Nat /\ value[i] \in Nat
  BY <1>1 DEF ChanTypes
<1>3. Had(i) = Len(yielded[i]) /\ ~Handed(i) /\ Counts(queue[i], Len(yielded[i])) /\ Counts(yielded[i], 0)
      /\ Len(yielded[i]) + Len(queue[i]) = arrived
  BY <1>1 DEF InOrder, Had, Handed
<1>4. SUFFICES /\ loop' = [loop EXCEPT ![i] = loop'[i]] /\ loop'[i] \in {"waiting", "body", "returned"}
               /\ queue' = [queue EXCEPT ![i] = queue'[i]] /\ queue'[i] \in Seq(Nat)
               /\ yielded' = [yielded EXCEPT ![i] = yielded'[i]] /\ yielded'[i] \in Seq(Nat)
               /\ deferred' \in {deferred, deferred \cup {i}} /\ attached' \in {attached, attached \cup {i}}
               /\ InOrder(i)' /\ Promised(i)'
  <2>1. ASSUME NEW j \in Loops, j # i PROVE InOrder(j)' /\ Promised(j)'
    <3>1. /\ loop'[j] = loop[j] /\ queue'[j] = queue[j] /\ yielded'[j] = yielded[j]
          /\ (j \in deferred' <=> j \in deferred) /\ (j \in attached => j \in attached')
      BY <1>1, <1>4, <2>1 DEF ChanTypes
    <3> QED BY <1>1, <3>1 DEF ChanInv, InOrder, Promised, Handed, Had
  <2>2. ChanTypes'
    BY <1>1, <1>4 DEF ChanTypes
  <2> QED BY <1>4, <2>1, <2>2 DEF ChanInv
<1>5. CASE Chan!Stops(i)
  <2>1. loop' = [loop EXCEPT ![i] = "returned"] /\ UNCHANGED <<queue, deferred, attached, yielded>>
    BY <1>5 DEF Chan!Continue
  <2>2. loop'[i] = "returned" /\ ~(~disconnected)
    BY <1>1, <1>5, <2>1 DEF ChanTypes, Chan!Stops
  <2> QED BY <1>1, <1>2, <1>3, <2>1, <2>2 DEF ChanTypes, InOrder, Promised
<1>6. CASE ~Chan!Stops(i) /\ queue[i] # <<>>
  <2>1. /\ loop' = [loop EXCEPT ![i] = "body"] /\ queue' = [queue EXCEPT ![i] = Tail(queue[i])]
        /\ yielded' = [yielded EXCEPT ![i] = Append(yielded[i], Head(queue[i]))] /\ UNCHANGED <<deferred, attached>>
    BY <1>6 DEF Chan!Continue, Chan!Yields
  <2>2. /\ Head(queue[i]) = Len(yielded[i]) + 1 /\ Tail(queue[i]) \in Seq(Nat)
        /\ Len(Tail(queue[i])) = Len(queue[i]) - 1 /\ Counts(Tail(queue[i]), Len(yielded[i]) + 1)
    BY <1>2, <1>3, <1>6, CountOne
  <2>3. /\ Append(yielded[i], Head(queue[i])) \in Seq(Nat) /\ Counts(Append(yielded[i], Head(queue[i])), 0)
        /\ Len(Append(yielded[i], Head(queue[i]))) = Len(yielded[i]) + 1
    <3>1. 0 + Len(yielded[i]) + 1 = Len(yielded[i]) + 1 /\ 0 \in Nat
      BY <1>2
    <3> QED BY <1>2, <1>3, <2>2, <3>1, CountOne
  <2>4. /\ loop'[i] = "body" /\ queue'[i] = Tail(queue[i]) /\ yielded'[i] = Append(yielded[i], Head(queue[i]))
    BY <1>1, <2>1 DEF ChanTypes
  <2>5. ~Handed(i)' /\ Had(i)' = Len(yielded[i]) + 1
    BY <2>3, <2>4 DEF Handed, Had
  <2>6. Len(yielded[i]) + 1 + (Len(queue[i]) - 1) = arrived
    <3> DEFINE had == Len(yielded[i]) kept == Len(queue[i])
    <3>1. had \in Nat /\ kept \in Nat /\ arrived \in Nat /\ had + kept = arrived
      BY <1>2, <1>3
    <3>2. had + 1 + (kept - 1) = arrived
      <4> HIDE DEF had, kept
      <4> QED BY <3>1
    <3> QED BY <3>2
  <2>7. InOrder(i)'
    BY <1>1, <2>2, <2>3, <2>4, <2>5, <2>6 DEF InOrder
  <2>8. Promised(i)'
    BY <1>1, <2>1, <2>4 DEF Promised
  <2> QED BY <2>1, <2>2, <2>3, <2>4, <2>7, <2>8
<1>7. CASE ~Chan!Stops(i) /\ queue[i] = <<>>
  <2>1. /\ loop' = [loop EXCEPT ![i] = "waiting"] /\ UNCHANGED <<queue, yielded>>
        /\ deferred' = deferred \cup {i} /\ attached' = attached \cup {i}
    BY <1>7 DEF Chan!Continue
  <2>2. loop'[i] = "waiting" /\ ~disconnected
    BY <1>1, <1>7, <2>1 DEF ChanTypes, Chan!Stops, Promised
  <2>3. ~Handed(i)' /\ Had(i)' = Had(i)
    BY <1>3, <2>1, <2>2 DEF Handed, Had
  <2>4. InOrder(i)'
    BY <1>1, <1>3, <2>1, <2>2, <2>3 DEF InOrder
  <2>5. Promised(i)'
    BY <1>1, <1>7, <2>1, <2>2 DEF Promised
  <2>6. queue' = [queue EXCEPT ![i] = queue'[i]] /\ yielded' = [yielded EXCEPT ![i] = yielded'[i]]
        /\ queue'[i] = queue[i] /\ yielded'[i] = yielded[i] /\ loop' = [loop EXCEPT ![i] = loop'[i]]
    BY <1>1, <2>1, <2>2 DEF ChanTypes
  <2> QED BY <1>2, <2>1, <2>2, <2>4, <2>5, <2>6
<1> QED BY <1>5, <1>6, <1>7

(* what the loop was handed is the next message *)
LEMMA ResumeSteps == ASSUME ChanInv, NEW i \in Loops, Chan!Resume(i) PROVE ChanInv'
<1>1. /\ ChanTypes /\ InOrder(i) /\ Promised(i) /\ loop[i] = "resuming" /\ attached' = attached \ {i}
      /\ UNCHANGED <<queue, deferred, value, disconnected, arrived>>
  BY DEF ChanInv, Chan!Resume
<1>2. /\ queue[i] \in Seq(Nat) /\ yielded[i] \in Seq(Nat) /\ Len(queue[i]) \in Nat /\ Len(yielded[i]) \in Nat
      /\ arrived \in Nat /\ value[i] \in Nat
  BY <1>1 DEF ChanTypes
<1>3. SUFFICES /\ loop' = [loop EXCEPT ![i] = loop'[i]] /\ loop'[i] \in {"body", "returned"}
               /\ yielded' = [yielded EXCEPT ![i] = yielded'[i]] /\ yielded'[i] \in Seq(Nat) /\ InOrder(i)'
  <2>1. ASSUME NEW j \in Loops, j # i PROVE InOrder(j)' /\ Promised(j)'
    <3>1. loop'[j] = loop[j] /\ yielded'[j] = yielded[j] /\ (j \in attached => j \in attached')
      BY <1>1, <1>3, <2>1 DEF ChanTypes
    <3> QED BY <1>1, <3>1 DEF ChanInv, InOrder, Promised, Handed, Had
  <2>2. ChanTypes' /\ Promised(i)'
    BY <1>1, <1>3 DEF ChanTypes, Promised
  <2> QED BY <1>3, <2>1, <2>2 DEF ChanInv
<1>4. CASE value[i] = 0
  <2>1. loop' = [loop EXCEPT ![i] = "returned"] /\ yielded' = yielded
    BY <1>4 DEF Chan!Resume
  <2>2. loop'[i] = "returned"
    BY <1>1, <2>1 DEF ChanTypes
  <2> QED BY <1>1, <1>2, <2>1, <2>2 DEF ChanTypes, InOrder
<1>5. CASE value[i] # 0
  <2>1. loop' = [loop EXCEPT ![i] = "body"] /\ yielded' = [yielded EXCEPT ![i] = Append(yielded[i], value[i])]
    BY <1>5 DEF Chan!Resume, Chan!Yields
  <2>2. /\ Counts(yielded[i], 0) /\ value[i] = Len(yielded[i]) + 1 /\ Had(i) = Len(yielded[i]) + 1
        /\ Counts(queue[i], Had(i)) /\ Had(i) + Len(queue[i]) = arrived
    BY <1>1, <1>5 DEF InOrder, Handed, Had
  <2>3. /\ Append(yielded[i], value[i]) \in Seq(Nat) /\ Counts(Append(yielded[i], value[i]), 0)
        /\ Len(Append(yielded[i], value[i])) = Len(yielded[i]) + 1
    <3>1. 0 \in Nat /\ 0 + Len(yielded[i]) + 1 = value[i]
      BY <1>2, <2>2
    <3>2. /\ Append(yielded[i], 0 + Len(yielded[i]) + 1) \in Seq(Nat)
          /\ Counts(Append(yielded[i], 0 + Len(yielded[i]) + 1), 0)
          /\ Len(Append(yielded[i], 0 + Len(yielded[i]) + 1)) = Len(yielded[i]) + 1
      BY <1>2, <2>2, <3>1, CountOne
    <3> QED BY <3>1, <3>2
  <2>4. loop'[i] = "body" /\ yielded'[i] = Append(yielded[i], value[i])
    BY <1>1, <2>1 DEF ChanTypes
  <2>5. ~Handed(i)' /\ Had(i)' = Had(i)
    BY <2>2, <2>3, <2>4 DEF Handed, Had
  <2>6. InOrder(i)'
    BY <1>1, <2>2, <2>3, <2>4, <2>5 DEF InOrder
  <2> QED BY <2>1, <2>3, <2>4, <2>6
<1> QED BY <1>4, <1>5

(* a body that leaves its loop, which then wants nothing more *)
LEMMA BreakSteps == ASSUME ChanInv, NEW i \in Loops, Chan!Break(i) PROVE ChanInv'
<1>1. /\ ChanTypes /\ loop[i] = "body" /\ loop' = [loop EXCEPT ![i] = "returned"]
      /\ UNCHANGED <<queue, deferred, value, attached, disconnected, arrived, yielded>>
  BY DEF ChanInv, Chan!Break
<1>2. ASSUME NEW j \in Loops PROVE InOrder(j)' /\ Promised(j)'
  <2>1. loop'[j] = IF j = i THEN "returned" ELSE loop[j]
    BY <1>1 DEF ChanTypes
  <2>2. InOrder(j) /\ Promised(j)
    BY DEF ChanInv
  <2>3. CASE j = i
    BY <1>1, <2>1, <2>2, <2>3 DEF InOrder, Promised
  <2>4. CASE j # i
    BY <1>1, <2>1, <2>2, <2>4 DEF InOrder, Promised, Handed, Had
  <2> QED BY <2>3, <2>4
<1>3. ChanTypes'
  BY <1>1 DEF ChanTypes
<1> QED BY <1>2, <1>3 DEF ChanInv

(* every loop that waits is attached, and no other has a promise *)
LEMMA DisconnectSteps == ChanInv /\ Chan!Disconnect => ChanInv'
<1> SUFFICES ASSUME ChanInv, Chan!Disconnect PROVE ChanInv'
  OBVIOUS
<1>1. /\ ChanTypes /\ ~disconnected /\ disconnected' = TRUE
      /\ attached \subseteq deferred /\ (\A i \in Loops : loop[i] # "idle")
      /\ value' = [i \in Loops |-> IF i \in attached THEN 0 ELSE value[i]]
      /\ loop' = [i \in Loops |-> IF i \in attached THEN "resuming" ELSE loop[i]]
      /\ UNCHANGED <<queue, deferred, attached, arrived, yielded>>
  BY DEF ChanInv, Chan!Disconnect
<1>2. ASSUME NEW i \in Loops PROVE InOrder(i)' /\ Promised(i)'
  <2>1. InOrder(i) /\ Promised(i)
    BY DEF ChanInv
  <2>2. CASE i \in attached
    <3>1. loop[i] = "waiting" /\ loop'[i] = "resuming" /\ value'[i] = 0
      BY <1>1, <2>1, <2>2 DEF Promised
    <3>2. ~Handed(i) /\ ~Handed(i)' /\ Had(i)' = Had(i)
      BY <1>1, <3>1 DEF Handed, Had
    <3> QED BY <1>1, <2>1, <3>1, <3>2 DEF InOrder, Promised
  <2>3. CASE i \notin attached
    <3>1. loop[i] # "waiting" /\ loop'[i] = loop[i] /\ value'[i] = value[i]
      BY <1>1, <2>1, <2>3 DEF Promised
    <3> QED BY <1>1, <2>1, <3>1 DEF InOrder, Promised, Handed, Had
  <2> QED BY <2>2, <2>3
<1>3. ChanTypes'
  BY <1>1 DEF ChanTypes
<1> QED BY <1>2, <1>3 DEF ChanInv

(* A loop gets the messages since iterable() each once and in order, also  *)
(* those that arrive between the promise and its resumption, and waits     *)
(* only while there is none for it and somebody is left to wake it: for    *)
(* any number of loops and messages.                                       *)
THEOREM YieldsInOrder == Chan!Spec => []YieldsAll
<1>1. ChanInv /\ [Chan!Next]_Chan!vars => ChanInv'
  <2> SUFFICES ASSUME ChanInv, [Chan!Next]_Chan!vars PROVE ChanInv'
    OBVIOUS
  <2>1. CASE Chan!Arrive \/ Chan!Disconnect
    BY <2>1, ArriveSteps, DisconnectSteps
  <2>2. ASSUME NEW i \in Loops, Chan!Continue(i) \/ Chan!Resume(i) \/ Chan!Break(i) PROVE ChanInv'
    BY <2>2, ContinueSteps, ResumeSteps, BreakSteps
  <2>3. CASE UNCHANGED Chan!vars
    BY <2>3 DEF Chan!vars, ChanInv, ChanTypes, InOrder, Promised, Handed, Had
  <2> QED BY <2>1, <2>2, <2>3 DEF Chan!Next
<1>2. ChanInv => YieldsAll
  <2> SUFFICES ASSUME ChanInv, NEW i \in Loops
               PROVE  /\ yielded[i] = [m \in 1..Len(yielded[i]) |-> m]
                      /\ loop[i] = "waiting" => ~disconnected /\ Len(yielded[i]) = arrived
    BY DEF YieldsAll, Chan!YieldsAll
  <2>1. ChanTypes /\ InOrder(i) /\ Promised(i) /\ yielded[i] \in Seq(Nat)
    BY DEF ChanInv, ChanTypes
  <2>2. yielded[i] = [m \in 1..Len(yielded[i]) |-> yielded[i][m]]
    BY <2>1
  <2>3. \A m \in 1..Len(yielded[i]) : yielded[i][m] = m
    BY <2>1 DEF InOrder, Counts
  <2>4. yielded[i] = [m \in 1..Len(yielded[i]) |-> m]
    BY <2>2, <2>3
  <2>5. ASSUME loop[i] = "waiting" PROVE ~disconnected /\ Len(yielded[i]) = arrived
    <3>1. ~Handed(i) /\ Had(i) = Len(yielded[i]) /\ Len(queue[i]) = 0 /\ Len(yielded[i]) \in Nat
      BY <2>1, <2>5 DEF Handed, Had, Promised
    <3> QED BY <2>1, <2>5, <3>1 DEF InOrder, Promised
  <2> QED BY <2>4, <2>5
<1> QED BY <1>1, <1>2, ChanInit, PTL DEF Chan!Spec

-----------------------------------------------------------------------------
(***************************************************************************)
(* Subscriptions.                                                          *)
(***************************************************************************)

(* induction over numbers, for a set of them *)
LEMMA SetOfNumbers ==
  ASSUME NEW T, 0 \in T, \A n \in Nat : n \in T => n + 1 \in T
  PROVE  \A n \in Nat : n \in T
<1> SUFFICES ASSUME NEW k \in Nat, k \notin T PROVE FALSE
  OBVIOUS
<1> DEFINE rest == Nat \ T
<1>1. PICK m \in rest : \A n \in rest : ~ (<<n, m>> \in OpToRel(<, Nat))
  BY NatLessThanWellFounded, WFMin
<1>2. m \in Nat /\ m \notin T
  BY <1>1
<1>3. m # 0
  BY <1>2
<1>4. m - 1 \in Nat /\ m - 1 + 1 = m /\ m - 1 < m
  BY <1>2, <1>3
<1>5. <<m - 1, m>> \in OpToRel(<, Nat)
  BY <1>2, <1>4 DEF OpToRel
<1>6. m - 1 \notin rest
  BY <1>1, <1>5, Zenon
<1> QED BY <1>2, <1>4, <1>6

\* the recursive function behind Telling
Told(g, messages, from, s, n) ==
  IF n <= from THEN <<>>
  ELSE IF messages[n].by = s THEN g[n - 1] ELSE Append(g[n - 1], messages[n].id)

(* which exists *)
LEMMA TellingIs ==
  ASSUME NEW messages, NEW from \in Nat, NEW s
  PROVE  /\ DOMAIN Pub!Telling(messages, from, s) = Nat
         /\ \A n \in Nat : Pub!Telling(messages, from, s)[n]
                             = Told(Pub!Telling(messages, from, s), messages, from, s, n)
<1> DEFINE Upto(g, n) == \A k \in 0..n : g[k] = Told(g, messages, from, s, k)
           T == {n \in Nat : \E g : Upto(g, n)}
<1>1. 0 \in T
  <2>1. Upto([k \in Nat |-> <<>>], 0)
    BY DEF Told
  <2> QED BY <2>1
<1>2. ASSUME NEW n \in Nat, n \in T PROVE n + 1 \in T
  <2>1. PICK g : Upto(g, n)
    BY <1>2
  <2> DEFINE h == [k \in Nat |-> IF k = n + 1 THEN Told(g, messages, from, s, n + 1) ELSE g[k]]
  <2>2. ASSUME NEW k \in 0..n + 1 PROVE h[k] = Told(h, messages, from, s, k)
    <3>1. CASE k = n + 1
      <4>1. h[k] = Told(g, messages, from, s, k)
        BY <3>1
      <4>2. h[k - 1] = g[k - 1]
        BY <3>1
      <4> HIDE DEF h
      <4> QED BY <4>1, <4>2 DEF Told
    <3>2. CASE k # n + 1
      <4>1. k \in 0..n /\ h[k] = g[k] /\ (k > 0 => h[k - 1] = g[k - 1]) /\ (k <= 0 => k <= from)
        BY <3>2
      <4>2. h[k] = Told(g, messages, from, s, k)
        BY <2>1, <4>1
      <4> HIDE DEF h
      <4> QED BY <4>1, <4>2 DEF Told
    <3> QED BY <3>1, <3>2
  <2> HIDE DEF h
  <2>3. \E later : Upto(later, n + 1)
    BY <2>2
  <2> QED BY <2>3
<1>3. \A n \in Nat : n \in T
  <2> HIDE DEF T
  <2> QED BY <1>1, <1>2, SetOfNumbers
<1>4. ASSUME NEW g, NEW h, NEW n \in Nat, Upto(g, n), Upto(h, n) PROVE g[n] = h[n]
  <2> DEFINE S == {k \in Nat : k <= n => g[k] = h[k]}
  <2>1. 0 \in S
    BY <1>4 DEF Told
  <2>2. ASSUME NEW k \in Nat, k \in S PROVE k + 1 \in S
    <3> SUFFICES ASSUME k + 1 <= n PROVE g[k + 1] = h[k + 1]
      OBVIOUS
    <3>1. k + 1 \in 0..n /\ k + 1 - 1 = k /\ g[k] = h[k]
      BY <2>2
    <3>2. g[k + 1] = Told(g, messages, from, s, k + 1) /\ h[k + 1] = Told(h, messages, from, s, k + 1)
      BY <1>4, <3>1
    <3> QED BY <3>1, <3>2 DEF Told
  <2>3. n \in S
    <3> HIDE DEF S
    <3> QED BY <2>1, <2>2, SetOfNumbers
  <2> QED BY <2>3
<1> DEFINE G(n) == CHOOSE g : Upto(g, n)
           f == [n \in Nat |-> G(n)[n]]
<1>5. \A n \in Nat : Upto(G(n), n)
  BY <1>3
<1>6. ASSUME NEW n \in Nat PROVE f[n] = Told(f, messages, from, s, n)
  <2>1. f[n] = G(n)[n] /\ n \in 0..n
    OBVIOUS
  <2>2. G(n)[n] = Told(G(n), messages, from, s, n)
    <3> HIDE DEF G
    <3> QED BY <1>5, <2>1
  <2>3. n > 0 => f[n - 1] = G(n)[n - 1]
    <3> SUFFICES ASSUME n > 0 PROVE f[n - 1] = G(n)[n - 1]
      OBVIOUS
    <3>1. n - 1 \in Nat /\ f[n - 1] = G(n - 1)[n - 1] /\ 0..(n - 1) \subseteq 0..n
      OBVIOUS
    <3>2. Upto(G(n), n - 1) /\ Upto(G(n - 1), n - 1)
      <4> HIDE DEF G
      <4> QED BY <1>5, <3>1
    <3> HIDE DEF G, f, Upto
    <3> QED BY <1>4, <3>1, <3>2
  <2>4. n <= 0 => n <= from
    OBVIOUS
  <2> HIDE DEF f, G
  <2> QED BY <2>1, <2>2, <2>3, <2>4 DEF Told
<1>7. f = [n \in Nat |-> Told(f, messages, from, s, n)]
  <2>1. f = [n \in Nat |-> f[n]]
    OBVIOUS
  <2> HIDE DEF f
  <2> QED BY <1>6, <2>1
<1>8. Pub!Telling(messages, from, s) = CHOOSE g : g = [n \in Nat |-> Told(g, messages, from, s, n)]
  BY DEF Pub!Telling, Told
<1> QED
  <2> HIDE DEF f
  <2>1. Pub!Telling(messages, from, s) = [n \in Nat |-> Told(Pub!Telling(messages, from, s), messages, from, s, n)]
    BY <1>7, <1>8
  <2> DEFINE t == Pub!Telling(messages, from, s)
  <2> HIDE DEF t
  <2>2. t = [n \in Nat |-> Told(t, messages, from, s, n)]
    BY <2>1 DEF t
  <2>3. DOMAIN t = Nat /\ \A n \in Nat : t[n] = Told(t, messages, from, s, n)
    BY <2>2
  <2> QED BY <2>3 DEF t
(* sequences: their elements, one more, one less *)
LEMMA Elements ==
  ASSUME NEW S, NEW a \in Seq(S)
  PROVE  /\ Len(a) \in Nat /\ (a = <<>> <=> Len(a) = 0) /\ <<>> \in Seq(S)
         /\ \A i \in 1..Len(a) : a[i] \in S
  OBVIOUS

(* what a sequence is with one more element *)
LEMMA Appended ==
  ASSUME NEW S, NEW a \in Seq(S), NEW e \in S
  PROVE  /\ Append(a, e) \in Seq(S) /\ Len(Append(a, e)) = Len(a) + 1
         /\ Append(a, e)[Len(a) + 1] = e /\ \A i \in 1..Len(a) : Append(a, e)[i] = a[i]
  OBVIOUS

(* what a sequence is without its first element *)
LEMMA Shortened ==
  ASSUME NEW S, NEW a \in Seq(S), a # <<>>
  PROVE  /\ Head(a) = a[1] /\ Tail(a) \in Seq(S) /\ Len(Tail(a)) = Len(a) - 1 /\ Len(a) > 0
         /\ \A i \in 1..(Len(a) - 1) : Tail(a)[i] = a[i + 1]
  OBVIOUS

Spoken == [id : Nat, by : Subscribers \cup {Nobody}]

\* messages that come after the beginning are told one by one
TellsOn(told, messages, from, s) ==
  \A n \in Nat : n >= from =>
    told[n + 1] = IF messages[n + 1].by = s THEN told[n] ELSE Append(told[n], messages[n + 1].id)

(* They are. *)
LEMMA TellingOn ==
  ASSUME NEW messages, NEW from \in Nat, NEW s
  PROVE  TellsOn(Pub!Telling(messages, from, s), messages, from, s)
<1> DEFINE told == Pub!Telling(messages, from, s)
<1>1. \A n \in Nat : told[n] = Told(told, messages, from, s, n)
  BY TellingIs
<1> HIDE DEF told
<1>2. ASSUME NEW n \in Nat, n >= from
      PROVE  told[n + 1] = IF messages[n + 1].by = s THEN told[n] ELSE Append(told[n], messages[n + 1].id)
  <2>1. told[n + 1] = Told(told, messages, from, s, n + 1) /\ n + 1 - 1 = n /\ ~ (n + 1 <= from)
    BY <1>1, <1>2
  <2> QED BY <2>1 DEF Told
<1>3. TellsOn(told, messages, from, s)
  BY <1>2 DEF TellsOn
<1> QED BY <1>3 DEF told

(* What a subscription has been told: nothing of the messages before it,   *)
(* and then message by message.                                            *)
LEMMA TellingFacts ==
  ASSUME NEW messages \in Seq(Spoken), NEW from \in Nat, NEW s
  PROVE  LET told == Pub!Telling(messages, from, s)
         IN /\ \A n \in Nat : n <= from => told[n] = <<>>
            /\ \A n \in Nat : n >= from =>
                 told[n + 1] = IF messages[n + 1].by = s THEN told[n] ELSE Append(told[n], messages[n + 1].id)
            /\ \A n \in 0..Len(messages) : told[n] \in Seq(Nat)
<1> DEFINE told == Pub!Telling(messages, from, s)
<1>1. \A n \in Nat : told[n] = Told(told, messages, from, s, n)
  BY TellingIs
<1>2. TellsOn(told, messages, from, s)
  BY TellingOn
<1> HIDE DEF told
<1>3. \A n \in Nat : n >= from =>
        told[n + 1] = IF messages[n + 1].by = s THEN told[n] ELSE Append(told[n], messages[n + 1].id)
  BY <1>2 DEF TellsOn
<1>4. \A n \in Nat : n <= from => told[n] = <<>>
  BY <1>1 DEF Told
<1>5. \A n \in 0..Len(messages) : told[n] \in Seq(Nat)
  <2> DEFINE T == {n \in Nat : n <= Len(messages) => told[n] \in Seq(Nat)}
  <2>1. 0 \in T
    <3>1. <<>> \in Seq(Nat) /\ 0 \in Nat /\ told[0] = <<>>
      BY <1>4
    <3> QED BY <3>1
  <2>2. ASSUME NEW n \in Nat, n \in T PROVE n + 1 \in T
    <3> SUFFICES ASSUME n + 1 <= Len(messages) PROVE told[n + 1] \in Seq(Nat)
      OBVIOUS
    <3>1. told[n] \in Seq(Nat) /\ messages[n + 1] \in Spoken
      BY <2>2, Elements
    <3>2. messages[n + 1].id \in Nat
      BY <3>1 DEF Spoken
    <3>3. CASE n >= from
      <4>1. told[n + 1] = told[n] \/ told[n + 1] = Append(told[n], messages[n + 1].id)
        BY <1>3, <3>3
      <4> QED BY <3>1, <3>2, <4>1, Appended
    <3>4. CASE n < from
      <4>1. told[n + 1] = <<>>
        BY <1>4, <3>4
      <4> QED BY <4>1, Elements
    <3> QED BY <3>3, <3>4
  <2>3. \A n \in Nat : n \in T
    <3> HIDE DEF T
    <3> QED BY <2>1, <2>2, SetOfNumbers
  <2> QED BY <2>3
<1> QED BY <1>3, <1>4, <1>5 DEF told

(* What it has been told of some messages does not depend on later ones. *)
LEMMA TellingAgrees ==
  ASSUME NEW messages \in Seq(Spoken), NEW m \in Spoken, NEW from \in Nat, NEW s
  PROVE  \A n \in 0..Len(messages) :
           Pub!Telling(Append(messages, m), from, s)[n] = Pub!Telling(messages, from, s)[n]
<1> DEFINE longer == Append(messages, m)
           told == Pub!Telling(messages, from, s)
           later == Pub!Telling(longer, from, s)
           T == {n \in Nat : n <= Len(messages) => later[n] = told[n]}
<1>1. /\ \A n \in Nat : n <= from => told[n] = <<>>
      /\ \A n \in Nat : n >= from =>
           told[n + 1] = IF messages[n + 1].by = s THEN told[n] ELSE Append(told[n], messages[n + 1].id)
  BY TellingFacts
<1>2. longer \in Seq(Spoken)
  OBVIOUS
<1>3. /\ \A n \in Nat : n <= from => later[n] = <<>>
      /\ \A n \in Nat : n >= from =>
           later[n + 1] = IF longer[n + 1].by = s THEN later[n] ELSE Append(later[n], longer[n + 1].id)
  <2> HIDE DEF longer
  <2> QED BY <1>2, TellingFacts
<1>4. \A n \in 1..Len(messages) : longer[n] = messages[n]
  OBVIOUS
<1> HIDE DEF longer, told, later
<1>5. 0 \in T
  BY <1>1, <1>3
<1>6. ASSUME NEW n \in Nat, n \in T PROVE n + 1 \in T
  <2> SUFFICES ASSUME n + 1 <= Len(messages) PROVE later[n + 1] = told[n + 1]
    OBVIOUS
  <2>1. later[n] = told[n] /\ longer[n + 1] = messages[n + 1]
    BY <1>4, <1>6
  <2>2. CASE n >= from
    BY <1>1, <1>3, <2>1, <2>2
  <2>3. CASE n < from
    BY <1>1, <1>3, <2>3
  <2> QED BY <2>2, <2>3
<1>7. \A n \in Nat : n \in T
  <2> HIDE DEF T
  <2> QED BY <1>5, <1>6, SetOfNumbers
<1> QED BY <1>7 DEF told, later, longer

\* one more message is handled
ToldMore(messages, m, from, s) ==
  Pub!Telling(Append(messages, m), from, s)[Len(messages) + 1]
    = IF m.by = s THEN Pub!Telling(messages, from, s)[Len(messages)]
      ELSE Append(Pub!Telling(messages, from, s)[Len(messages)], m.id)

(* It is told of one more message, unless that is its own. *)
LEMMA TellingMore ==
  ASSUME NEW messages \in Seq(Spoken), NEW m \in Spoken, NEW from \in 0..Len(messages), NEW s
  PROVE  ToldMore(messages, m, from, s)
<1> DEFINE longer == Append(messages, m)
           l == Len(messages)
           told == Pub!Telling(messages, from, s)
           later == Pub!Telling(longer, from, s)
<1>1. l \in Nat /\ longer \in Seq(Spoken) /\ longer[l + 1] = m /\ from \in Nat /\ from <= l /\ l \in 0..l
  BY Appended, Elements
<1>2. later[l] = told[l]
  BY <1>1, TellingAgrees
<1> HIDE DEF longer, l
<1>3. TellsOn(later, longer, from, s)
  BY <1>1, TellingOn
<1>4. later[l + 1] = IF longer[l + 1].by = s THEN later[l] ELSE Append(later[l], longer[l + 1].id)
  <2>1. \A k \in Nat : k >= from =>
          later[k + 1] = IF longer[k + 1].by = s THEN later[k] ELSE Append(later[k], longer[k + 1].id)
    BY <1>3 DEF TellsOn
  <2> HIDE DEF later
  <2> QED BY <1>1, <2>1
<1> HIDE DEF told, later
<1>5. later[l + 1] = IF m.by = s THEN told[l] ELSE Append(told[l], m.id)
  BY <1>1, <1>2, <1>4
<1> QED BY <1>5 DEF ToldMore, told, later, longer, l

(* What it has been told is the beginning of what it is told later. *)
LEMMA TellingGrows ==
  ASSUME NEW messages \in Seq(Spoken), NEW from \in Nat, NEW s, NEW k \in 0..Len(messages)
  PROVE  Pub!IsPrefix(Pub!Telling(messages, from, s)[k], Pub!Telling(messages, from, s)[Len(messages)])
<1> DEFINE told == Pub!Telling(messages, from, s)
           Begins(a, b) == Len(a) <= Len(b) /\ \A i \in 1..Len(a) : a[i] = b[i]
           T == {n \in Nat : k <= n /\ n <= Len(messages) => Begins(told[k], told[n])}
<1>1. /\ \A n \in Nat : n <= from => told[n] = <<>>
      /\ \A n \in Nat : n >= from =>
           told[n + 1] = IF messages[n + 1].by = s THEN told[n] ELSE Append(told[n], messages[n + 1].id)
      /\ \A n \in 0..Len(messages) : told[n] \in Seq(Nat)
  BY TellingFacts
<1> HIDE DEF told
<1>2. 0 \in T
  OBVIOUS
<1>3. ASSUME NEW n \in Nat, n \in T PROVE n + 1 \in T
  <2> SUFFICES ASSUME k <= n + 1, n + 1 <= Len(messages) PROVE Begins(told[k], told[n + 1])
    OBVIOUS
  <2>1. /\ told[k] \in Seq(Nat) /\ messages[n + 1].id \in Nat
        /\ n <= Len(messages) /\ told[n] \in Seq(Nat)
    <3>1. messages[n + 1] \in Spoken
      BY Elements
    <3>2. messages[n + 1].id \in Nat
      BY <3>1 DEF Spoken
    <3> QED BY <1>1, <3>2
  <2>2. CASE k = n + 1
    BY <2>2
  <2>3. CASE k <= n /\ n < from
    <3>1. told[n + 1] = <<>> /\ told[n] = <<>>
      BY <1>1, <2>3
    <3> QED BY <1>3, <2>3, <3>1
  <2>4. CASE k <= n /\ n >= from
    <3>1. Begins(told[k], told[n])
      BY <1>3, <2>4
    <3>2. told[n + 1] = told[n] \/ told[n + 1] = Append(told[n], messages[n + 1].id)
      BY <1>1, <2>4
    <3>3. \/ told[n + 1] = told[n]
          \/ /\ Len(told[n + 1]) = Len(told[n]) + 1 /\ Len(told[k]) \in Nat /\ Len(told[n]) \in Nat
             /\ \A i \in 1..Len(told[n]) : told[n + 1][i] = told[n][i]
      <4> HIDE DEF Begins
      <4> QED BY <2>1, <3>2, Appended, Elements
    <3> QED BY <3>1, <3>3
  <2> QED BY <2>2, <2>3, <2>4
<1>4. \A n \in Nat : n \in T
  <2> HIDE DEF T
  <2> QED BY <1>2, <1>3, SetOfNumbers
<1>5. Begins(told[k], told[Len(messages)])
  BY <1>4
<1>6. ASSUME NEW a \in Seq(Nat), NEW b \in Seq(Nat), Begins(a, b) PROVE Pub!IsPrefix(a, b)
  <2>1. SubSeq(a, 1, Len(a)) = SubSeq(b, 1, Len(a))
    BY <1>6
  <2> QED BY <1>6, <2>1 DEF Pub!IsPrefix
<1>7. told[k] \in Seq(Nat) /\ told[Len(messages)] \in Seq(Nat)
  BY <1>1
<1>8. Pub!IsPrefix(told[k], told[Len(messages)])
  BY <1>5, <1>6, <1>7
<1> QED BY <1>8 DEF told
-----------------------------------------------------------------------------
Whats == [type : {"publish"}, id : Nat, by : Subscribers \cup {Nobody}] \cup [type : {"subscribe"}, by : Subscribers]
Items == [type : {"forward"}, id : Nat] \cup Whats
Requests == Whats \cup [type : {"syn"}, by : Subscribers] \cup [type : {"unsubscribe"}]
Replies == [type : {"publish"}, id : Nat] \cup [type : {"ack"}]

(***************************************************************************)
(* What is on its way to a client is a sequence of items: messages of      *)
(* others, and what its own requests were for, which have been             *)
(* acknowledged.  The acknowledgements themselves do not say what for; the *)
(* client finds it in syn, whose elements are numbered by those it awaits. *)
(***************************************************************************)
Acks(e) == IF e.type = "forward" THEN 0 ELSE 1
Answered(e, reply, y, n) ==
  IF e.type = "forward" THEN reply.type = "publish" /\ reply.id = e.id ELSE reply.type = "ack" /\ y[n] = e

Expects(m) == IF m.type = "unsubscribe" THEN 0 ELSE 1
Asked(m, y, n) ==
  m.type # "unsubscribe" => IF m.type = "publish" THEN y[n] = m ELSE y[n].type = "subscribe" /\ y[n].by = m.by

Ascending(f, n) == \A i \in 0..n : \A k \in i..n : f[i] <= f[k]

AcksFit(acks, d, y, E) ==
  /\ acks \in [0..Len(E) -> Nat] /\ acks[0] = 0 /\ Ascending(acks, Len(E))
  /\ \A i \in 1..Len(E) : acks[i] = acks[i - 1] + Acks(E[i]) /\ Answered(E[i], d[i], y, acks[i])

AsksFit(asks, u, y, base) ==
  /\ asks \in [0..Len(u) -> Nat] /\ asks[0] = base /\ asks[Len(u)] = Len(y) /\ Ascending(asks, Len(u))
  /\ \A j \in 1..Len(u) : asks[j] = asks[j - 1] + Expects(u[j]) /\ Asked(u[j], y, asks[j])

\* the first n of what the client awaits are acknowledged, and the others not handled
Acked(d, y, E, n) == \E acks : AcksFit(acks, d, y, E) /\ acks[Len(E)] = n
Awaits(u, y, n) == \E asks : AsksFit(asks, u, y, n)
Paired(d, u, y, E) == Len(d) = Len(E) /\ \E n \in Nat : n <= Len(y) /\ Acked(d, y, E, n) /\ Awaits(u, y, n)

\* z is y without its first k elements; z begins as y does
Without(z, y, n, k) == \A i \in 1..(n - k) : z[i] = y[i + k]
Continues(z, y, n) == \A i \in 1..n : z[i] = y[i]

(* one more number at the end of such a sequence *)
LEMMA NumberAdded ==
  ASSUME NEW n \in Nat, NEW f \in [0..n -> Nat], Ascending(f, n), NEW k \in Nat
  PROVE  LET g == [i \in 0..(n + 1) |-> IF i = n + 1 THEN f[n] + k ELSE f[i]]
         IN /\ g \in [0..(n + 1) -> Nat] /\ Ascending(g, n + 1) /\ g[n + 1] = f[n] + k
            /\ \A i \in 0..n : g[i] = f[i]
<1> DEFINE g == [i \in 0..(n + 1) |-> IF i = n + 1 THEN f[n] + k ELSE f[i]]
<1>1. g \in [0..(n + 1) -> Nat] /\ g[n + 1] = f[n] + k /\ \A i \in 0..n : g[i] = f[i]
  OBVIOUS
<1> HIDE DEF g
<1>2. ASSUME NEW i \in 0..(n + 1), NEW j \in i..(n + 1) PROVE g[i] <= g[j]
  <2>1. CASE j <= n
    BY <1>1, <2>1 DEF Ascending
  <2>2. CASE j = n + 1 /\ i <= n
    <3>1. f[i] <= f[n] /\ f[i] \in Nat /\ f[n] \in Nat
      BY <2>2 DEF Ascending
    <3> QED BY <1>1, <2>2, <3>1
  <2>3. CASE i = n + 1
    BY <1>1, <2>3
  <2> QED BY <2>1, <2>2, <2>3
<1> QED BY <1>1, <1>2 DEF Ascending, g

(* the first number taken away from it, and a part of the others *)
LEMMA NumberDropped ==
  ASSUME NEW n \in Nat, n > 0, NEW f \in [0..n -> Nat], Ascending(f, n), NEW k \in Nat, k <= f[1]
  PROVE  LET g == [i \in 0..(n - 1) |-> f[i + 1] - k]
         IN /\ g \in [0..(n - 1) -> Nat] /\ Ascending(g, n - 1)
            /\ \A i \in 0..(n - 1) : g[i] = f[i + 1] - k
<1> DEFINE g == [i \in 0..(n - 1) |-> f[i + 1] - k]
<1>1. \A i \in 0..(n - 1) : f[i + 1] \in Nat /\ k <= f[i + 1]
  <2> SUFFICES ASSUME NEW i \in 0..(n - 1) PROVE f[i + 1] \in Nat /\ k <= f[i + 1]
    OBVIOUS
  <2>1. 1 \in 0..n /\ i + 1 \in 1..n /\ i + 1 \in 0..n
    OBVIOUS
  <2>2. f[1] <= f[i + 1] /\ f[1] \in Nat /\ f[i + 1] \in Nat
    BY <2>1 DEF Ascending
  <2> QED BY <2>2
<1>2. g \in [0..(n - 1) -> Nat] /\ \A i \in 0..(n - 1) : g[i] = f[i + 1] - k
  BY <1>1
<1> HIDE DEF g
<1>3. ASSUME NEW i \in 0..(n - 1), NEW j \in i..(n - 1) PROVE g[i] <= g[j]
  <2>1. f[i + 1] <= f[j + 1] /\ f[i + 1] \in Nat /\ f[j + 1] \in Nat /\ j \in 0..(n - 1)
    BY <1>1 DEF Ascending
  <2>2. g[i] = f[i + 1] - k /\ g[j] = f[j + 1] - k
    BY <1>2, <2>1
  <2> QED BY <2>1, <2>2
<1> QED BY <1>2, <1>3 DEF Ascending, g

(* One more item is sent to the client. *)
LEMMA AckAdded ==
  ASSUME NEW d \in Seq(Replies), NEW y, NEW E \in Seq(Items), Len(d) = Len(E),
         NEW base, Acked(d, y, E, base),
         NEW e \in Items, NEW reply \in Replies, NEW k, k = base + Acks(e), Answered(e, reply, y, k)
  PROVE  Acked(Append(d, reply), y, Append(E, e), k)
<1>. PICK acks : AcksFit(acks, d, y, E) /\ acks[Len(E)] = base
  BY DEF Acked
<1> DEFINE n == Len(E)
           more == [i \in 0..(n + 1) |-> IF i = n + 1 THEN acks[n] + Acks(e) ELSE acks[i]]
           longer == Append(E, e)
           replies == Append(d, reply)
<1>1. /\ n \in Nat /\ Len(longer) = n + 1 /\ longer[n + 1] = e /\ \A i \in 1..n : longer[i] = E[i]
      /\ replies[n + 1] = reply /\ \A i \in 1..n : replies[i] = d[i]
  BY Appended, Elements
<1>2. /\ more \in [0..(n + 1) -> Nat] /\ Ascending(more, n + 1) /\ more[n + 1] = acks[n] + Acks(e)
      /\ \A i \in 0..n : more[i] = acks[i]
  <2>1. Acks(e) \in Nat
    BY DEF Acks
  <2>2. n \in Nat /\ acks \in [0..n -> Nat] /\ Ascending(acks, n)
    BY <1>1 DEF AcksFit
  <2> HIDE DEF n
  <2> QED BY <2>1, <2>2, NumberAdded
<1> HIDE DEF n, more, longer, replies
<1>3. /\ acks[0] = 0 /\ Answered(e, reply, y, acks[n] + Acks(e))
      /\ \A i \in 1..n : acks[i] = acks[i - 1] + Acks(E[i]) /\ Answered(E[i], d[i], y, acks[i])
  BY DEF AcksFit, n
<1>4. ASSUME NEW i \in 1..(n + 1) PROVE more[i] = more[i - 1] + Acks(longer[i]) /\ Answered(longer[i], replies[i], y, more[i])
  <2>1. CASE i = n + 1
    BY <1>1, <1>2, <1>3, <2>1
  <2>2. CASE i <= n
    <3>1. i \in 1..n /\ i \in 0..n /\ i - 1 \in 0..n
      BY <1>1, <2>2
    <3> QED BY <1>1, <1>2, <1>3, <3>1
  <2> QED BY <1>1, <2>1, <2>2
<1>5. more[0] = 0
  BY <1>1, <1>2, <1>3
<1>6. AcksFit(more, replies, y, longer)
  BY <1>1, <1>2, <1>4, <1>5 DEF AcksFit
<1>7. more[Len(longer)] = k
  BY <1>1, <1>2 DEF n
<1> QED BY <1>6, <1>7 DEF longer, replies, Acked

(* What the client awaits next does not change what it has been sent. *)
LEMMA AcksOfMore ==
  ASSUME NEW d, NEW y, NEW z, NEW E \in Seq(Items), NEW base, Acked(d, y, E, base),
         NEW n \in Nat, base <= n, Continues(z, y, n)
  PROVE  Acked(d, z, E, base)
<1>. PICK acks : AcksFit(acks, d, y, E) /\ acks[Len(E)] = base
  BY DEF Acked
<1>1. ASSUME NEW i \in 1..Len(E) PROVE Answered(E[i], d[i], z, acks[i])
  <2>1. /\ i \in 0..Len(E) /\ i - 1 \in 0..Len(E) /\ Len(E) \in i..Len(E) /\ Len(E) \in 0..Len(E)
        /\ acks[i] = acks[i - 1] + Acks(E[i]) /\ Answered(E[i], d[i], y, acks[i])
        /\ acks \in [0..Len(E) -> Nat]
    BY Elements DEF AcksFit
  <2>2. acks[i] <= acks[Len(E)] /\ acks[i] \in Nat /\ acks[i - 1] \in Nat /\ acks[Len(E)] \in Nat
    BY <2>1 DEF AcksFit, Ascending
  <2>3. E[i].type # "forward" => acks[i] \in 1..n
    BY <2>1, <2>2 DEF Acks
  <2> QED BY <2>1, <2>3 DEF Answered, Continues
<1> QED BY <1>1 DEF AcksFit, Acked

(* The client receives the first item. *)
LEMMA AckDropped ==
  ASSUME NEW d \in Seq(Replies), NEW y, NEW z, NEW E \in Seq(Items), Len(d) = Len(E), E # <<>>,
         NEW base, Acked(d, y, E, base),
         NEW n \in Nat, base <= n, NEW k, k = Acks(E[1]), Without(z, y, n, k)
  PROVE  Acked(Tail(d), z, Tail(E), base - k) /\ k <= base
<1>. PICK acks : AcksFit(acks, d, y, E) /\ acks[Len(E)] = base
  BY DEF Acked
<1> DEFINE l == Len(E)
           rest == [i \in 0..(l - 1) |-> acks[i + 1] - k]
           items == Tail(E)
           replies == Tail(d)
<1>1. /\ l \in Nat /\ l > 0 /\ Len(items) = l - 1 /\ \A i \in 1..(l - 1) : items[i] = E[i + 1]
      /\ \A i \in 1..(l - 1) : replies[i] = d[i + 1]
  <2>1. d # <<>>
    BY Elements
  <2> QED BY <2>1, Shortened, Elements
<1>2. k \in {0, 1}
  BY DEF Acks
<1> HIDE DEF l, items, replies
<1>3. /\ acks \in [0..l -> Nat] /\ acks[0] = 0 /\ Ascending(acks, l) /\ acks[l] <= n
      /\ \A i \in 1..l : acks[i] = acks[i - 1] + Acks(E[i]) /\ Answered(E[i], d[i], y, acks[i])
      /\ \A i \in 1..(n - k) : z[i] = y[i + k]
  BY DEF AcksFit, Without, l
<1>4. acks[1] = k /\ 0 \in 0..(l - 1) /\ l - 1 \in 0..(l - 1) /\ l - 1 + 1 = l
  <2> DEFINE first == 1
  <2>1. acks[first] = acks[first - 1] + Acks(E[first])
    <3>1. first \in 1..l
      BY <1>1
    <3> HIDE DEF first
    <3> QED BY <1>3, <3>1
  <2>2. acks[1] = acks[0] + k
    BY <2>1
  <2> QED BY <1>1, <1>2, <1>3, <2>2
<1>5. /\ rest \in [0..(l - 1) -> Nat] /\ Ascending(rest, l - 1)
      /\ \A i \in 0..(l - 1) : rest[i] = acks[i + 1] - k
  <2>1. k \in Nat /\ k <= acks[1]
    BY <1>2, <1>4
  <2> QED BY <1>1, <1>3, <2>1, NumberDropped
<1> HIDE DEF rest
<1>6. rest[0] = 0 /\ rest[l - 1] = acks[l] - k
  BY <1>1, <1>2, <1>4, <1>5
<1>7. ASSUME NEW i \in 1..(l - 1)
      PROVE  rest[i] = rest[i - 1] + Acks(items[i]) /\ Answered(items[i], replies[i], z, rest[i])
  <2>1. i \in 0..(l - 1) /\ i - 1 \in 0..(l - 1) /\ i + 1 \in 1..l /\ i + 1 - 1 = i /\ i - 1 + 1 = i /\ i \in 1..l
    BY <1>1
  <2>2. /\ rest[i] = acks[i + 1] - k /\ rest[i - 1] = acks[i] - k /\ acks[i + 1] = acks[i] + Acks(items[i])
        /\ Answered(items[i], replies[i], y, acks[i + 1]) /\ acks[i] \in Nat /\ acks[i + 1] \in Nat /\ acks[l] \in Nat
        /\ k <= acks[i] /\ acks[i + 1] <= n
    <3>1. acks[1] <= acks[i] /\ acks[i + 1] <= acks[l]
      <4>1. 1 \in 0..l /\ i \in 1..l /\ i + 1 \in 0..l /\ l \in (i + 1)..l
        BY <1>1, <2>1
      <4> QED BY <1>3, <4>1 DEF Ascending
    <3>2. acks[i] \in Nat /\ acks[i + 1] \in Nat /\ acks[l] \in Nat
      <4>1. i \in 0..l /\ i + 1 \in 0..l /\ l \in 0..l
        BY <1>1, <2>1
      <4>2. acks \in [0..l -> Nat]
        BY <1>3
      <4> QED BY <4>1, <4>2
    <3>3. rest[i] = acks[i + 1] - k /\ rest[i - 1] = acks[i] - k
      <4>1. rest[i] = acks[i + 1] - k /\ rest[i - 1] = acks[i - 1 + 1] - k
        <5>1. \A j \in 0..(l - 1) : rest[j] = acks[j + 1] - k
          BY <1>5
        <5>2. i \in 0..(l - 1) /\ i - 1 \in 0..(l - 1)
          BY <2>1
        <5> QED BY <5>1, <5>2
      <4> QED BY <2>1, <4>1
    <3>4. items[i] = E[i + 1] /\ replies[i] = d[i + 1]
      BY <1>1
    <3>5. acks[i + 1] = acks[i] + Acks(items[i]) /\ Answered(items[i], replies[i], y, acks[i + 1])
      BY <1>3, <2>1, <3>4
    <3> QED BY <1>3, <1>4, <3>1, <3>2, <3>3, <3>5
  <2>3. items[i].type # "forward" => z[rest[i]] = y[acks[i + 1]]
    <3> SUFFICES ASSUME items[i].type # "forward" PROVE z[rest[i]] = y[acks[i + 1]]
      OBVIOUS
    <3>1. acks[i + 1] = acks[i] + 1
      BY <2>2 DEF Acks
    <3>2. rest[i] \in 1..(n - k) /\ rest[i] + k = acks[i + 1]
      BY <1>2, <2>2, <3>1
    <3> QED BY <1>3, <3>2
  <2>4. Acks(items[i]) \in {0, 1}
    BY DEF Acks
  <2> QED BY <1>2, <2>2, <2>3, <2>4 DEF Answered
<1>8. AcksFit(rest, replies, z, items)
  BY <1>1, <1>5, <1>6, <1>7 DEF AcksFit
<1>9. rest[Len(items)] = base - k /\ k <= base
  <2>1. 1 \in 0..l /\ l \in 1..l
    BY <1>1
  <2>2. acks[1] <= acks[l]
    BY <1>3, <2>1 DEF Ascending
  <2>3. acks[l] = base
    BY DEF l
  <2> QED BY <1>1, <1>4, <1>6, <2>2, <2>3
<1> QED BY <1>8, <1>9 DEF items, replies, Acked

(* The client sends one more request. *)
LEMMA AskAdded ==
  ASSUME NEW u \in Seq(Requests), NEW y, NEW base, Awaits(u, y, base),
         NEW m \in Requests, NEW z, Len(y) \in Nat, Len(z) = Len(y) + Expects(m), Continues(z, y, Len(y)),
         Asked(m, z, Len(z)), base \in Nat
  PROVE  Awaits(Append(u, m), z, base)
<1>. PICK asks : AsksFit(asks, u, y, base)
  BY DEF Awaits
<1> DEFINE n == Len(u)
           more == [i \in 0..(n + 1) |-> IF i = n + 1 THEN asks[n] + Expects(m) ELSE asks[i]]
           longer == Append(u, m)
<1>1. n \in Nat /\ Len(longer) = n + 1 /\ longer[n + 1] = m /\ \A i \in 1..n : longer[i] = u[i]
  BY Appended, Elements
<1>2. /\ more \in [0..(n + 1) -> Nat] /\ Ascending(more, n + 1) /\ more[n + 1] = asks[n] + Expects(m)
      /\ \A i \in 0..n : more[i] = asks[i]
  <2>1. Expects(m) \in Nat
    BY DEF Expects
  <2>2. n \in Nat /\ asks \in [0..n -> Nat] /\ Ascending(asks, n)
    BY <1>1 DEF AsksFit
  <2> HIDE DEF n
  <2> QED BY <2>1, <2>2, NumberAdded
<1> HIDE DEF n, more, longer
<1>3. /\ asks \in [0..n -> Nat] /\ asks[0] = base /\ asks[n] = Len(y) /\ Ascending(asks, n)
      /\ \A i \in 1..n : asks[i] = asks[i - 1] + Expects(u[i]) /\ Asked(u[i], y, asks[i])
  BY DEF AsksFit, n
<1>4. ASSUME NEW i \in 1..(n + 1) PROVE more[i] = more[i - 1] + Expects(longer[i]) /\ Asked(longer[i], z, more[i])
  <2>1. CASE i = n + 1
    BY <1>1, <1>2, <1>3, <2>1
  <2>2. CASE i <= n
    <3>1. i \in 1..n /\ i \in 0..n /\ i - 1 \in 0..n /\ n \in 0..n /\ n \in i..n
      BY <1>1, <2>2
    <3>2. asks[i] <= Len(y) /\ asks[i] \in Nat /\ asks[i - 1] \in Nat
      BY <1>3, <3>1 DEF Ascending
    <3>3. asks[i] = asks[i - 1] + Expects(u[i]) /\ Asked(u[i], y, asks[i])
      BY <1>3, <3>1
    <3>4. u[i].type # "unsubscribe" => asks[i] \in 1..Len(y)
      BY <3>2, <3>3 DEF Expects
    <3>5. Asked(u[i], z, asks[i])
      BY <3>3, <3>4 DEF Asked, Continues
    <3> QED BY <1>1, <1>2, <3>1, <3>3, <3>5
  <2> QED BY <1>1, <2>1, <2>2
<1>5. more[0] = base /\ more[n + 1] = Len(z)
  BY <1>1, <1>2, <1>3
<1>6. AsksFit(more, longer, z, base)
  BY <1>1, <1>2, <1>4, <1>5 DEF AsksFit
<1> QED BY <1>6 DEF longer, Awaits

(* The first request is handled. *)
LEMMA AskDropped ==
  ASSUME NEW u \in Seq(Requests), u # <<>>, NEW y, NEW base \in Nat, Awaits(u, y, base),
         NEW k, k = base + Expects(u[1])
  PROVE  Asked(u[1], y, k) /\ k <= Len(y) /\ Awaits(Tail(u), y, k)
<1>. PICK asks : AsksFit(asks, u, y, base)
  BY DEF Awaits
<1> DEFINE l == Len(u)
           rest == [i \in 0..(l - 1) |-> asks[i + 1] - 0]
           others == Tail(u)
           one == 1
<1>1. l \in Nat /\ l > 0 /\ Len(others) = l - 1 /\ \A i \in 1..(l - 1) : others[i] = u[i + 1]
  BY Shortened, Elements
<1> HIDE DEF l, others
<1>2. /\ asks \in [0..l -> Nat] /\ asks[0] = base /\ asks[l] = Len(y) /\ Ascending(asks, l)
      /\ \A i \in 1..l : asks[i] = asks[i - 1] + Expects(u[i]) /\ Asked(u[i], y, asks[i])
  BY DEF AsksFit, l
<1>3. asks[1] = base + Expects(u[1]) /\ Asked(u[1], y, asks[1]) /\ asks[1] \in Nat /\ asks[1] <= Len(y)
  <2>1. asks[one] = asks[one - 1] + Expects(u[one]) /\ Asked(u[one], y, asks[one])
    <3>1. one \in 1..l
      BY <1>1
    <3> HIDE DEF one
    <3> QED BY <1>2, <3>1
  <2>2. 1 \in 0..l /\ l \in 1..l
    BY <1>1
  <2> QED BY <1>2, <2>1, <2>2 DEF Ascending
<1>4. rest \in [0..(l - 1) -> Nat] /\ Ascending(rest, l - 1) /\ \A i \in 0..(l - 1) : rest[i] = asks[i + 1] - 0
  <2>1. 0 \in Nat /\ 0 <= asks[1]
    BY <1>3
  <2> QED BY <1>1, <1>2, <2>1, NumberDropped
<1> HIDE DEF rest
<1>5. \A i \in 0..(l - 1) : rest[i] = asks[i + 1] /\ i + 1 \in 0..l
  BY <1>1, <1>2, <1>4
<1>6. rest[0] = base + Expects(u[1]) /\ rest[l - 1] = Len(y)
  BY <1>1, <1>2, <1>3, <1>5
<1>7. ASSUME NEW i \in 1..(l - 1) PROVE rest[i] = rest[i - 1] + Expects(others[i]) /\ Asked(others[i], y, rest[i])
  <2>1. i \in 0..(l - 1) /\ i - 1 \in 0..(l - 1) /\ i + 1 \in 1..l /\ i + 1 - 1 = i /\ i - 1 + 1 = i
    BY <1>1
  <2>2. asks[i + 1] = asks[i] + Expects(u[i + 1]) /\ Asked(u[i + 1], y, asks[i + 1])
    BY <1>2, <2>1
  <2> QED BY <1>1, <1>5, <2>1, <2>2
<1>8. AsksFit(rest, others, y, base + Expects(u[1]))
  BY <1>1, <1>4, <1>6, <1>7 DEF AsksFit
<1> QED BY <1>3, <1>8 DEF others, Awaits

(* The client no longer awaits what has been acknowledged. *)
LEMMA AsksShifted ==
  ASSUME NEW u \in Seq(Requests), NEW y, NEW base \in Nat, Awaits(u, y, base),
         NEW k \in Nat, k <= base, NEW z, Len(y) \in Nat, Len(z) = Len(y) - k, Without(z, y, Len(y), k)
  PROVE  Awaits(u, z, base - k)
<1>. PICK asks : AsksFit(asks, u, y, base)
  BY DEF Awaits
<1> DEFINE l == Len(u)
           less == [i \in 0..l |-> asks[i] - k]
<1>1. l \in Nat
  BY Elements
<1>2. /\ asks \in [0..l -> Nat] /\ asks[0] = base /\ asks[l] = Len(y) /\ Ascending(asks, l)
      /\ \A i \in 1..l : asks[i] = asks[i - 1] + Expects(u[i]) /\ Asked(u[i], y, asks[i])
  BY DEF AsksFit
<1> HIDE DEF l
<1>3. \A i \in 0..l : asks[i] \in Nat /\ k <= asks[i] /\ asks[i] <= Len(y)
  <2> SUFFICES ASSUME NEW i \in 0..l PROVE asks[i] \in Nat /\ k <= asks[i] /\ asks[i] <= Len(y)
    OBVIOUS
  <2>1. 0 \in 0..l /\ i \in 0..l /\ l \in i..l
    BY <1>1
  <2>2. asks[0] <= asks[i] /\ asks[i] <= asks[l] /\ asks[i] \in Nat
    BY <1>2, <2>1 DEF Ascending
  <2> QED BY <1>2, <2>2
<1>4. less \in [0..l -> Nat] /\ \A i \in 0..l : less[i] = asks[i] - k
  BY <1>3
<1> HIDE DEF less
<1>5. ASSUME NEW i \in 0..l, NEW j \in i..l PROVE less[i] <= less[j]
  <2>1. asks[i] <= asks[j] /\ j \in 0..l
    BY <1>1, <1>2 DEF Ascending
  <2>2. less[i] = asks[i] - k /\ less[j] = asks[j] - k /\ asks[i] \in Nat /\ asks[j] \in Nat
    BY <1>3, <1>4, <2>1
  <2> QED BY <2>1, <2>2
<1>6. less[0] = base - k /\ less[l] = Len(z)
  <2>1. 0 \in 0..l /\ l \in 0..l
    BY <1>1
  <2> QED BY <1>2, <1>4, <2>1
<1>7. ASSUME NEW i \in 1..l PROVE less[i] = less[i - 1] + Expects(u[i]) /\ Asked(u[i], z, less[i])
  <2>1. i \in 0..l /\ i - 1 \in 0..l
    BY <1>1
  <2>2. /\ asks[i] = asks[i - 1] + Expects(u[i]) /\ Asked(u[i], y, asks[i])
        /\ less[i] = asks[i] - k /\ less[i - 1] = asks[i - 1] - k
        /\ asks[i] \in Nat /\ asks[i - 1] \in Nat /\ k <= asks[i - 1] /\ asks[i] <= Len(y)
    BY <1>2, <1>3, <1>4, <2>1
  <2>3. Expects(u[i]) \in {0, 1}
    BY DEF Expects
  <2>4. u[i].type # "unsubscribe" => z[less[i]] = y[asks[i]]
    <3> SUFFICES ASSUME u[i].type # "unsubscribe" PROVE z[less[i]] = y[asks[i]]
      OBVIOUS
    <3>1. asks[i] = asks[i - 1] + 1
      BY <2>2 DEF Expects
    <3>2. less[i] \in 1..Len(z) /\ less[i] + k = asks[i]
      BY <2>2, <3>1
    <3> QED BY <3>2 DEF Without
  <2> QED BY <2>2, <2>3, <2>4 DEF Asked
<1>8. AsksFit(less, u, z, base - k)
  BY <1>4, <1>5, <1>6, <1>7 DEF AsksFit, Ascending, l
<1> QED BY <1>8 DEF Awaits

(* The top thread sends the client another's message. *)
LEMMA PairedForward ==
  ASSUME NEW d \in Seq(Replies), NEW u \in Seq(Requests), NEW y \in Seq(Whats), NEW E \in Seq(Items),
         Paired(d, u, y, E), NEW e \in Items, NEW reply \in Replies,
         e.type = "forward", reply.type = "publish", reply.id = e.id
  PROVE  Paired(Append(d, reply), u, y, Append(E, e))
<1>1. PICK n \in Nat : n <= Len(y) /\ Acked(d, y, E, n) /\ Awaits(u, y, n)
  BY DEF Paired
<1>2. Len(d) = Len(E)
  BY DEF Paired
<1>3. n = n + Acks(e) /\ Answered(e, reply, y, n)
  BY DEF Acks, Answered
<1>4. Acked(Append(d, reply), y, Append(E, e), n)
  BY <1>1, <1>2, <1>3, AckAdded
<1>5. Len(Append(d, reply)) = Len(Append(E, e))
  BY <1>2, Appended
<1> QED BY <1>1, <1>4, <1>5 DEF Paired

\* what the acknowledgement of the client's oldest request adds to what is on its way
Handled(d, u, y, E, reply) ==
  \E e \in Whats :
    /\ Paired(Append(d, reply), Tail(u), y, Append(E, e))
    /\ u[1].type = "publish" => e = u[1]
    /\ u[1].type # "publish" => e.type = "subscribe" /\ e.by = u[1].by

(* The top thread acknowledges the client's oldest request. *)
LEMMA PairedHandle ==
  ASSUME NEW d \in Seq(Replies), NEW u \in Seq(Requests), NEW y \in Seq(Whats), NEW E \in Seq(Items),
         Paired(d, u, y, E), u # <<>>, u[1].type # "unsubscribe", NEW reply \in Replies, reply.type = "ack"
  PROVE  Handled(d, u, y, E, reply)
<1>1. PICK n \in Nat : n <= Len(y) /\ Acked(d, y, E, n) /\ Awaits(u, y, n)
  BY DEF Paired
<1>2. Len(d) = Len(E)
  BY DEF Paired
<1> DEFINE k == n + 1
           e == y[k]
<1> HIDE DEF k
<1>3. k = n + Expects(u[1])
  BY DEF Expects, k
<1>4. Asked(u[1], y, k) /\ k <= Len(y) /\ Awaits(Tail(u), y, k)
  BY <1>1, <1>3, AskDropped
<1>5. e \in Whats
  <2>1. k \in 1..Len(y)
    BY <1>4, Elements DEF k
  <2> QED BY <2>1, Elements
<1>6. e \in Items /\ e.type # "forward"
  BY <1>5 DEF Items, Whats
<1>7. k = n + Acks(e) /\ Answered(e, reply, y, k)
  BY <1>6 DEF Acks, Answered, k
<1> HIDE DEF e
<1>8. Acked(Append(d, reply), y, Append(E, e), k)
  BY <1>1, <1>2, <1>6, <1>7, AckAdded
<1>9. Len(Append(d, reply)) = Len(Append(E, e))
  BY <1>2, <1>6, Appended
<1>10. k \in Nat
  BY DEF k
<1>11. Paired(Append(d, reply), Tail(u), y, Append(E, e))
  BY <1>4, <1>8, <1>9, <1>10 DEF Paired
<1>12. /\ u[1].type = "publish" => e = u[1]
       /\ u[1].type # "publish" => e.type = "subscribe" /\ e.by = u[1].by
  BY <1>4 DEF Asked, e
<1> QED BY <1>5, <1>11, <1>12 DEF Handled

(* The top thread handles that the last subscription of the client has ended, *)
(* and sends nothing.                                                         *)
LEMMA PairedEnd ==
  ASSUME NEW d \in Seq(Replies), NEW u \in Seq(Requests), NEW y \in Seq(Whats), NEW E \in Seq(Items),
         Paired(d, u, y, E), u # <<>>, u[1].type = "unsubscribe"
  PROVE  Paired(d, Tail(u), y, E)
<1>1. PICK n \in Nat : n <= Len(y) /\ Acked(d, y, E, n) /\ Awaits(u, y, n)
  BY DEF Paired
<1>2. n = n + Expects(u[1])
  BY DEF Expects
<1>3. Awaits(Tail(u), y, n)
  BY <1>1, <1>2, AskDropped
<1> QED BY <1>1, <1>3 DEF Paired

(* The client sends a request that is acknowledged, or one that is not. *)
LEMMA PairedSend ==
  ASSUME NEW d \in Seq(Replies), NEW u \in Seq(Requests), NEW y \in Seq(Whats), NEW E \in Seq(Items),
         Paired(d, u, y, E), NEW m \in Requests, NEW w \in Whats, m.type # "unsubscribe",
         IF m.type = "publish" THEN w = m ELSE w.type = "subscribe" /\ w.by = m.by
  PROVE  Paired(d, Append(u, m), Append(y, w), E)
<1>1. PICK n \in Nat : n <= Len(y) /\ Acked(d, y, E, n) /\ Awaits(u, y, n)
  BY DEF Paired
<1> DEFINE z == Append(y, w)
<1>2. Len(z) = Len(y) + 1 /\ z[Len(y) + 1] = w /\ Continues(z, y, Len(y)) /\ Len(y) \in Nat
  <2>1. \A i \in 1..Len(y) : z[i] = y[i]
    BY Appended
  <2> QED BY <2>1, Appended, Elements DEF Continues
<1> HIDE DEF z
<1>3. Asked(m, z, Len(z)) /\ Len(z) = Len(y) + Expects(m)
  BY <1>2 DEF Asked, Expects
<1>4. Awaits(Append(u, m), z, n)
  BY <1>1, <1>2, <1>3, AskAdded
<1>5. Acked(d, z, E, n)
  BY <1>1, <1>2, AcksOfMore
<1>6. Len(d) = Len(E) /\ n <= Len(z)
  BY <1>1, <1>2 DEF Paired
<1>7. Paired(d, Append(u, m), z, E)
  BY <1>4, <1>5, <1>6 DEF Paired
<1> QED BY <1>7 DEF z

(* The client tells the top thread so, and awaits nothing. *)
LEMMA PairedSendEnd ==
  ASSUME NEW d \in Seq(Replies), NEW u \in Seq(Requests), NEW y \in Seq(Whats), NEW E \in Seq(Items),
         Paired(d, u, y, E), NEW m \in Requests, m.type = "unsubscribe"
  PROVE  Paired(d, Append(u, m), y, E)
<1>1. PICK n \in Nat : n <= Len(y) /\ Acked(d, y, E, n) /\ Awaits(u, y, n)
  BY DEF Paired
<1>2. Len(y) \in Nat /\ Len(y) = Len(y) + Expects(m) /\ Asked(m, y, Len(y)) /\ Continues(y, y, Len(y))
  BY Elements DEF Expects, Asked, Continues
<1>3. Awaits(Append(u, m), y, n)
  BY <1>1, <1>2, AskAdded
<1> QED BY <1>1, <1>3 DEF Paired

(* The client hears what was sent first: another's message, *)
LEMMA PairedHear ==
  ASSUME NEW d \in Seq(Replies), NEW u \in Seq(Requests), NEW y \in Seq(Whats), NEW E \in Seq(Items),
         Paired(d, u, y, E), d # <<>>, d[1].type = "publish"
  PROVE  /\ E # <<>> /\ E[1].type = "forward" /\ E[1].id = d[1].id
         /\ Paired(Tail(d), u, y, Tail(E))
<1>1. PICK n \in Nat : n <= Len(y) /\ Acked(d, y, E, n) /\ Awaits(u, y, n)
  BY DEF Paired
<1>2. Len(d) = Len(E) /\ Len(d) > 0 /\ Len(d) \in Nat /\ E # <<>> /\ Len(y) \in Nat
  <2>1. Len(d) > 0 /\ Len(d) \in Nat /\ Len(y) \in Nat
    BY Elements
  <2>2. Len(d) = Len(E)
    BY DEF Paired
  <2> QED BY <2>1, <2>2, Elements
<1>3. E[1].type = "forward" /\ E[1].id = d[1].id
  BY <1>1, <1>2 DEF Acked, AcksFit, Answered
<1>4. 0 = Acks(E[1]) /\ Without(y, y, Len(y), 0)
  BY <1>2, <1>3 DEF Acks, Without
<1>5. Acked(Tail(d), y, Tail(E), n - 0)
  BY <1>1, <1>2, <1>4, AckDropped
<1>6. Acked(Tail(d), y, Tail(E), n)
  BY <1>5
<1>7. Len(Tail(d)) = Len(Tail(E))
  BY <1>2, Shortened
<1> QED BY <1>1, <1>2, <1>3, <1>6, <1>7 DEF Paired

(* or the acknowledgement of its oldest request that has none. *)
LEMMA PairedAck ==
  ASSUME NEW d \in Seq(Replies), NEW u \in Seq(Requests), NEW y \in Seq(Whats), NEW E \in Seq(Items),
         Paired(d, u, y, E), d # <<>>, d[1].type = "ack"
  PROVE  /\ E # <<>> /\ y # <<>> /\ E[1] = y[1]
         /\ Paired(Tail(d), u, Tail(y), Tail(E))
<1>1. PICK n \in Nat : n <= Len(y) /\ Acked(d, y, E, n) /\ Awaits(u, y, n)
  BY DEF Paired
<1>2. Len(d) = Len(E) /\ Len(d) > 0 /\ Len(d) \in Nat /\ E # <<>> /\ Len(y) \in Nat
  <2>1. Len(d) > 0 /\ Len(d) \in Nat /\ Len(y) \in Nat
    BY Elements
  <2>2. Len(d) = Len(E)
    BY DEF Paired
  <2> QED BY <2>1, <2>2, Elements
<1> DEFINE one == 1
<1>3. PICK acks : AcksFit(acks, d, y, E) /\ acks[Len(E)] = n
  BY <1>1 DEF Acked
<1>4. acks[one] = acks[one - 1] + Acks(E[one]) /\ Answered(E[one], d[one], y, acks[one]) /\ acks[0] = 0
  <2>1. one \in 1..Len(E)
    BY <1>2
  <2> HIDE DEF one
  <2> QED BY <1>3, <2>1 DEF AcksFit
<1>5. 1 = Acks(E[1]) /\ E[1] = y[1]
  BY <1>4 DEF Answered, Acks
<1> DEFINE z == Tail(y)
<1>6. y # <<>> /\ Len(z) = Len(y) - 1 /\ Without(z, y, Len(y), 1) /\ 1 <= n
  <2>1. 1 \in 0..Len(E) /\ Len(E) \in 1..Len(E) /\ acks[1] = 1
    BY <1>2, <1>4, <1>5
  <2>2. 1 <= n
    BY <1>3, <2>1 DEF AcksFit, Ascending
  <2>3. y # <<>>
    BY <1>1, <1>2, <2>2, Elements
  <2>4. Len(z) = Len(y) - 1 /\ \A i \in 1..(Len(y) - 1) : z[i] = y[i + 1]
    BY <2>3, Shortened
  <2> QED BY <2>2, <2>3, <2>4 DEF Without
<1> HIDE DEF z, one
<1>7. Acked(Tail(d), z, Tail(E), n - 1)
  BY <1>1, <1>2, <1>5, <1>6, AckDropped
<1>8. Awaits(u, z, n - 1)
  BY <1>1, <1>2, <1>6, AsksShifted
<1>9. Len(Tail(d)) = Len(Tail(E)) /\ n - 1 \in Nat /\ n - 1 <= Len(z)
  <2>1. Len(Tail(d)) = Len(Tail(E))
    BY <1>2, Shortened
  <2> QED BY <1>1, <1>2, <1>6, <2>1
<1>10. Paired(Tail(d), u, z, Tail(E))
  BY <1>7, <1>8, <1>9 DEF Paired
<1> QED BY <1>2, <1>5, <1>6, <1>10 DEF z
-----------------------------------------------------------------------------
(***************************************************************************)
(* The client's listeners have heard of the first stamp[0] messages of the *)
(* log, and will have heard of the first stamp[i] when the client has      *)
(* taken the i-th item; items before the first one that counts are from an *)
(* earlier subscription, and find no listener.                             *)
(***************************************************************************)
Step(e, before, after, messages, own) ==
  IF e.type = "subscribe" THEN after = before
  ELSE /\ after = before + 1 /\ messages[after].id = e.id
       /\ IF e.type = "forward" THEN messages[after].by \notin own ELSE messages[after].by = e.by

Timed(stamp, first, E, messages, own) ==
  /\ first \in 0..Len(E) /\ stamp \in [0..Len(E) -> Nat] /\ stamp[Len(E)] = Len(messages)
  /\ \A i \in first..Len(E) : stamp[i] <= Len(messages)
  /\ \A i \in (first + 1)..Len(E) : Step(E[i], stamp[i - 1], stamp[i], messages, own)

Begun(stamp, first, E, begin) ==
  \A i \in 1..Len(E) : E[i].type = "subscribe" => first <= i /\ begin[E[i].by] = stamp[i]

HasHeard(s, messages, begin, told, n) == begin[s] <= n /\ told[s] = Pub!Telling(messages, begin[s], s)[n]

FollowsAt(stamp, first, E, messages, mem, begin, told, own) ==
  /\ Timed(stamp, first, E, messages, own) /\ Begun(stamp, first, E, begin)
  /\ mem # {} => first = 0
  /\ \A s \in mem : HasHeard(s, messages, begin, told, stamp[0])

Follows(E, messages, mem, begin, told, own) ==
  \E stamp, first : FollowsAt(stamp, first, E, messages, mem, begin, told, own)

Begins == [Subscribers -> Nat]

(* One more message that the top thread handles. *)
LEMMA FollowsMessage ==
  ASSUME NEW E \in Seq(Items), NEW messages \in Seq(Spoken), NEW mem \in SUBSET Subscribers,
         NEW begin \in Begins, NEW told, NEW own, Follows(E, messages, mem, begin, told, own),
         NEW e \in Items, e.type # "subscribe", NEW m \in Spoken, m.id = e.id,
         IF e.type = "forward" THEN m.by \notin own ELSE m.by = e.by
  PROVE  Follows(Append(E, e), Append(messages, m), mem, begin, told, own)
<1> DEFINE n == Len(E)
           l == Len(messages)
           items == Append(E, e)
           longer == Append(messages, m)
<1>1. PICK stamp, first : FollowsAt(stamp, first, E, messages, mem, begin, told, own)
  BY DEF Follows
<1> DEFINE more == [i \in 0..(n + 1) |-> IF i = n + 1 THEN l + 1 ELSE stamp[i]]
<1>2. /\ n \in Nat /\ Len(items) = n + 1 /\ items[n + 1] = e /\ \A i \in 1..n : items[i] = E[i]
      /\ l \in Nat /\ Len(longer) = l + 1 /\ longer[l + 1] = m /\ \A i \in 1..l : longer[i] = messages[i]
  BY Appended, Elements
<1>3. /\ first \in 0..n /\ stamp \in [0..n -> Nat] /\ stamp[n] = l
      /\ \A i \in first..n : stamp[i] <= l
      /\ \A i \in (first + 1)..n : Step(E[i], stamp[i - 1], stamp[i], messages, own)
      /\ mem # {} => first = 0
  BY <1>1 DEF FollowsAt, Timed
<1>4. \A s \in mem : HasHeard(s, longer, begin, told, stamp[0])
  <2> SUFFICES ASSUME NEW s \in mem PROVE HasHeard(s, longer, begin, told, stamp[0])
    OBVIOUS
  <2>1. HasHeard(s, messages, begin, told, stamp[0]) /\ stamp[0] \in 0..l /\ begin[s] \in Nat
    BY <1>1, <1>2, <1>3 DEF FollowsAt, Begins
  <2>2. Pub!Telling(longer, begin[s], s)[stamp[0]] = Pub!Telling(messages, begin[s], s)[stamp[0]]
    BY <2>1, TellingAgrees
  <2> QED BY <2>1, <2>2 DEF HasHeard
<1>5. \A i \in 1..n : E[i].type = "subscribe" => first <= i /\ begin[E[i].by] = stamp[i]
  BY <1>1 DEF FollowsAt, Begun
<1> HIDE DEF n, l, items, longer
<1>6. /\ more \in [0..(n + 1) -> Nat] /\ more[n + 1] = l + 1 /\ \A i \in 0..n : more[i] = stamp[i]
  BY <1>2, <1>3
<1> HIDE DEF more
<1>7. first \in 0..(n + 1) /\ more[0] = stamp[0] /\ 0 \in 0..n
  BY <1>2, <1>3, <1>6
<1>8. \A i \in first..(n + 1) : more[i] <= l + 1
  <2> SUFFICES ASSUME NEW i \in first..(n + 1) PROVE more[i] <= l + 1
    OBVIOUS
  <2>1. CASE i = n + 1
    BY <1>2, <1>6, <2>1
  <2>2. CASE i <= n
    <3>1. i \in first..n /\ i \in 0..n
      BY <1>2, <1>3, <2>2
    <3>2. stamp[i] <= l /\ stamp[i] \in Nat /\ more[i] = stamp[i]
      BY <1>3, <1>6, <3>1
    <3> QED BY <1>2, <3>2
  <2> QED BY <1>2, <1>3, <2>1, <2>2
<1>9. ASSUME NEW i \in (first + 1)..(n + 1) PROVE Step(items[i], more[i - 1], more[i], longer, own)
  <2>1. CASE i = n + 1
    <3>1. items[i] = e /\ more[i - 1] = l /\ more[i] = l + 1 /\ longer[l + 1] = m
      BY <1>2, <1>3, <1>6, <2>1
    <3> QED BY <3>1 DEF Step
  <2>2. CASE i <= n
    <3>1. i \in (first + 1)..n /\ i \in 1..n /\ i \in 0..n /\ i - 1 \in 0..n /\ i \in first..n
      <4>1. first \in 0..n /\ n \in Nat
        BY <1>2, <1>3
      <4>2. first <= i /\ 1 <= i /\ i <= n /\ i \in Int
        BY <2>2, <4>1
      <4> QED BY <4>1, <4>2
    <3>2. /\ items[i] = E[i] /\ more[i] = stamp[i] /\ more[i - 1] = stamp[i - 1]
          /\ Step(E[i], stamp[i - 1], stamp[i], messages, own)
          /\ stamp[i] <= l /\ stamp[i] \in Nat /\ stamp[i - 1] \in Nat
      BY <1>2, <1>3, <1>6, <3>1
    <3>3. E[i].type # "subscribe" => longer[stamp[i]] = messages[stamp[i]]
      <4>1. E[i].type # "subscribe" => stamp[i] \in 1..l
        BY <1>2, <3>2 DEF Step
      <4> QED BY <1>2, <4>1
    <3> QED BY <3>2, <3>3 DEF Step
  <2> QED BY <1>2, <1>3, <2>1, <2>2
<1>10. ASSUME NEW i \in 1..(n + 1), items[i].type = "subscribe" PROVE first <= i /\ begin[items[i].by] = more[i]
  <2>1. i # n + 1
    BY <1>2, <1>10
  <2>2. i \in 1..n /\ i \in 0..n
    BY <1>2, <2>1
  <2>3. items[i] = E[i] /\ more[i] = stamp[i]
    BY <1>2, <1>6, <2>2
  <2> QED BY <1>5, <1>10, <2>2, <2>3
<1>11. Timed(more, first, items, longer, own)
  BY <1>2, <1>6, <1>7, <1>8, <1>9 DEF Timed
<1>12. Begun(more, first, items, begin)
  BY <1>2, <1>10 DEF Begun
<1>13. FollowsAt(more, first, items, longer, mem, begin, told, own)
  BY <1>3, <1>4, <1>7, <1>11, <1>12 DEF FollowsAt
<1> QED BY <1>13 DEF Follows, items, longer

(* One more subscription that it acknowledges. *)
LEMMA FollowsSubscription ==
  ASSUME NEW E \in Seq(Items), NEW messages \in Seq(Spoken), NEW mem \in SUBSET Subscribers,
         NEW begin \in Begins, NEW told, NEW own, Follows(E, messages, mem, begin, told, own),
         NEW e \in Items, e.type = "subscribe", e.by \notin mem,
         \A i \in 1..Len(E) : E[i].type = "subscribe" => E[i].by # e.by /\ E[i].by \in Subscribers,
         NEW later, later[e.by] = Len(messages), \A s \in Subscribers \ {e.by} : later[s] = begin[s]
  PROVE  Follows(Append(E, e), messages, mem, later, told, own)
<1> DEFINE n == Len(E)
           l == Len(messages)
           items == Append(E, e)
<1>1. PICK stamp, first : FollowsAt(stamp, first, E, messages, mem, begin, told, own)
  BY DEF Follows
<1> DEFINE more == [i \in 0..(n + 1) |-> IF i = n + 1 THEN l ELSE stamp[i]]
<1>2. /\ n \in Nat /\ Len(items) = n + 1 /\ items[n + 1] = e /\ \A i \in 1..n : items[i] = E[i]
      /\ l \in Nat
  BY Appended, Elements
<1>3. /\ first \in 0..n /\ stamp \in [0..n -> Nat] /\ stamp[n] = l
      /\ \A i \in first..n : stamp[i] <= l
      /\ \A i \in (first + 1)..n : Step(E[i], stamp[i - 1], stamp[i], messages, own)
      /\ mem # {} => first = 0
  BY <1>1 DEF FollowsAt, Timed
<1>4. \A s \in mem : HasHeard(s, messages, later, told, stamp[0])
  BY <1>1 DEF FollowsAt, HasHeard
<1>5. \A i \in 1..n : E[i].type = "subscribe" => first <= i /\ later[E[i].by] = stamp[i]
  BY <1>1 DEF FollowsAt, Begun
<1>6. later[e.by] = l
  OBVIOUS
<1> HIDE DEF n, l, items
<1>7. /\ more \in [0..(n + 1) -> Nat] /\ more[n + 1] = l /\ \A i \in 0..n : more[i] = stamp[i]
  BY <1>2, <1>3
<1> HIDE DEF more
<1>8. first \in 0..(n + 1) /\ more[0] = stamp[0] /\ 0 \in 0..n
  BY <1>2, <1>3, <1>7
<1>9. \A i \in first..(n + 1) : more[i] <= l
  <2> SUFFICES ASSUME NEW i \in first..(n + 1) PROVE more[i] <= l
    OBVIOUS
  <2>1. CASE i = n + 1
    BY <1>2, <1>7, <2>1
  <2>2. CASE i <= n
    <3>1. i \in first..n /\ i \in 0..n
      BY <1>2, <1>3, <2>2
    <3> QED BY <1>3, <1>7, <3>1
  <2> QED BY <1>2, <1>3, <2>1, <2>2
<1>10. ASSUME NEW i \in (first + 1)..(n + 1) PROVE Step(items[i], more[i - 1], more[i], messages, own)
  <2>1. CASE i = n + 1
    <3>1. items[i] = e /\ more[i - 1] = l /\ more[i] = l
      BY <1>2, <1>3, <1>7, <2>1
    <3> QED BY <3>1 DEF Step
  <2>2. CASE i <= n
    <3>1. i \in (first + 1)..n /\ i \in 1..n /\ i \in 0..n /\ i - 1 \in 0..n
      BY <1>2, <1>3, <2>2
    <3>2. items[i] = E[i] /\ more[i] = stamp[i] /\ more[i - 1] = stamp[i - 1]
      BY <1>2, <1>7, <3>1
    <3> QED BY <1>3, <3>1, <3>2
  <2> QED BY <1>2, <1>3, <2>1, <2>2
<1>11. ASSUME NEW i \in 1..(n + 1), items[i].type = "subscribe" PROVE first <= i /\ later[items[i].by] = more[i]
  <2>1. CASE i = n + 1
    BY <1>2, <1>3, <1>6, <1>7, <2>1
  <2>2. CASE i # n + 1
    <3>1. i \in 1..n /\ i \in 0..n
      BY <1>2, <2>2
    <3>2. items[i] = E[i] /\ more[i] = stamp[i]
      BY <1>2, <1>7, <3>1
    <3> QED BY <1>5, <1>11, <3>1, <3>2
  <2> QED BY <2>1, <2>2
<1>12. Timed(more, first, items, messages, own)
  BY <1>2, <1>7, <1>8, <1>9, <1>10 DEF Timed, l
<1>13. Begun(more, first, items, later)
  BY <1>2, <1>11 DEF Begun
<1>14. FollowsAt(more, first, items, messages, mem, later, told, own)
  BY <1>3, <1>4, <1>8, <1>12, <1>13 DEF FollowsAt
<1> QED BY <1>14 DEF Follows, items
(* The first one that it acknowledges, of a client without listeners. *)
LEMMA FollowsFirst ==
  ASSUME NEW E \in Seq(Items), NEW messages \in Seq(Spoken), NEW told, NEW own,
         NEW e \in Items, e.type = "subscribe", \A i \in 1..Len(E) : E[i].type # "subscribe",
         NEW later, later[e.by] = Len(messages)
  PROVE  Follows(Append(E, e), messages, {}, later, told, own)
<1> DEFINE n == Len(E)
           l == Len(messages)
           items == Append(E, e)
           stamp == [i \in 0..(n + 1) |-> l]
<1>1. /\ n \in Nat /\ Len(items) = n + 1 /\ items[n + 1] = e /\ \A i \in 1..n : items[i] = E[i]
      /\ l \in Nat
  BY Appended, Elements
<1>2. later[e.by] = l /\ \A i \in 1..n : E[i].type # "subscribe"
  OBVIOUS
<1> HIDE DEF n, items
<1>3. Timed(stamp, n + 1, items, messages, own)
  BY <1>1 DEF Timed
<1>4. ASSUME NEW i \in 1..(n + 1), items[i].type = "subscribe" PROVE n + 1 <= i /\ later[items[i].by] = stamp[i]
  <2>1. i = n + 1
    BY <1>1, <1>2, <1>4
  <2> QED BY <1>1, <1>2, <2>1
<1>5. Begun(stamp, n + 1, items, later)
  <2> HIDE DEF stamp
  <2> QED BY <1>1, <1>4 DEF Begun
<1>6. FollowsAt(stamp, n + 1, items, messages, {}, later, told, own)
  <2> HIDE DEF stamp
  <2> QED BY <1>3, <1>5 DEF FollowsAt
<1> QED BY <1>6 DEF Follows, items

(* The client takes the first item: what its listeners have heard is with  *)
(* the next stamp.                                                         *)
LEMMA FollowsRest ==
  ASSUME NEW E \in Seq(Items), NEW messages \in Seq(Spoken), NEW begin, NEW own, E # <<>>,
         NEW stamp, NEW first, Timed(stamp, first, E, messages, own), Begun(stamp, first, E, begin)
  PROVE  \E rest : /\ Timed(rest, IF first = 0 THEN 0 ELSE first - 1, Tail(E), messages, own)
                   /\ Begun(rest, IF first = 0 THEN 0 ELSE first - 1, Tail(E), begin)
                   /\ rest[0] = stamp[1]
<1> DEFINE n == Len(E)
           l == Len(messages)
           items == Tail(E)
           rest == [i \in 0..(n - 1) |-> stamp[i + 1]]
           start == IF first = 0 THEN 0 ELSE first - 1
<1>1. n \in Nat /\ n > 0 /\ Len(items) = n - 1 /\ l \in Nat /\ \A i \in 1..(n - 1) : items[i] = E[i + 1]
  BY Shortened, Elements
<1>2. /\ first \in 0..n /\ stamp \in [0..n -> Nat] /\ stamp[n] = l
      /\ \A i \in first..n : stamp[i] <= l
      /\ \A i \in (first + 1)..n : Step(E[i], stamp[i - 1], stamp[i], messages, own)
  BY DEF Timed
<1>3. \A i \in 1..n : E[i].type = "subscribe" => first <= i /\ begin[E[i].by] = stamp[i]
  BY DEF Begun
<1> HIDE DEF n, l, items
<1>4. rest \in [0..(n - 1) -> Nat] /\ \A i \in 0..(n - 1) : rest[i] = stamp[i + 1]
  BY <1>1, <1>2
<1>5. start \in 0..(n - 1) /\ start + 1 >= first /\ start <= first
  BY <1>1, <1>2
<1> HIDE DEF rest
<1>6. rest[0] = stamp[1] /\ rest[n - 1] = l
  <2>1. 0 \in 0..(n - 1) /\ n - 1 \in 0..(n - 1) /\ n - 1 + 1 = n
    BY <1>1
  <2> QED BY <1>2, <1>4, <2>1
<1>7. ASSUME NEW i \in start..(n - 1) PROVE rest[i] <= l
  <2>1. i \in 0..(n - 1) /\ i + 1 \in first..n
    BY <1>1, <1>2, <1>5
  <2> QED BY <1>2, <1>4, <2>1
<1>8. ASSUME NEW i \in (start + 1)..(n - 1) PROVE Step(items[i], rest[i - 1], rest[i], messages, own)
  <2>1. i \in 1..(n - 1) /\ i \in 0..(n - 1) /\ i - 1 \in 0..(n - 1) /\ i + 1 \in (first + 1)..n /\ i - 1 + 1 = i /\ i + 1 - 1 = i
    <3> HIDE DEF start
    <3>1. first \in Nat /\ start \in Nat /\ i \in Int
      BY <1>1, <1>2, <1>5
    <3> QED BY <1>1, <1>2, <1>5, <3>1
  <2>2. items[i] = E[i + 1] /\ rest[i] = stamp[i + 1] /\ rest[i - 1] = stamp[i]
    BY <1>1, <1>4, <2>1
  <2>3. Step(E[i + 1], stamp[i + 1 - 1], stamp[i + 1], messages, own)
    BY <1>2, <2>1
  <2> QED BY <2>1, <2>2, <2>3
<1>9. ASSUME NEW i \in 1..(n - 1), items[i].type = "subscribe" PROVE start <= i /\ begin[items[i].by] = rest[i]
  <2>1. i + 1 \in 1..n /\ i \in 0..(n - 1)
    BY <1>1
  <2>2. items[i] = E[i + 1] /\ rest[i] = stamp[i + 1]
    BY <1>1, <1>4, <2>1
  <2>3. first <= i + 1 /\ begin[E[i + 1].by] = stamp[i + 1]
    BY <1>3, <1>9, <2>1, <2>2
  <2> QED BY <1>1, <1>2, <2>1, <2>2, <2>3
<1> HIDE DEF start
<1>10. Timed(rest, start, items, messages, own)
  BY <1>1, <1>4, <1>5, <1>6, <1>7, <1>8 DEF Timed, l
<1>11. Begun(rest, start, items, begin)
  BY <1>1, <1>9 DEF Begun
<1> QED BY <1>6, <1>10, <1>11 DEF start, items

(* It is a message: its listeners hear it, but for the one that published it. *)
LEMMA FollowsHearing ==
  ASSUME NEW E \in Seq(Items), NEW messages \in Seq(Spoken), NEW own, NEW mem \in SUBSET Subscribers, mem \subseteq own,
         NEW begin \in Begins, NEW told, Follows(E, messages, mem, begin, told, own), E # <<>>,
         E[1].type # "subscribe", NEW heart,
         \A s \in mem : heart[s] = IF E[1].type = "publish" /\ s = E[1].by THEN told[s] ELSE Append(told[s], E[1].id)
  PROVE  Follows(Tail(E), messages, mem, begin, heart, own)
<1>1. PICK stamp, first : FollowsAt(stamp, first, E, messages, mem, begin, told, own)
  BY DEF Follows
<1>2. PICK rest : /\ Timed(rest, IF first = 0 THEN 0 ELSE first - 1, Tail(E), messages, own)
                  /\ Begun(rest, IF first = 0 THEN 0 ELSE first - 1, Tail(E), begin)
                  /\ rest[0] = stamp[1]
  BY <1>1, FollowsRest DEF FollowsAt
<1>3. ASSUME NEW s \in mem PROVE HasHeard(s, messages, begin, heart, rest[0])
  <2> DEFINE one == 1
             from == begin[s]
             t == Pub!Telling(messages, from, s)
  <2>1. first = 0 /\ from <= stamp[0] /\ told[s] = t[stamp[0]] /\ from \in Nat
    BY <1>1 DEF FollowsAt, HasHeard, Begins
  <2>2. Len(E) \in Nat /\ Len(E) > 0 /\ stamp \in [0..Len(E) -> Nat] /\ Len(messages) \in Nat /\ E[1] \in Items
    BY <1>1, Elements DEF FollowsAt, Timed
  <2>3. Step(E[one], stamp[one - 1], stamp[one], messages, own)
    <3>1. one \in (first + 1)..Len(E)
      BY <2>1, <2>2
    <3> HIDE DEF one
    <3> QED BY <1>1, <3>1 DEF FollowsAt, Timed
  <2>4. /\ stamp[1] = stamp[0] + 1 /\ messages[stamp[1]].id = E[1].id
        /\ IF E[1].type = "forward" THEN messages[stamp[1]].by \notin own ELSE messages[stamp[1]].by = E[1].by
    BY <2>3 DEF Step
  <2>5. stamp[0] \in Nat /\ from <= stamp[0]
    BY <2>1, <2>2
  <2> HIDE DEF from
  <2>10. \A n \in Nat : n >= from => t[n + 1] = IF messages[n + 1].by = s THEN t[n] ELSE Append(t[n], messages[n + 1].id)
    BY <2>1, TellingFacts
  <2> HIDE DEF t
  <2>6. t[stamp[0] + 1] = IF messages[stamp[0] + 1].by = s THEN t[stamp[0]]
                          ELSE Append(t[stamp[0]], messages[stamp[0] + 1].id)
    BY <2>5, <2>10
  <2>7. messages[stamp[1]].by = s <=> E[1].type = "publish" /\ s = E[1].by
    <3>1. E[1].type = "forward" \/ E[1].type = "publish"
      BY <2>2 DEF Items, Whats
    <3> QED BY <2>4, <3>1
  <2>8. heart[s] = t[stamp[1]]
    BY <2>1, <2>4, <2>6, <2>7
  <2>9. from <= stamp[1]
    BY <2>1, <2>4, <2>5
  <2> QED BY <1>2, <2>8, <2>9 DEF HasHeard, t, from
<1>4. mem # {} => (IF first = 0 THEN 0 ELSE first - 1) = 0
  BY <1>1 DEF FollowsAt
<1> QED BY <1>2, <1>3, <1>4 DEF Follows, FollowsAt

(* It is an acknowledged subscription: its listener is one of them now. *)
LEMMA FollowsJoining ==
  ASSUME NEW E \in Seq(Items), NEW messages \in Seq(Spoken), NEW own, NEW mem \in SUBSET Subscribers,
         NEW begin \in Begins, NEW told, Follows(E, messages, mem, begin, told, own), E # <<>>,
         E[1].type = "subscribe", E[1].by \in Subscribers, told[E[1].by] = <<>>
  PROVE  Follows(Tail(E), messages, mem \cup {E[1].by}, begin, told, own)
<1>1. PICK stamp, first : FollowsAt(stamp, first, E, messages, mem, begin, told, own)
  BY DEF Follows
<1>2. PICK rest : /\ Timed(rest, IF first = 0 THEN 0 ELSE first - 1, Tail(E), messages, own)
                  /\ Begun(rest, IF first = 0 THEN 0 ELSE first - 1, Tail(E), begin)
                  /\ rest[0] = stamp[1]
  BY <1>1, FollowsRest DEF FollowsAt
<1>3. /\ Len(E) \in Nat /\ Len(E) > 0 /\ stamp \in [0..Len(E) -> Nat] /\ Len(messages) \in Nat
      /\ first \in 0..Len(E)
  BY <1>1, Elements DEF FollowsAt, Timed
<1>4. first <= 1 /\ begin[E[1].by] = stamp[1]
  <2>1. 1 \in 1..Len(E)
    BY <1>3
  <2> QED BY <1>1, <2>1 DEF FollowsAt, Begun
<1>5. ASSUME NEW s \in mem PROVE HasHeard(s, messages, begin, told, rest[0])
  <2> DEFINE one == 1
  <2>1. first = 0 /\ HasHeard(s, messages, begin, told, stamp[0])
    BY <1>1, <1>5 DEF FollowsAt
  <2>2. Step(E[one], stamp[one - 1], stamp[one], messages, own)
    <3>1. one \in (first + 1)..Len(E)
      BY <1>3, <2>1
    <3> HIDE DEF one
    <3> QED BY <1>1, <3>1 DEF FollowsAt, Timed
  <2>3. stamp[1] = stamp[0]
    BY <2>2 DEF Step
  <2> QED BY <1>2, <2>1, <2>3
<1>6. HasHeard(E[1].by, messages, begin, told, rest[0])
  <2> DEFINE from == begin[E[1].by]
             s == E[1].by
             t == Pub!Telling(messages, from, s)
  <2>1. from \in Nat
    BY DEF Begins
  <2> HIDE DEF from, t, s
  <2>2. t[from] = <<>>
    BY <2>1, TellingFacts DEF t
  <2> QED BY <1>2, <1>4, <2>1, <2>2 DEF HasHeard, t, from, s
<1>7. (IF first = 0 THEN 0 ELSE first - 1) = 0
  BY <1>3, <1>4
<1> QED BY <1>2, <1>5, <1>6, <1>7 DEF Follows, FollowsAt

\* what has been recorded of these subscriptions, and of those that are acknowledged, is the same
SameOf(ss, begin, told, later, heart) == \A s \in ss : later[s] = begin[s] /\ heart[s] = told[s]
SameIn(E, begin, later) == \A i \in 1..Len(E) : E[i].type = "subscribe" => later[E[i].by] = begin[E[i].by]

(* Listeners leave, and what the client does not depend on changes. *)
LEMMA FollowsLess ==
  ASSUME NEW E \in Seq(Items), NEW messages, NEW own, NEW mem, NEW begin, NEW told,
         Follows(E, messages, mem, begin, told, own), NEW less \in SUBSET mem, NEW later, NEW heart,
         SameOf(less, begin, told, later, heart), SameIn(E, begin, later)
  PROVE  Follows(E, messages, less, later, heart, own)
<1>1. PICK stamp, first : FollowsAt(stamp, first, E, messages, mem, begin, told, own)
  BY DEF Follows
<1>2. Timed(stamp, first, E, messages, own) /\ (less # {} => first = 0)
  BY <1>1 DEF FollowsAt
<1>3. Begun(stamp, first, E, later)
  BY <1>1 DEF FollowsAt, Begun, SameIn
<1>4. \A s \in less : HasHeard(s, messages, later, heart, stamp[0])
  BY <1>1 DEF FollowsAt, HasHeard, SameOf
<1> QED BY <1>2, <1>3, <1>4 DEF Follows, FollowsAt

(* A listener has heard the beginning of what it is to hear, and all of it *)
(* when nothing is on its way.                                             *)
LEMMA FollowersHear ==
  ASSUME NEW E \in Seq(Items), NEW messages \in Seq(Spoken), NEW own, NEW mem \in SUBSET Subscribers,
         NEW begin \in Begins, NEW told, Follows(E, messages, mem, begin, told, own), NEW s \in mem
  PROVE  /\ Pub!IsPrefix(told[s], Pub!Telling(messages, begin[s], s)[Len(messages)])
         /\ E = <<>> => told[s] = Pub!Telling(messages, begin[s], s)[Len(messages)]
<1>1. PICK stamp, first : FollowsAt(stamp, first, E, messages, mem, begin, told, own)
  BY DEF Follows
<1>2. first = 0 /\ HasHeard(s, messages, begin, told, stamp[0]) /\ begin[s] \in Nat
  BY <1>1 DEF FollowsAt, Begins
<1>3. /\ Len(E) \in Nat /\ stamp \in [0..Len(E) -> Nat] /\ stamp[Len(E)] = Len(messages)
      /\ \A i \in first..Len(E) : stamp[i] <= Len(messages)
      /\ E = <<>> => Len(E) = 0
  BY <1>1, Elements DEF FollowsAt, Timed
<1>4. stamp[0] \in 0..Len(messages)
  BY <1>2, <1>3
<1> DEFINE n == stamp[0]
<1> HIDE DEF n
<1>5. Pub!IsPrefix(Pub!Telling(messages, begin[s], s)[n], Pub!Telling(messages, begin[s], s)[Len(messages)])
  BY <1>2, <1>4, TellingGrows DEF n
<1> QED BY <1>2, <1>3, <1>5 DEF HasHeard, n
-----------------------------------------------------------------------------
(***************************************************************************)
(* The requests of a client and what is acknowledged of them: which of its *)
(* subscriptions are on their way, and when its first and its last one is. *)
(***************************************************************************)
Asks(m) == m.type \in {"subscribe", "syn"}

Shape(E, u, mem, beg) ==
  /\ \A i \in 1..Len(E) : E[i].type = "subscribe" => E[i].by \in beg
  /\ \A i, k \in 1..Len(E) : E[i].type = "subscribe" /\ E[k].type = "subscribe" /\ E[i].by = E[k].by => i = k
  /\ \A j \in 1..Len(u) : Asks(u[j]) =>
       u[j].by \in beg /\ \A i \in 1..Len(E) : E[i].type = "subscribe" => E[i].by # u[j].by
  /\ \A j, k \in 1..Len(u) : Asks(u[j]) /\ Asks(u[k]) /\ u[j].by = u[k].by => j = k
  /\ mem = {} => \A a, b \in beg : a = b
  /\ \A j \in 1..Len(u) : u[j].type \in {"subscribe", "unsubscribe"} => mem = {}
  /\ \A j \in 1..Len(u) : u[j].type = "syn" => mem # {}
  /\ \A j \in 1..Len(u) : u[j].type = "unsubscribe" =>
       /\ \A i \in 1..Len(E) : E[i].type # "subscribe"
       /\ \A k \in 1..j : ~Asks(u[k])

(* A message is sent to the client. *)
LEMMA ShapeForward ==
  ASSUME NEW E \in Seq(Items), NEW u \in Seq(Requests), NEW mem, NEW beg, Shape(E, u, mem, beg),
         NEW e \in Items, e.type # "subscribe"
  PROVE  Shape(Append(E, e), u, mem, beg)
<1> DEFINE items == Append(E, e)
           n == Len(E)
<1>1. /\ n \in Nat /\ Len(items) = n + 1 /\ items[n + 1].type # "subscribe"
      /\ \A i \in 1..n : items[i] = E[i]
  BY Appended, Elements
<1> HIDE DEF items
<1>2. \A i \in 1..Len(items) : items[i].type = "subscribe" => i \in 1..n /\ items[i] = E[i]
  BY <1>1
<1>3. Shape(items, u, mem, beg)
  BY <1>2 DEF Shape
<1> QED BY <1>3 DEF items

(* A request is handled, and acknowledged. *)
LEMMA ShapeHandle ==
  ASSUME NEW E \in Seq(Items), NEW u \in Seq(Requests), NEW mem, NEW beg, Shape(E, u, mem, beg),
         u # <<>>, u[1].type # "unsubscribe", NEW e \in Items,
         IF u[1].type = "publish" THEN e.type = "publish" ELSE e.type = "subscribe" /\ e.by = u[1].by
  PROVE  Shape(Append(E, e), Tail(u), mem, beg)
<1> DEFINE items == Append(E, e)
           n == Len(E)
           l == Len(u)
           rest == Tail(u)
<1>1. /\ n \in Nat /\ Len(items) = n + 1 /\ items[n + 1] = e /\ \A i \in 1..n : items[i] = E[i]
      /\ l \in Nat /\ l > 0 /\ Len(rest) = l - 1 /\ \A j \in 1..(l - 1) : rest[j] = u[j + 1]
  BY Appended, Shortened, Elements
<1>2. u[1].type \in {"publish", "subscribe", "syn"}
  BY <1>1, Elements DEF Requests, Whats
<1>3. e.type = "subscribe" <=> Asks(u[1])
  BY <1>2 DEF Asks
<1> HIDE DEF items, rest, n, l
<1>4. \A i \in 1..(n + 1) : i \in 1..n \/ i = n + 1
  BY <1>1
<1>5. /\ \A i \in 1..n : E[i].type = "subscribe" => E[i].by \in beg
      /\ \A i, k \in 1..n : E[i].type = "subscribe" /\ E[k].type = "subscribe" /\ E[i].by = E[k].by => i = k
      /\ \A j \in 1..l : Asks(u[j]) =>
           u[j].by \in beg /\ \A i \in 1..n : E[i].type = "subscribe" => E[i].by # u[j].by
      /\ \A j, k \in 1..l : Asks(u[j]) /\ Asks(u[k]) /\ u[j].by = u[k].by => j = k
      /\ mem = {} => \A a, b \in beg : a = b
      /\ \A j \in 1..l : u[j].type \in {"subscribe", "unsubscribe"} => mem = {}
      /\ \A j \in 1..l : u[j].type = "syn" => mem # {}
      /\ \A j \in 1..l : u[j].type = "unsubscribe" =>
           /\ \A i \in 1..n : E[i].type # "subscribe"
           /\ \A k \in 1..j : ~Asks(u[k])
  BY DEF Shape, n, l
<1>6. 1 \in 1..l /\ \A j \in 1..(l - 1) : j + 1 \in 1..l /\ j + 1 # 1 /\ rest[j] = u[j + 1] /\ 1 \in 1..(j + 1)
  <2>1. l \in Nat /\ l > 0
    BY <1>1
  <2>2. \A j \in 1..(l - 1) : j + 1 \in 1..l /\ j + 1 # 1 /\ 1 \in 1..(j + 1)
    BY <2>1
  <2>3. \A j \in 1..(l - 1) : rest[j] = u[j + 1]
    BY <1>1
  <2>4. 1 \in 1..l
    BY <2>1
  <2> QED BY <2>2, <2>3, <2>4
<1>7. \A i \in 1..(n + 1) : items[i].type = "subscribe" => items[i].by \in beg
  BY <1>1, <1>3, <1>4, <1>5, <1>6
<1>8. \A i, k \in 1..(n + 1) : items[i].type = "subscribe" /\ items[k].type = "subscribe" /\ items[i].by = items[k].by => i = k
  <2>1. Asks(u[1]) => \A i \in 1..n : E[i].type = "subscribe" => E[i].by # e.by
    BY <1>3, <1>5, <1>6 DEF Asks
  <2> QED BY <1>1, <1>3, <1>4, <1>5, <2>1
<1>9. \A j \in 1..(l - 1) : Asks(rest[j]) =>
        rest[j].by \in beg /\ \A i \in 1..(n + 1) : items[i].type = "subscribe" => items[i].by # rest[j].by
  <2> SUFFICES ASSUME NEW j \in 1..(l - 1), Asks(rest[j])
               PROVE  /\ rest[j].by \in beg
                      /\ \A i \in 1..(n + 1) : items[i].type = "subscribe" => items[i].by # rest[j].by
    OBVIOUS
  <2>1. j + 1 \in 1..l /\ rest[j] = u[j + 1] /\ j + 1 # 1 /\ Asks(u[j + 1])
    BY <1>6
  <2>2. Asks(u[1]) => u[1].by # u[j + 1].by
    BY <1>5, <1>6, <2>1
  <2>3. e.type = "subscribe" => e.by # u[j + 1].by
    BY <1>3, <2>2 DEF Asks
  <2> QED BY <1>1, <1>4, <1>5, <2>1, <2>3
<1>10. \A j, k \in 1..(l - 1) : Asks(rest[j]) /\ Asks(rest[k]) /\ rest[j].by = rest[k].by => j = k
  <2> SUFFICES ASSUME NEW j \in 1..(l - 1), NEW k \in 1..(l - 1), Asks(rest[j]), Asks(rest[k]), rest[j].by = rest[k].by
               PROVE  j = k
    OBVIOUS
  <2>1. j + 1 = k + 1
    BY <1>5, <1>6
  <2> QED BY <2>1
<1>11. \A j \in 1..(l - 1) : rest[j].type = "unsubscribe" =>
         /\ \A i \in 1..(n + 1) : items[i].type # "subscribe"
         /\ \A k \in 1..j : ~Asks(rest[k])
  <2> SUFFICES ASSUME NEW j \in 1..(l - 1), rest[j].type = "unsubscribe"
               PROVE  /\ \A i \in 1..(n + 1) : items[i].type # "subscribe"
                      /\ \A k \in 1..j : ~Asks(rest[k])
    OBVIOUS
  <2>1. (\A i \in 1..n : E[i].type # "subscribe") /\ \A k \in 1..(j + 1) : ~Asks(u[k])
    BY <1>5, <1>6
  <2>2. ~Asks(u[1])
    BY <1>6, <2>1
  <2>3. \A k \in 1..j : k \in 1..(l - 1) /\ k + 1 \in 1..(j + 1)
    BY <1>1
  <2> QED BY <1>1, <1>3, <1>4, <1>6, <2>1, <2>2, <2>3
<1>12. /\ \A j \in 1..(l - 1) : rest[j].type \in {"subscribe", "unsubscribe"} => mem = {}
       /\ \A j \in 1..(l - 1) : rest[j].type = "syn" => mem # {}
  BY <1>5, <1>6
<1>13. Shape(items, rest, mem, beg)
  BY <1>1, <1>5, <1>7, <1>8, <1>9, <1>10, <1>11, <1>12 DEF Shape
<1> QED BY <1>13 DEF items, rest

(* That the last subscription has ended is handled. *)
LEMMA ShapeEnd ==
  ASSUME NEW E \in Seq(Items), NEW u \in Seq(Requests), NEW mem, NEW beg, Shape(E, u, mem, beg),
         u # <<>>, u[1].type = "unsubscribe"
  PROVE  Shape(E, Tail(u), mem, beg) /\ mem = {} /\ \A i \in 1..Len(E) : E[i].type # "subscribe"
<1> DEFINE l == Len(u)
           rest == Tail(u)
<1>1. /\ l \in Nat /\ l > 0 /\ Len(rest) = l - 1 /\ \A j \in 1..(l - 1) : rest[j] = u[j + 1]
  BY Shortened, Elements
<1>2. mem = {} /\ \A i \in 1..Len(E) : E[i].type # "subscribe"
  <2>1. 1 \in 1..Len(u)
    BY <1>1
  <2> QED BY <2>1 DEF Shape
<1> HIDE DEF rest
<1>3. \A j \in 1..Len(rest) : j + 1 \in 1..Len(u) /\ rest[j] = u[j + 1]
  BY <1>1
<1>4. \A j \in 1..Len(rest) : \A k \in 1..j : k \in 1..Len(rest) /\ k + 1 \in 1..(j + 1)
  BY <1>1
<1>5. \A j, k \in 1..Len(rest) : Asks(rest[j]) /\ Asks(rest[k]) /\ rest[j].by = rest[k].by => j = k
  <2> SUFFICES ASSUME NEW j \in 1..Len(rest), NEW k \in 1..Len(rest), Asks(rest[j]), Asks(rest[k]), rest[j].by = rest[k].by
               PROVE  j = k
    OBVIOUS
  <2>1. j + 1 = k + 1
    BY <1>3 DEF Shape
  <2> QED BY <2>1
<1>6. \A j \in 1..Len(rest) : rest[j].type = "unsubscribe" => \A k \in 1..j : ~Asks(rest[k])
  <2> SUFFICES ASSUME NEW j \in 1..Len(rest), rest[j].type = "unsubscribe", NEW k \in 1..j PROVE ~Asks(rest[k])
    OBVIOUS
  <2>1. j + 1 \in 1..Len(u) /\ u[j + 1].type = "unsubscribe" /\ k + 1 \in 1..(j + 1) /\ rest[k] = u[k + 1]
    BY <1>3, <1>4
  <2> QED BY <2>1 DEF Shape
<1>7. Shape(E, rest, mem, beg)
  BY <1>2, <1>3, <1>5, <1>6 DEF Shape
<1> QED BY <1>2, <1>7 DEF rest

(* The client sends a message. *)
LEMMA ShapePublish ==
  ASSUME NEW E \in Seq(Items), NEW u \in Seq(Requests), NEW mem, NEW beg, Shape(E, u, mem, beg),
         NEW m \in Requests, m.type = "publish"
  PROVE  Shape(E, Append(u, m), mem, beg)
<1> DEFINE longer == Append(u, m)
           l == Len(u)
<1>1. l \in Nat /\ Len(longer) = l + 1 /\ longer[l + 1] = m /\ \A j \in 1..l : longer[j] = u[j]
  BY Appended, Elements
<1> HIDE DEF longer
<1>2. \A j \in 1..Len(longer) : longer[j].type # "publish" => j \in 1..l /\ longer[j] = u[j]
  BY <1>1
<1>3. \A j \in 1..Len(longer) : Asks(longer[j]) => j \in 1..l /\ longer[j] = u[j]
  BY <1>2 DEF Asks
<1>4. \A j \in 1..Len(longer) : longer[j].type = "unsubscribe" => \A k \in 1..j : ~Asks(longer[k])
  <2> SUFFICES ASSUME NEW j \in 1..Len(longer), longer[j].type = "unsubscribe", NEW k \in 1..j PROVE ~Asks(longer[k])
    OBVIOUS
  <2>1. j \in 1..l /\ u[j].type = "unsubscribe" /\ k \in 1..l /\ longer[k] = u[k]
    BY <1>1, <1>2
  <2> QED BY <2>1 DEF Shape
<1>5. \A j \in 1..Len(longer) : Asks(longer[j]) =>
        /\ longer[j].by \in beg
        /\ \A i \in 1..Len(E) : E[i].type = "subscribe" => E[i].by # longer[j].by
  BY <1>3 DEF Shape
<1>6. \A j, k \in 1..Len(longer) : Asks(longer[j]) /\ Asks(longer[k]) /\ longer[j].by = longer[k].by => j = k
  BY <1>3 DEF Shape
<1>7. /\ \A j \in 1..Len(longer) : longer[j].type \in {"subscribe", "unsubscribe"} => mem = {}
      /\ \A j \in 1..Len(longer) : longer[j].type = "syn" => mem # {}
      /\ \A j \in 1..Len(longer) : longer[j].type = "unsubscribe" => \A i \in 1..Len(E) : E[i].type # "subscribe"
  BY <1>2 DEF Shape
<1>8. Shape(E, longer, mem, beg)
  <2>1. /\ \A i \in 1..Len(E) : E[i].type = "subscribe" => E[i].by \in beg
        /\ \A i, k \in 1..Len(E) : E[i].type = "subscribe" /\ E[k].type = "subscribe" /\ E[i].by = E[k].by => i = k
        /\ mem = {} => \A a, b \in beg : a = b
    BY DEF Shape
  <2> QED BY <1>4, <1>5, <1>6, <1>7, <2>1 DEF Shape
<1> QED BY <1>8 DEF longer

(* The client asks for a subscription that had not begun. *)
LEMMA ShapeSubscribe ==
  ASSUME NEW E \in Seq(Items), NEW u \in Seq(Requests), NEW mem, NEW beg, Shape(E, u, mem, beg),
         NEW m \in Requests, m.type = IF mem = {} THEN "subscribe" ELSE "syn", m.by \notin beg, mem = {} => beg = {}
  PROVE  Shape(E, Append(u, m), mem, beg \cup {m.by})
<1> DEFINE longer == Append(u, m)
           l == Len(u)
<1>1. l \in Nat /\ Len(longer) = l + 1 /\ longer[l + 1] = m /\ \A j \in 1..l : longer[j] = u[j]
  BY Appended, Elements
<1> HIDE DEF longer
<1>2. \A j \in 1..Len(longer) : (j \in 1..l /\ longer[j] = u[j]) \/ (j = l + 1 /\ longer[j] = m)
  BY <1>1
<1>3. \A j \in 1..Len(longer) : longer[j].type = "unsubscribe" => \A k \in 1..j : ~Asks(longer[k])
  <2> SUFFICES ASSUME NEW j \in 1..Len(longer), longer[j].type = "unsubscribe", NEW k \in 1..j PROVE ~Asks(longer[k])
    OBVIOUS
  <2>1. j \in 1..l /\ u[j].type = "unsubscribe"
    BY <1>2
  <2>2. k \in 1..l /\ longer[k] = u[k]
    BY <1>1, <2>1
  <2> QED BY <2>1, <2>2 DEF Shape
<1>4. \A j, k \in 1..Len(longer) : Asks(longer[j]) /\ Asks(longer[k]) /\ longer[j].by = longer[k].by => j = k
  BY <1>2 DEF Shape
<1>5. \A j \in 1..Len(longer) : Asks(longer[j]) =>
        /\ longer[j].by \in beg \cup {m.by}
        /\ \A i \in 1..Len(E) : E[i].type = "subscribe" => E[i].by # longer[j].by
  BY <1>2 DEF Shape
<1>6. mem = {} => \A a, b \in beg \cup {m.by} : a = b
  OBVIOUS
<1>7. /\ \A j \in 1..Len(longer) : longer[j].type \in {"subscribe", "unsubscribe"} => mem = {}
      /\ \A j \in 1..Len(longer) : longer[j].type = "syn" => mem # {}
      /\ \A j \in 1..Len(longer) : longer[j].type = "unsubscribe" => \A i \in 1..Len(E) : E[i].type # "subscribe"
  BY <1>2 DEF Shape
<1>8. Shape(E, longer, mem, beg \cup {m.by})
  BY <1>3, <1>4, <1>5, <1>6, <1>7 DEF Shape
<1> QED BY <1>8 DEF longer

(* Its last subscription ends. *)
LEMMA ShapeUnsubscribe ==
  ASSUME NEW E \in Seq(Items), NEW u \in Seq(Requests), NEW mem, mem # {}, Shape(E, u, mem, {}),
         NEW m \in Requests, m.type = "unsubscribe"
  PROVE  Shape(E, Append(u, m), {}, {})
<1> DEFINE longer == Append(u, m)
           l == Len(u)
<1>1. l \in Nat /\ Len(longer) = l + 1 /\ longer[l + 1] = m /\ \A j \in 1..l : longer[j] = u[j]
  BY Appended, Elements
<1> HIDE DEF longer
<1>2. \A j \in 1..Len(longer) : (j \in 1..l /\ longer[j] = u[j]) \/ (j = l + 1 /\ longer[j] = m)
  BY <1>1
<1>3. /\ \A j \in 1..Len(longer) : ~Asks(longer[j])
      /\ \A i \in 1..Len(E) : E[i].type # "subscribe"
  BY <1>2 DEF Shape, Asks
<1>4. \A j \in 1..Len(longer) : \A k \in 1..j : k \in 1..Len(longer)
  BY <1>1
<1>5. \A j \in 1..Len(longer) : longer[j].type # "syn"
  BY <1>3 DEF Asks
<1>6. Shape(E, longer, {}, {})
  BY <1>3, <1>4, <1>5 DEF Shape
<1> QED BY <1>6 DEF longer

(* Another subscription of it ends. *)
LEMMA ShapeLess ==
  ASSUME NEW E, NEW u, NEW mem, NEW beg, Shape(E, u, mem, beg), NEW less, less # {}, mem # {}
  PROVE  Shape(E, u, less, beg)
  BY DEF Shape

(* The client hears a message, another's or its own. *)
LEMMA ShapeHear ==
  ASSUME NEW E \in Seq(Items), NEW u \in Seq(Requests), NEW mem, NEW beg, Shape(E, u, mem, beg),
         E # <<>>, E[1].type # "subscribe"
  PROVE  Shape(Tail(E), u, mem, beg)
<1> DEFINE n == Len(E)
           rest == Tail(E)
<1>1. n \in Nat /\ n > 0 /\ Len(rest) = n - 1 /\ \A i \in 1..(n - 1) : rest[i] = E[i + 1]
  BY Shortened, Elements
<1> HIDE DEF rest
<1>2. \A i \in 1..Len(rest) : i + 1 \in 1..Len(E) /\ rest[i] = E[i + 1]
  BY <1>1
<1>3. \A i, k \in 1..Len(rest) : rest[i].type = "subscribe" /\ rest[k].type = "subscribe" /\ rest[i].by = rest[k].by => i = k
  <2> SUFFICES ASSUME NEW i \in 1..Len(rest), NEW k \in 1..Len(rest), rest[i].type = "subscribe", rest[k].type = "subscribe",
                      rest[i].by = rest[k].by
               PROVE  i = k
    OBVIOUS
  <2>1. i + 1 = k + 1
    BY <1>2 DEF Shape
  <2> QED BY <2>1
<1>4. \A i \in 1..Len(rest) : rest[i].type = "subscribe" => rest[i].by \in beg
  BY <1>2 DEF Shape
<1>5. \A j \in 1..Len(u) : Asks(u[j]) =>
        u[j].by \in beg /\ \A i \in 1..Len(rest) : rest[i].type = "subscribe" => rest[i].by # u[j].by
  BY <1>2 DEF Shape
<1>6. \A j \in 1..Len(u) : u[j].type = "unsubscribe" =>
        /\ \A i \in 1..Len(rest) : rest[i].type # "subscribe"
        /\ \A k \in 1..j : ~Asks(u[k])
  BY <1>2 DEF Shape
<1>7. Shape(rest, u, mem, beg)
  <2>1. /\ \A j, k \in 1..Len(u) : Asks(u[j]) /\ Asks(u[k]) /\ u[j].by = u[k].by => j = k
        /\ mem = {} => \A a, b \in beg : a = b
        /\ \A j \in 1..Len(u) : u[j].type \in {"subscribe", "unsubscribe"} => mem = {}
        /\ \A j \in 1..Len(u) : u[j].type = "syn" => mem # {}
    BY DEF Shape
  <2> QED BY <1>3, <1>4, <1>5, <1>6, <2>1 DEF Shape
<1> QED BY <1>7 DEF rest

(* The client hears that a subscription has begun. *)
LEMMA ShapeJoin ==
  ASSUME NEW E \in Seq(Items), NEW u \in Seq(Requests), NEW mem, NEW beg, Shape(E, u, mem, beg),
         E # <<>>, E[1].type = "subscribe"
  PROVE  Shape(Tail(E), u, mem \cup {E[1].by}, beg \ {E[1].by})
<1> DEFINE n == Len(E)
           rest == Tail(E)
           s == E[1].by
<1>1. n \in Nat /\ n > 0 /\ Len(rest) = n - 1 /\ \A i \in 1..(n - 1) : rest[i] = E[i + 1]
  BY Shortened, Elements
<1> HIDE DEF rest
<1>2. 1 \in 1..Len(E) /\ \A i \in 1..Len(rest) : i + 1 \in 1..Len(E) /\ i + 1 # 1 /\ rest[i] = E[i + 1]
  <2>1. \A i \in 1..(n - 1) : i + 1 \in 1..n /\ i + 1 # 1
    BY <1>1
  <2> QED BY <1>1, <2>1
<1>3. \A i, k \in 1..Len(rest) : rest[i].type = "subscribe" /\ rest[k].type = "subscribe" /\ rest[i].by = rest[k].by => i = k
  <2> SUFFICES ASSUME NEW i \in 1..Len(rest), NEW k \in 1..Len(rest), rest[i].type = "subscribe", rest[k].type = "subscribe",
                      rest[i].by = rest[k].by
               PROVE  i = k
    OBVIOUS
  <2>1. i + 1 = k + 1
    BY <1>2 DEF Shape
  <2> QED BY <2>1
<1>4. \A i \in 1..Len(rest) : rest[i].type = "subscribe" => rest[i].by \in beg \ {s}
  BY <1>2 DEF Shape
<1>5. \A j \in 1..Len(u) : Asks(u[j]) =>
        u[j].by \in beg \ {s} /\ \A i \in 1..Len(rest) : rest[i].type = "subscribe" => rest[i].by # u[j].by
  BY <1>2 DEF Shape
<1>6. \A j \in 1..Len(u) : u[j].type # "unsubscribe"
  BY <1>2 DEF Shape
<1>7. \A j \in 1..Len(u) : u[j].type # "subscribe"
  <2> SUFFICES ASSUME NEW j \in 1..Len(u), u[j].type = "subscribe" PROVE FALSE
    OBVIOUS
  <2>1. mem = {} /\ Asks(u[j])
    BY DEF Shape, Asks
  <2>2. u[j].by \in beg /\ s \in beg /\ s # u[j].by
    BY <1>2, <2>1 DEF Shape
  <2> QED BY <2>1, <2>2 DEF Shape
<1>8. \A j, k \in 1..Len(u) : Asks(u[j]) /\ Asks(u[k]) /\ u[j].by = u[k].by => j = k
  BY DEF Shape
<1> HIDE DEF s
<1>9. Shape(rest, u, mem \cup {s}, beg \ {s})
  BY <1>3, <1>4, <1>5, <1>6, <1>7, <1>8 DEF Shape
<1> QED BY <1>9 DEF rest, s
-----------------------------------------------------------------------------
(***************************************************************************)
(* The inductive invariant: types; the top thread's own listeners have     *)
(* heard all; and there are items that fit what is on its way to and from  *)
(* each client, which its listeners will have heard when it has taken all. *)
(***************************************************************************)
PubTypes ==
  /\ references \in SUBSET (Threads \cup Pub!Of(Top))
  /\ up \in [Threads -> Seq(Requests)] /\ down \in [Threads -> Seq(Replies)] /\ syn \in [Threads -> Seq(Whats)]
  /\ entry \in SUBSET Threads /\ member \in SUBSET Subscribers
  /\ status \in [Subscribers -> {"none", "subscribing", "active"}]
  /\ log \in Seq(Spoken) /\ since \in Begins /\ heard \in [Subscribers -> Seq(Nat)]
  /\ published \in Nat

TopInv ==
  \A s \in Pub!Of(Top) :
    /\ status[s] \in {"none", "active"} /\ s \notin member
    /\ status[s] = "active" <=> s \in references
    /\ status[s] = "active" => HasHeard(s, log, since, heard, Len(log))

Listeners(q) ==
  /\ \A s \in Pub!Of(q) :
       /\ s \in member <=> status[s] = "active"
       /\ status[s] # "none" => q \in entry
       /\ status[s] = "subscribing" => heard[s] = <<>>
  /\ \A j \in 1..Len(up[q]) : up[q][j].type = "publish" => up[q][j].by \in Pub!Of(q) \cup {Nobody}

Linked(q, E) ==
  /\ Paired(down[q], up[q], syn[q], E)
  /\ Shape(E, up[q], Pub!Members(q), Pub!Beginning(q))

\* the top thread knows of a client that has listeners, or is to be told that it has
Heeds(q, E) ==
  /\ Pub!Members(q) # {} => q \in references
  /\ (\E i \in 1..Len(E) : E[i].type = "subscribe") => q \in references
  /\ q \in references => Follows(E, log, Pub!Members(q), since, heard, Pub!Of(q))

ClientInv(q) == Listeners(q) /\ \E E \in Seq(Items) : Linked(q, E) /\ Heeds(q, E)

PubInv == PubTypes /\ TopInv /\ \A q \in Threads : ClientInv(q)

(* each subscription is of one client, or of the top thread *)
LEMMA Places ==
  ASSUME Pub!PubSubAssumption, NEW q \in Threads
  PROVE  /\ Pub!Of(q) \cap Pub!Of(Top) = {} /\ \A p \in Threads \ {q} : Pub!Of(p) \cap Pub!Of(q) = {}
         /\ q \notin Pub!Of(Top) /\ q # Nobody /\ q \notin Subscribers /\ Pub!Of(q) \subseteq Subscribers
         /\ Nobody \notin Pub!Of(q) /\ Pub!Of(Top) \subseteq Subscribers /\ Nobody \notin Subscribers
  BY DEF Pub!PubSubAssumption, Pub!Of

(* What a client's invariant does not depend on changes. *)
LEMMA Undisturbed ==
  ASSUME NEW q \in Threads, ClientInv(q),
         down'[q] = down[q], up'[q] = up[q], syn'[q] = syn[q], log' = log,
         q \in references' <=> q \in references, q \in entry' <=> q \in entry,
         \A s \in Pub!Of(q) : /\ since'[s] = since[s] /\ heard'[s] = heard[s] /\ status'[s] = status[s]
                              /\ s \in member' <=> s \in member
  PROVE  ClientInv(q)'
<1>1. PICK E \in Seq(Items) : Linked(q, E) /\ Heeds(q, E)
  BY DEF ClientInv
<1>2. Pub!Members(q)' = Pub!Members(q) /\ Pub!Beginning(q)' = Pub!Beginning(q) /\ Pub!Of(q)' = Pub!Of(q)
  BY DEF Pub!Members, Pub!Beginning, Pub!Of
<1>3. Listeners(q)'
  BY <1>2 DEF ClientInv, Listeners
<1>4. Linked(q, E)'
  BY <1>1, <1>2 DEF Linked
<1>5. q \in references => Follows(E, log, Pub!Members(q), since', heard', Pub!Of(q))
  <2> SUFFICES ASSUME q \in references PROVE Follows(E, log, Pub!Members(q), since', heard', Pub!Of(q))
    OBVIOUS
  <2>1. Follows(E, log, Pub!Members(q), since, heard, Pub!Of(q))
    BY <1>1 DEF Heeds
  <2>2. SameOf(Pub!Members(q), since, heard, since', heard')
    BY DEF Pub!Members, SameOf
  <2>3. SameIn(E, since, since')
    BY <1>1 DEF Linked, Shape, Pub!Beginning, SameIn
  <2>4. Pub!Members(q) \in SUBSET Pub!Members(q)
    OBVIOUS
  <2> QED BY <2>1, <2>2, <2>3, <2>4, FollowsLess
<1>6. Heeds(q, E)'
  BY <1>1, <1>2, <1>5 DEF Heeds
<1> QED BY <1>3, <1>4, <1>6 DEF ClientInv

(* The top thread handles a message of others, and sends it to the client. *)
LEMMA Forwarded ==
  ASSUME NEW q \in Threads, PubTypes, ClientInv(q), NEW m \in Spoken, m.by \notin Pub!Of(q),
         down'[q] = IF q \in references THEN Append(down[q], [type |-> "publish", id |-> m.id]) ELSE down[q],
         up'[q] = up[q], syn'[q] = syn[q], log' = Append(log, m),
         q \in references' <=> q \in references, q \in entry' <=> q \in entry,
         \A s \in Pub!Of(q) : /\ since'[s] = since[s] /\ heard'[s] = heard[s] /\ status'[s] = status[s]
                              /\ s \in member' <=> s \in member
  PROVE  ClientInv(q)'
<1>1. PICK E \in Seq(Items) : Linked(q, E) /\ Heeds(q, E)
  BY DEF ClientInv
<1>2. Pub!Members(q)' = Pub!Members(q) /\ Pub!Beginning(q)' = Pub!Beginning(q) /\ Pub!Of(q)' = Pub!Of(q)
  BY DEF Pub!Members, Pub!Beginning, Pub!Of
<1>3. Listeners(q)'
  BY <1>2 DEF ClientInv, Listeners
<1>4. CASE q \notin references
  <2>1. Linked(q, E)'
    BY <1>1, <1>2, <1>4 DEF Linked
  <2>2. Heeds(q, E)'
    BY <1>1, <1>2, <1>4 DEF Heeds
  <2> QED BY <1>3, <2>1, <2>2 DEF ClientInv
<1>5. CASE q \in references
  <2> DEFINE e == [type |-> "forward", id |-> m.id]
             reply == [type |-> "publish", id |-> m.id]
  <2>1. e \in Items /\ reply \in Replies /\ e.type = "forward" /\ reply.type = "publish" /\ reply.id = e.id /\ e.id = m.id
    BY DEF Items, Replies, Spoken
  <2> HIDE DEF e
  <2>2. down[q] \in Seq(Replies) /\ up[q] \in Seq(Requests) /\ syn[q] \in Seq(Whats) /\ log \in Seq(Spoken) /\ since \in Begins
    BY DEF PubTypes
  <2>3. Paired(Append(down[q], reply), up[q], syn[q], Append(E, e))
    <3> HIDE DEF reply
    <3> QED BY <1>1, <2>1, <2>2, PairedForward DEF Linked
  <2>4. Shape(Append(E, e), up[q], Pub!Members(q), Pub!Beginning(q))
    BY <1>1, <2>1, <2>2, ShapeForward DEF Linked
  <2>5. Linked(q, Append(E, e))'
    BY <1>2, <1>5, <2>3, <2>4 DEF Linked
  <2>6. Follows(Append(E, e), Append(log, m), Pub!Members(q), since, heard, Pub!Of(q))
    <3>1. Pub!Members(q) \in SUBSET Subscribers
      BY DEF Pub!Members, Pub!Of
    <3>2. Follows(E, log, Pub!Members(q), since, heard, Pub!Of(q)) /\ e.type # "subscribe"
      BY <1>1, <1>5, <2>1 DEF Heeds
    <3>3. m.id = e.id /\ IF e.type = "forward" THEN m.by \notin Pub!Of(q) ELSE m.by = e.by
      BY <2>1
    <3> QED BY <2>1, <2>2, <3>1, <3>2, <3>3, FollowsMessage
  <2>7. Follows(Append(E, e), Append(log, m), Pub!Members(q), since', heard', Pub!Of(q))
    <3>1. Append(E, e) \in Seq(Items)
      BY <2>1, Appended
    <3>2. SameOf(Pub!Members(q), since, heard, since', heard')
      BY DEF Pub!Members, SameOf
    <3>3. SameIn(Append(E, e), since, since')
      BY <2>4 DEF Shape, Pub!Beginning, SameIn
    <3>4. Pub!Members(q) \in SUBSET Pub!Members(q)
      OBVIOUS
    <3> QED BY <2>6, <3>1, <3>2, <3>3, <3>4, FollowsLess
  <2>8. Heeds(q, Append(E, e))'
    BY <1>2, <1>5, <2>7 DEF Heeds
  <2>9. Append(E, e) \in Seq(Items)
    BY <2>1, Appended
  <2> QED BY <1>3, <2>5, <2>8, <2>9 DEF ClientInv
<1> QED BY <1>4, <1>5
(* What is recorded of the top thread's own subscriptions does not change. *)
LEMMA TopUndisturbed ==
  ASSUME TopInv, log' = log,
         \A s \in Pub!Of(Top) : /\ since'[s] = since[s] /\ heard'[s] = heard[s] /\ status'[s] = status[s]
                                /\ s \in member' <=> s \in member
                                /\ s \in references' <=> s \in references
  PROVE  TopInv'
  BY DEF TopInv, HasHeard, Pub!Of

(* The top thread handles a message: its own listeners hear it. *)
LEMMA TopHears ==
  ASSUME PubTypes, TopInv, NEW m \in Spoken, log' = Append(log, m),
         since' = since, member' = member, status' = status, references' = references,
         \A s \in Pub!Of(Top) :
           heard'[s] = IF s \in references /\ s # m.by THEN Append(heard[s], m.id) ELSE heard[s]
  PROVE  TopInv'
<1> SUFFICES ASSUME NEW s \in Pub!Of(Top), status[s] = "active" PROVE HasHeard(s, log', since, heard', Len(log'))
  BY DEF TopInv, Pub!Of
<1>1. log \in Seq(Spoken) /\ Append(log, m) \in Seq(Spoken) /\ Len(Append(log, m)) = Len(log) + 1 /\ Len(log) \in Nat
  BY Appended, Elements DEF PubTypes
<1>2. since[s] \in Nat
  BY DEF PubTypes, Begins, Pub!Of
<1>3. since[s] <= Len(log) /\ heard[s] = Pub!Telling(log, since[s], s)[Len(log)] /\ s \in references
  BY DEF TopInv, HasHeard
<1>4. since[s] \in 0..Len(log)
  BY <1>1, <1>2, <1>3
<1>5. ToldMore(log, m, since[s], s)
  BY <1>1, <1>4, TellingMore
<1>6. heard'[s] = Pub!Telling(Append(log, m), since[s], s)[Len(Append(log, m))]
  BY <1>1, <1>3, <1>5 DEF ToldMore
<1>7. since[s] <= Len(Append(log, m))
  BY <1>1, <1>2, <1>3
<1> QED BY <1>6, <1>7 DEF HasHeard

(* A message that is published in the top thread. *)
LEMMA TopPublishing ==
  ASSUME Pub!PubSubAssumption, PubInv, NEW by \in Subscribers \cup {Nobody}, Pub!TopPublishes(by)
  PROVE  PubInv'
<1> DEFINE m == [id |-> published + 1, by |-> by]
<1>1. PubTypes /\ TopInv /\ published + 1 \in Nat /\ m \in Spoken /\ m.id = published + 1 /\ m.by = by
  BY DEF PubInv, PubTypes, Spoken
<1>2. /\ log' = Append(log, m) /\ UNCHANGED <<references, up, syn, entry, member, status, since>>
      /\ published' = published + 1
      /\ down' = [q \in Threads |-> IF q \in references \ {by} THEN Append(down[q], [type |-> "publish", id |-> m.id])
                                    ELSE down[q]]
      /\ heard' = [s \in Subscribers |-> IF s \in (references \ {by}) \cap Pub!Of(Top) THEN Append(heard[s], m.id)
                                         ELSE heard[s]]
      /\ by # Nobody => Place[by] = Top
  BY DEF Pub!TopPublishes, Pub!Forward, Pub!Others, Pub!Hear, Pub!clientVars
<1> HIDE DEF m
<1>3. PubTypes'
  <2>1. log' \in Seq(Spoken) /\ published' \in Nat
    BY <1>1, <1>2, Appended DEF PubTypes
  <2>2. down' \in [Threads -> Seq(Replies)]
    <3>1. \A q \in Threads : Append(down[q], [type |-> "publish", id |-> m.id]) \in Seq(Replies) /\ down[q] \in Seq(Replies)
      <4>1. [type |-> "publish", id |-> m.id] \in Replies
        BY <1>1 DEF Replies
      <4> QED BY <1>1, <4>1, Appended DEF PubTypes
    <3> QED BY <1>2, <3>1
  <2>3. heard' \in [Subscribers -> Seq(Nat)]
    <3>1. \A s \in Subscribers : Append(heard[s], m.id) \in Seq(Nat) /\ heard[s] \in Seq(Nat)
      BY <1>1, Appended DEF PubTypes
    <3> QED BY <1>2, <3>1
  <2> QED BY <1>1, <1>2, <2>1, <2>2, <2>3 DEF PubTypes, Pub!Of
<1>4. TopInv'
  <2>1. \A s \in Pub!Of(Top) : heard'[s] = IF s \in references /\ s # m.by THEN Append(heard[s], m.id) ELSE heard[s]
    BY <1>1, <1>2 DEF Pub!Of
  <2> QED BY <1>1, <1>2, <2>1, TopHears
<1>5. ASSUME NEW q \in Threads PROVE ClientInv(q)'
  <2>1. ClientInv(q)
    BY DEF PubInv
  <2>2. q # by /\ m.by \notin Pub!Of(q)
    BY <1>1, <1>2, Places DEF Pub!Of, Pub!PubSubAssumption
  <2>3. down'[q] = IF q \in references THEN Append(down[q], [type |-> "publish", id |-> m.id]) ELSE down[q]
    BY <1>2, <2>2
  <2>4. \A s \in Pub!Of(q) : heard'[s] = heard[s]
    BY <1>2, Places DEF Pub!Of
  <2> QED BY <1>1, <1>2, <2>1, <2>2, <2>3, <2>4, Forwarded
<1> QED BY <1>3, <1>4, <1>5 DEF PubInv

(* A subscription of the top thread begins or ends. *)
LEMMA TopSubscribing ==
  ASSUME Pub!PubSubAssumption, PubInv, NEW s \in Subscribers, Pub!TopSubscribes(s) \/ Pub!TopUnsubscribes(s)
  PROVE  PubInv'
<1>1. PubTypes /\ TopInv
  BY DEF PubInv
<1>2. /\ UNCHANGED <<up, down, syn, entry, member, log, published>> /\ s \in Pub!Of(Top)
      /\ \/ /\ references' = references \cup {s} /\ status' = [status EXCEPT ![s] = "active"]
            /\ since' = [since EXCEPT ![s] = Len(log)] /\ heard' = [heard EXCEPT ![s] = <<>>]
         \/ /\ references' = references \ {s} /\ status' = [status EXCEPT ![s] = "none"]
            /\ UNCHANGED <<since, heard>>
  BY DEF Pub!TopSubscribes, Pub!TopUnsubscribes, Pub!ports, Pub!clientVars, Pub!history, Pub!bounds, Pub!Of
<1>3. PubTypes'
  <2>1. Len(log) \in Nat /\ <<>> \in Seq(Nat)
    BY <1>1, Elements DEF PubTypes
  <2> QED BY <1>1, <1>2, <2>1 DEF PubTypes, Begins, Pub!Of
<1>4. TopInv'
  <2> SUFFICES ASSUME NEW t \in Pub!Of(Top)
               PROVE  /\ status'[t] \in {"none", "active"} /\ t \notin member'
                      /\ status'[t] = "active" <=> t \in references'
                      /\ status'[t] = "active" => HasHeard(t, log', since', heard', Len(log'))
    BY DEF TopInv, Pub!Of
  <2>1. CASE t # s
    BY <1>1, <1>2, <2>1 DEF TopInv, PubTypes, HasHeard, Begins, Pub!Of
  <2>2. CASE t = s
    <3>1. /\ status'[s] \in {"none", "active"} /\ s \notin member' /\ (status'[s] = "active" <=> s \in references')
          /\ status'[s] = "active" => since'[s] = Len(log) /\ heard'[s] = <<>>
      BY <1>1, <1>2 DEF TopInv, PubTypes, Begins, Pub!Of
    <3>2. log \in Seq(Spoken) /\ Len(log) \in Nat
      BY <1>1, Elements DEF PubTypes
    <3>3. Pub!Telling(log, Len(log), s)[Len(log)] = <<>>
      BY <3>2, TellingFacts
    <3>4. status'[s] = "active" => HasHeard(s, log, since', heard', Len(log))
      BY <3>1, <3>2, <3>3 DEF HasHeard
    <3> QED BY <1>2, <2>2, <3>1, <3>4
  <2> QED BY <2>1, <2>2
<1>5. ASSUME NEW q \in Threads PROVE ClientInv(q)'
  <2>1. ClientInv(q)
    BY DEF PubInv
  <2>2. q # s /\ s \notin Pub!Of(q)
    BY <1>2, Places
  <2>3. \A t \in Pub!Of(q) : since'[t] = since[t] /\ heard'[t] = heard[t] /\ status'[t] = status[t]
    BY <1>1, <1>2, <2>2 DEF PubTypes, Begins, Pub!Of
  <2>4. q \in references' <=> q \in references
    BY <1>2, <2>2
  <2> QED BY <1>2, <2>1, <2>3, <2>4, Undisturbed
<1> QED BY <1>3, <1>4, <1>5 DEF PubInv
(* The top thread handles a message of a client: it sends it to the others, *)
(* and acknowledges it.                                                     *)
LEMMA HandlesMessage ==
  ASSUME Pub!PubSubAssumption, PubInv, NEW c \in Threads, Pub!HandlePublish(c)
  PROVE  PubInv'
<1>0. PICK e : e = up[c][1]
  OBVIOUS
<1> DEFINE m == [id |-> e.id, by |-> e.by]
           ack == [type |-> "ack"]
<1>1. PubTypes /\ TopInv /\ ClientInv(c) /\ up[c] \in Seq(Requests) /\ up[c] # <<>>
  BY DEF PubInv, PubTypes, Pub!HandlePublish, Pub!Receives
<1>2. Head(up[c]) = e /\ e \in Requests /\ e.type = "publish" /\ Len(up[c]) > 0 /\ Len(up[c]) \in Nat
  BY <1>0, <1>1, Shortened, Elements DEF Pub!HandlePublish, Pub!Receives
<1>3. e \in Items /\ m \in Spoken /\ m.id = e.id /\ m.by = e.by
  BY <1>2 DEF Requests, Items, Whats, Spoken
<1>4. e.by \in Pub!Of(c) \cup {Nobody}
  BY <1>0, <1>1, <1>2 DEF ClientInv, Listeners
<1>5. /\ log' = Append(log, m) /\ up' = [up EXCEPT ![c] = Tail(@)]
      /\ UNCHANGED <<references, syn, entry, member, status, since, published>>
      /\ heard' = [s \in Subscribers |-> IF s \in (references \ {c}) \cap Pub!Of(Top) THEN Append(heard[s], m.id)
                                         ELSE heard[s]]
      /\ down' = [q \in Threads |->
                   LET forwarded == IF q \in references \ {c} THEN Append(down[q], [type |-> "publish", id |-> m.id])
                                    ELSE down[q]
                   IN IF q = c THEN Append(forwarded, ack) ELSE forwarded]
  BY <1>2 DEF Pub!HandlePublish, Pub!Receives, Pub!Others, Pub!Hear, Pub!clientVars, Pub!bounds
<1> HIDE DEF m, ack
<1>6. down'[c] = Append(down[c], ack)
  BY <1>5
<1>7. \A q \in Threads \ {c} : down'[q] = IF q \in references THEN Append(down[q], [type |-> "publish", id |-> m.id]) ELSE down[q]
  BY <1>5
<1>8. ack \in Replies /\ ack.type = "ack" /\ [type |-> "publish", id |-> m.id] \in Replies
  BY <1>3 DEF ack, Replies, Spoken
<1>9. up'[c] = Tail(up[c]) /\ Tail(up[c]) \in Seq(Requests)
  BY <1>1, <1>5, Shortened DEF PubTypes
<1>10. PubTypes'
  <2>1. log' \in Seq(Spoken)
    BY <1>1, <1>3, <1>5, Appended DEF PubTypes
  <2>2. down' \in [Threads -> Seq(Replies)]
    <3>1. \A q \in Threads : down[q] \in Seq(Replies)
      BY <1>1 DEF PubTypes
    <3>2. \A q \in Threads : down'[q] \in Seq(Replies)
      <4>1. ASSUME NEW q \in Threads \ {c} PROVE down'[q] \in Seq(Replies)
        <5>1. Append(down[q], [type |-> "publish", id |-> m.id]) \in Seq(Replies) /\ down[q] \in Seq(Replies)
          BY <1>8, <3>1, Appended
        <5> QED BY <1>7, <5>1
      <4>2. down'[c] \in Seq(Replies)
        BY <1>6, <1>8, <3>1, Appended
      <4> QED BY <4>1, <4>2
    <3>3. down' = [q \in Threads |-> down'[q]]
      BY <1>5
    <3> QED BY <3>2, <3>3
  <2>3. heard' \in [Subscribers -> Seq(Nat)]
    <3>1. \A s \in Subscribers : Append(heard[s], m.id) \in Seq(Nat) /\ heard[s] \in Seq(Nat)
      BY <1>1, <1>3, Appended DEF PubTypes, Spoken
    <3> QED BY <1>5, <3>1
  <2> QED BY <1>1, <1>5, <1>9, <2>1, <2>2, <2>3 DEF PubTypes, Pub!Of
<1>11. TopInv'
  <2>1. \A s \in Pub!Of(Top) : s # c /\ s # m.by
    BY <1>3, <1>4, Places
  <2>2. \A s \in Pub!Of(Top) : heard'[s] = IF s \in references /\ s # m.by THEN Append(heard[s], m.id) ELSE heard[s]
    BY <1>5, <2>1 DEF Pub!Of
  <2> QED BY <1>1, <1>3, <1>5, <2>2, TopHears
<1>12. \A q \in Threads : \A s \in Pub!Of(q) : heard'[s] = heard[s]
  BY <1>5, Places DEF Pub!Of
<1>13. ASSUME NEW q \in Threads \ {c} PROVE ClientInv(q)'
  <2>1. ClientInv(q) /\ up'[q] = up[q]
    BY <1>1, <1>5 DEF PubInv, PubTypes
  <2>2. m.by \notin Pub!Of(q)
    BY <1>3, <1>4, Places
  <2> QED BY <1>1, <1>3, <1>5, <1>7, <1>12, <2>1, <2>2, Forwarded
<1>14. ClientInv(c)'
  <2>1. PICK E \in Seq(Items) : Linked(c, E) /\ Heeds(c, E)
    BY <1>1 DEF ClientInv
  <2>2. down[c] \in Seq(Replies) /\ syn[c] \in Seq(Whats) /\ log \in Seq(Spoken) /\ since \in Begins
    BY <1>1 DEF PubTypes
  <2>3. /\ Pub!Members(c)' = Pub!Members(c) /\ Pub!Beginning(c)' = Pub!Beginning(c) /\ Pub!Of(c)' = Pub!Of(c)
        /\ Pub!Members(c) \in SUBSET Subscribers
    BY <1>5 DEF Pub!Members, Pub!Beginning, Pub!Of
  <2>4. Paired(Append(down[c], ack), Tail(up[c]), syn[c], Append(E, e))
    <3>1. up[c][1].type = "publish" /\ Paired(down[c], up[c], syn[c], E)
      BY <1>0, <1>2, <2>1 DEF Linked
    <3>2. up[c][1].type # "unsubscribe"
      BY <3>1
    <3>3. Handled(down[c], up[c], syn[c], E, ack)
      BY <1>1, <1>8, <2>2, <3>1, <3>2, PairedHandle
    <3> QED BY <1>0, <3>1, <3>3 DEF Handled
  <2>5. Shape(Append(E, e), Tail(up[c]), Pub!Members(c), Pub!Beginning(c))
    BY <1>0, <1>1, <1>2, <1>3, <2>1, ShapeHandle DEF Linked
  <2>6. Linked(c, Append(E, e))'
    BY <1>5, <1>6, <1>9, <2>3, <2>4, <2>5 DEF Linked
  <2>7. c \in references => Follows(Append(E, e), Append(log, m), Pub!Members(c), since, heard', Pub!Of(c))
    <3> SUFFICES ASSUME c \in references
                 PROVE  Follows(Append(E, e), Append(log, m), Pub!Members(c), since, heard', Pub!Of(c))
      OBVIOUS
    <3>1. Follows(E, log, Pub!Members(c), since, heard, Pub!Of(c)) /\ e.type # "subscribe" /\ e.type # "forward"
      BY <1>2, <2>1 DEF Heeds
    <3>2. Follows(Append(E, e), Append(log, m), Pub!Members(c), since, heard, Pub!Of(c))
      BY <1>3, <2>2, <2>3, <3>1, FollowsMessage
    <3>3. Pub!Members(c) \in SUBSET Pub!Members(c) /\ Append(E, e) \in Seq(Items)
      BY <1>3, Appended
    <3>4. SameOf(Pub!Members(c), since, heard, since, heard') /\ SameIn(Append(E, e), since, since)
      BY <1>12 DEF SameOf, SameIn, Pub!Members
    <3> QED BY <3>2, <3>3, <3>4, FollowsLess
  <2>8. (\E i \in 1..Len(Append(E, e)) : Append(E, e)[i].type = "subscribe") => c \in references
    <3>1. (\E i \in 1..Len(E) : E[i].type = "subscribe") => c \in references
      BY <2>1 DEF Heeds
    <3>2. \A i \in 1..Len(Append(E, e)) : Append(E, e)[i].type = "subscribe" => i \in 1..Len(E) /\ Append(E, e)[i] = E[i]
      <4>1. /\ Len(Append(E, e)) = Len(E) + 1 /\ Len(E) \in Nat /\ Append(E, e)[Len(E) + 1] = e
            /\ \A i \in 1..Len(E) : Append(E, e)[i] = E[i]
        BY <1>3, Appended, Elements
      <4> DEFINE items == Append(E, e)
      <4> HIDE DEF items
      <4> QED BY <1>2, <4>1 DEF items
    <3> QED BY <3>1, <3>2
  <2>9. Heeds(c, Append(E, e))'
    BY <1>5, <2>1, <2>3, <2>7, <2>8 DEF Heeds
  <2>10. Listeners(c)'
    <3>1. \A j \in 1..Len(Tail(up[c])) : Tail(up[c])[j].type = "publish" => Tail(up[c])[j].by \in Pub!Of(c) \cup {Nobody}
      <4>1. \A j \in 1..Len(Tail(up[c])) : j + 1 \in 1..Len(up[c]) /\ Tail(up[c])[j] = up[c][j + 1]
        BY <1>1, <1>2, Shortened
      <4> QED BY <1>1, <4>1 DEF ClientInv, Listeners
    <3> QED BY <1>1, <1>5, <1>9, <1>12, <3>1 DEF ClientInv, Listeners, Pub!Of
  <2>11. Append(E, e) \in Seq(Items)
    BY <1>3, Appended
  <2> QED BY <2>6, <2>9, <2>10, <2>11 DEF ClientInv
<1> QED BY <1>10, <1>11, <1>13, <1>14 DEF PubInv
(* It acknowledges another subscription of a client that it knows. *)
LEMMA HandlesSyn ==
  ASSUME Pub!PubSubAssumption, PubInv, NEW c \in Threads, Pub!HandleSyn(c)
  PROVE  PubInv'
<1>0. PICK u : u = up[c][1]
  OBVIOUS
<1> DEFINE ack == [type |-> "ack"]
<1>1. PubTypes /\ TopInv /\ ClientInv(c) /\ up[c] \in Seq(Requests) /\ up[c] # <<>>
  BY DEF PubInv, PubTypes, Pub!HandleSyn, Pub!Receives
<1>2. Head(up[c]) = u /\ u \in Requests /\ u.type = "syn" /\ Len(up[c]) > 0 /\ Len(up[c]) \in Nat
  BY <1>0, <1>1, Shortened, Elements DEF Pub!HandleSyn, Pub!Receives
<1>3. /\ up' = [up EXCEPT ![c] = Tail(@)] /\ down' = [down EXCEPT ![c] = Append(@, ack)]
      /\ since' = [since EXCEPT ![u.by] = Len(log)]
      /\ UNCHANGED <<references, syn, entry, member, status, log, heard, published>>
  BY <1>2 DEF Pub!HandleSyn, Pub!Receives, Pub!Acknowledge, Pub!clientVars, Pub!bounds
<1>4. PICK E \in Seq(Items) : Linked(c, E) /\ Heeds(c, E)
  BY <1>1 DEF ClientInv
<1>5. u.by \in Pub!Beginning(c) /\ Pub!Members(c) # {} /\ u.by \in Pub!Of(c) /\ u.by \in Subscribers /\ u.by \notin Pub!Members(c)
  <2>1. 1 \in 1..Len(up[c]) /\ Asks(u)
    BY <1>2 DEF Asks
  <2>2. u.by \in Pub!Beginning(c) /\ Pub!Members(c) # {}
    BY <1>0, <1>2, <1>4, <2>1 DEF Linked, Shape
  <2> QED BY <1>1, <2>2 DEF Pub!Beginning, Pub!Members, Pub!Of, ClientInv, Listeners
<1>6. ack \in Replies /\ ack.type = "ack"
  BY DEF Replies
<1> HIDE DEF ack
<1>7. Len(log) \in Nat /\ log \in Seq(Spoken) /\ since \in Begins /\ down[c] \in Seq(Replies) /\ syn[c] \in Seq(Whats)
  BY <1>1, Elements DEF PubTypes
<1>8. up'[c] = Tail(up[c]) /\ Tail(up[c]) \in Seq(Requests) /\ down'[c] = Append(down[c], ack) /\ down'[c] \in Seq(Replies)
  BY <1>1, <1>3, <1>6, <1>7, Shortened, Appended DEF PubTypes
<1>9. PubTypes'
  BY <1>1, <1>3, <1>5, <1>7, <1>8 DEF PubTypes, Begins, Pub!Of
<1>10. since'[u.by] = Len(log) /\ \A s \in Subscribers \ {u.by} : since'[s] = since[s]
  BY <1>3, <1>5, <1>7 DEF Begins
<1>11. TopInv'
  <2>1. \A s \in Pub!Of(Top) : since'[s] = since[s]
    BY <1>5, <1>10, Places
  <2> QED BY <1>1, <1>3, <2>1, TopUndisturbed
<1>12. ASSUME NEW q \in Threads \ {c} PROVE ClientInv(q)'
  <2>1. ClientInv(q) /\ up'[q] = up[q] /\ down'[q] = down[q]
    BY <1>1, <1>3 DEF PubInv, PubTypes
  <2>2. \A s \in Pub!Of(q) : since'[s] = since[s]
    BY <1>5, <1>10, Places
  <2> QED BY <1>3, <2>1, <2>2, Undisturbed
<1>13. ClientInv(c)'
  <2>1. /\ Pub!Members(c)' = Pub!Members(c) /\ Pub!Beginning(c)' = Pub!Beginning(c) /\ Pub!Of(c)' = Pub!Of(c)
        /\ Pub!Members(c) \in SUBSET Subscribers
    BY <1>3 DEF Pub!Members, Pub!Beginning, Pub!Of
  <2>2. PICK e \in Whats : /\ Paired(Append(down[c], ack), Tail(up[c]), syn[c], Append(E, e))
                           /\ e.type = "subscribe" /\ e.by = u.by
    <3>1. Paired(down[c], up[c], syn[c], E) /\ up[c][1].type = "syn"
      BY <1>0, <1>2, <1>4 DEF Linked
    <3>2. u.type # "unsubscribe" /\ u.type # "publish"
      BY <1>2
    <3>3. Handled(down[c], up[c], syn[c], E, ack)
      BY <1>0, <1>1, <1>6, <1>7, <3>1, <3>2, PairedHandle
    <3> QED BY <1>0, <3>2, <3>3 DEF Handled
  <2>3. e \in Items
    BY DEF Items
  <2>4. Shape(Append(E, e), Tail(up[c]), Pub!Members(c), Pub!Beginning(c))
    BY <1>0, <1>1, <1>2, <1>4, <2>2, <2>3, ShapeHandle DEF Linked
  <2>5. Linked(c, Append(E, e))'
    BY <1>3, <1>8, <2>1, <2>2, <2>4 DEF Linked
  <2>6. c \in references /\ Follows(E, log, Pub!Members(c), since, heard, Pub!Of(c))
    BY <1>4, <1>5 DEF Heeds
  <2>7. \A i \in 1..Len(E) : E[i].type = "subscribe" => E[i].by # e.by /\ E[i].by \in Subscribers
    <3>1. 1 \in 1..Len(up[c]) /\ Asks(up[c][1])
      BY <1>0, <1>2 DEF Asks
    <3>2. \A i \in 1..Len(E) : E[i].type = "subscribe" => E[i].by # u.by /\ E[i].by \in Pub!Beginning(c)
      BY <1>0, <1>4, <3>1 DEF Linked, Shape
    <3> QED BY <2>2, <3>2 DEF Pub!Beginning, Pub!Of
  <2>8. Follows(Append(E, e), log, Pub!Members(c), since', heard, Pub!Of(c))
    BY <1>5, <1>7, <1>10, <2>1, <2>2, <2>3, <2>6, <2>7, FollowsSubscription
  <2>9. Heeds(c, Append(E, e))'
    BY <1>3, <2>1, <2>6, <2>8 DEF Heeds
  <2>10. Listeners(c)'
    <3>1. \A j \in 1..Len(Tail(up[c])) : Tail(up[c])[j].type = "publish" => Tail(up[c])[j].by \in Pub!Of(c) \cup {Nobody}
      <4>1. \A j \in 1..Len(Tail(up[c])) : j + 1 \in 1..Len(up[c]) /\ Tail(up[c])[j] = up[c][j + 1]
        BY <1>1, <1>2, Shortened
      <4> QED BY <1>1, <4>1 DEF ClientInv, Listeners
    <3> QED BY <1>1, <1>3, <1>8, <3>1 DEF ClientInv, Listeners, Pub!Of
  <2>11. Append(E, e) \in Seq(Items)
    BY <2>3, Appended
  <2> QED BY <2>5, <2>9, <2>10, <2>11 DEF ClientInv
<1> QED BY <1>9, <1>11, <1>12, <1>13 DEF PubInv
(* It acknowledges the first subscription of a client that it does not know. *)
LEMMA HandlesSubscription ==
  ASSUME Pub!PubSubAssumption, PubInv, NEW c \in Threads, Pub!HandleSubscribe(c)
  PROVE  PubInv'
<1>0. PICK u : u = up[c][1]
  OBVIOUS
<1> DEFINE ack == [type |-> "ack"]
<1>1. PubTypes /\ TopInv /\ ClientInv(c) /\ up[c] \in Seq(Requests) /\ up[c] # <<>>
  BY DEF PubInv, PubTypes, Pub!HandleSubscribe, Pub!Receives
<1>2. Head(up[c]) = u /\ u \in Requests /\ u.type = "subscribe" /\ Len(up[c]) > 0 /\ Len(up[c]) \in Nat
  BY <1>0, <1>1, Shortened, Elements DEF Pub!HandleSubscribe, Pub!Receives
<1>3. /\ up' = [up EXCEPT ![c] = Tail(@)] /\ down' = [down EXCEPT ![c] = Append(@, ack)]
      /\ since' = [since EXCEPT ![u.by] = Len(log)] /\ references' = references \cup {c}
      /\ UNCHANGED <<syn, entry, member, status, log, heard, published>>
  BY <1>2 DEF Pub!HandleSubscribe, Pub!Receives, Pub!Acknowledge, Pub!clientVars, Pub!bounds
<1>4. PICK E \in Seq(Items) : Linked(c, E) /\ Heeds(c, E)
  BY <1>1 DEF ClientInv
<1>5. /\ u.by \in Pub!Beginning(c) /\ Pub!Members(c) = {} /\ u.by \in Pub!Of(c) /\ u.by \in Subscribers
      /\ \A i \in 1..Len(E) : E[i].type # "subscribe"
  <2>1. 1 \in 1..Len(up[c]) /\ Asks(up[c][1])
    BY <1>0, <1>2 DEF Asks
  <2>2. u.by \in Pub!Beginning(c) /\ Pub!Members(c) = {}
    BY <1>0, <1>2, <1>4, <2>1 DEF Linked, Shape
  <2>3. \A a, b \in Pub!Beginning(c) : a = b
    BY <1>4, <2>2 DEF Linked, Shape
  <2>4. \A i \in 1..Len(E) : E[i].type = "subscribe" => E[i].by # u.by /\ E[i].by \in Pub!Beginning(c)
    BY <1>0, <1>4, <2>1 DEF Linked, Shape
  <2> QED BY <2>2, <2>3, <2>4 DEF Pub!Beginning, Pub!Of
<1>6. ack \in Replies /\ ack.type = "ack"
  BY DEF Replies
<1> HIDE DEF ack
<1>7. Len(log) \in Nat /\ log \in Seq(Spoken) /\ since \in Begins /\ down[c] \in Seq(Replies) /\ syn[c] \in Seq(Whats)
  BY <1>1, Elements DEF PubTypes
<1>8. up'[c] = Tail(up[c]) /\ Tail(up[c]) \in Seq(Requests) /\ down'[c] = Append(down[c], ack) /\ down'[c] \in Seq(Replies)
  BY <1>1, <1>3, <1>6, <1>7, Shortened, Appended DEF PubTypes
<1>9. PubTypes'
  BY <1>1, <1>3, <1>5, <1>7, <1>8 DEF PubTypes, Begins, Pub!Of
<1>10. since'[u.by] = Len(log) /\ \A s \in Subscribers \ {u.by} : since'[s] = since[s]
  BY <1>3, <1>5, <1>7 DEF Begins
<1>11. TopInv'
  <2>1. \A s \in Pub!Of(Top) : since'[s] = since[s] /\ (s \in references' <=> s \in references)
    BY <1>3, <1>5, <1>10, Places
  <2> QED BY <1>1, <1>3, <2>1, TopUndisturbed
<1>12. ASSUME NEW q \in Threads \ {c} PROVE ClientInv(q)'
  <2>1. ClientInv(q) /\ up'[q] = up[q] /\ down'[q] = down[q] /\ (q \in references' <=> q \in references)
    BY <1>1, <1>3 DEF PubInv, PubTypes
  <2>2. \A s \in Pub!Of(q) : since'[s] = since[s]
    BY <1>5, <1>10, Places
  <2> QED BY <1>3, <2>1, <2>2, Undisturbed
<1>13. ClientInv(c)'
  <2>1. /\ Pub!Members(c)' = Pub!Members(c) /\ Pub!Beginning(c)' = Pub!Beginning(c) /\ Pub!Of(c)' = Pub!Of(c)
    BY <1>3 DEF Pub!Members, Pub!Beginning, Pub!Of
  <2>2. PICK e \in Whats : /\ Paired(Append(down[c], ack), Tail(up[c]), syn[c], Append(E, e))
                           /\ e.type = "subscribe" /\ e.by = u.by
    <3>1. Paired(down[c], up[c], syn[c], E) /\ up[c][1].type = "subscribe"
      BY <1>0, <1>2, <1>4 DEF Linked
    <3>2. u.type # "unsubscribe" /\ u.type # "publish"
      BY <1>2
    <3>3. Handled(down[c], up[c], syn[c], E, ack)
      BY <1>0, <1>1, <1>6, <1>7, <3>1, <3>2, PairedHandle
    <3> QED BY <1>0, <3>2, <3>3 DEF Handled
  <2>3. e \in Items
    BY DEF Items
  <2>4. Shape(Append(E, e), Tail(up[c]), Pub!Members(c), Pub!Beginning(c))
    BY <1>0, <1>1, <1>2, <1>4, <2>2, <2>3, ShapeHandle DEF Linked
  <2>5. Linked(c, Append(E, e))'
    BY <1>3, <1>8, <2>1, <2>2, <2>4 DEF Linked
  <2>6. Follows(Append(E, e), log, {}, since', heard, Pub!Of(c))
    BY <1>5, <1>7, <1>10, <2>2, <2>3, FollowsFirst
  <2>7. Heeds(c, Append(E, e))'
    BY <1>3, <1>5, <2>1, <2>6 DEF Heeds
  <2>8. Listeners(c)'
    <3>1. \A j \in 1..Len(Tail(up[c])) : Tail(up[c])[j].type = "publish" => Tail(up[c])[j].by \in Pub!Of(c) \cup {Nobody}
      <4>1. \A j \in 1..Len(Tail(up[c])) : j + 1 \in 1..Len(up[c]) /\ Tail(up[c])[j] = up[c][j + 1]
        BY <1>1, <1>2, Shortened
      <4> QED BY <1>1, <4>1 DEF ClientInv, Listeners
    <3> QED BY <1>1, <1>3, <1>8, <3>1 DEF ClientInv, Listeners, Pub!Of
  <2>9. Append(E, e) \in Seq(Items)
    BY <2>3, Appended
  <2> QED BY <2>5, <2>7, <2>8, <2>9 DEF ClientInv
<1> QED BY <1>9, <1>11, <1>12, <1>13 DEF PubInv

(* It forgets a client whose last subscription has ended. *)
LEMMA HandlesEnd ==
  ASSUME Pub!PubSubAssumption, PubInv, NEW c \in Threads, Pub!HandleUnsubscribe(c)
  PROVE  PubInv'
<1>1. PubTypes /\ TopInv /\ ClientInv(c) /\ up[c] \in Seq(Requests) /\ up[c] # <<>>
  BY DEF PubInv, PubTypes, Pub!HandleUnsubscribe, Pub!Receives
<1>2. up[c][1].type = "unsubscribe" /\ Len(up[c]) > 0 /\ Len(up[c]) \in Nat
  BY <1>1, Shortened, Elements DEF Pub!HandleUnsubscribe, Pub!Receives
<1>3. /\ up' = [up EXCEPT ![c] = Tail(@)] /\ references' = references \ {c}
      /\ UNCHANGED <<down, syn, entry, member, status, log, since, heard, published>>
  BY <1>2 DEF Pub!HandleUnsubscribe, Pub!Receives, Pub!clientVars, Pub!history, Pub!bounds
<1>4. PICK E \in Seq(Items) : Linked(c, E) /\ Heeds(c, E)
  BY <1>1 DEF ClientInv
<1>5. up'[c] = Tail(up[c]) /\ Tail(up[c]) \in Seq(Requests) /\ down[c] \in Seq(Replies) /\ syn[c] \in Seq(Whats)
  BY <1>1, <1>3, Shortened DEF PubTypes
<1>6. PubTypes'
  BY <1>1, <1>3, <1>5 DEF PubTypes, Pub!Of
<1>7. TopInv'
  <2>1. \A s \in Pub!Of(Top) : s \in references' <=> s \in references
    BY <1>3, Places
  <2> QED BY <1>1, <1>3, <2>1, TopUndisturbed
<1>8. ASSUME NEW q \in Threads \ {c} PROVE ClientInv(q)'
  <2>1. ClientInv(q) /\ up'[q] = up[q] /\ (q \in references' <=> q \in references)
    BY <1>1, <1>3 DEF PubInv, PubTypes
  <2> QED BY <1>3, <2>1, Undisturbed
<1>9. ClientInv(c)'
  <2>1. /\ Pub!Members(c)' = Pub!Members(c) /\ Pub!Beginning(c)' = Pub!Beginning(c) /\ Pub!Of(c)' = Pub!Of(c)
    BY <1>3 DEF Pub!Members, Pub!Beginning, Pub!Of
  <2>2. Paired(down[c], Tail(up[c]), syn[c], E)
    <3>1. Paired(down[c], up[c], syn[c], E)
      BY <1>4 DEF Linked
    <3> QED BY <1>1, <1>2, <1>5, <3>1, PairedEnd
  <2>3. /\ Shape(E, Tail(up[c]), Pub!Members(c), Pub!Beginning(c)) /\ Pub!Members(c) = {}
        /\ \A i \in 1..Len(E) : E[i].type # "subscribe"
    <3>1. Shape(E, up[c], Pub!Members(c), Pub!Beginning(c))
      BY <1>4 DEF Linked
    <3> QED BY <1>1, <1>2, <3>1, ShapeEnd
  <2>4. Linked(c, E)'
    BY <1>3, <1>5, <2>1, <2>2, <2>3 DEF Linked
  <2>5. Heeds(c, E)'
    BY <1>3, <2>1, <2>3 DEF Heeds
  <2>6. Listeners(c)'
    <3>1. \A j \in 1..Len(Tail(up[c])) : Tail(up[c])[j].type = "publish" => Tail(up[c])[j].by \in Pub!Of(c) \cup {Nobody}
      <4>1. \A j \in 1..Len(Tail(up[c])) : j + 1 \in 1..Len(up[c]) /\ Tail(up[c])[j] = up[c][j + 1]
        BY <1>1, <1>2, Shortened
      <4> QED BY <1>1, <4>1 DEF ClientInv, Listeners
    <3> QED BY <1>1, <1>3, <1>5, <3>1 DEF ClientInv, Listeners, Pub!Of
  <2> QED BY <2>4, <2>5, <2>6 DEF ClientInv
<1> QED BY <1>6, <1>7, <1>8, <1>9 DEF PubInv

(* A client sends the top thread a message. *)
LEMMA ClientPublishes ==
  ASSUME Pub!PubSubAssumption, PubInv, NEW c \in Threads, NEW by \in Subscribers \cup {Nobody}, Pub!Publish(c, by)
  PROVE  PubInv'
<1>0. PICK w : w = [type |-> "publish", id |-> published + 1, by |-> by]
  OBVIOUS
<1>1. PubTypes /\ TopInv /\ ClientInv(c) /\ up[c] \in Seq(Requests) /\ syn[c] \in Seq(Whats) /\ down[c] \in Seq(Replies)
  BY DEF PubInv, PubTypes
<1>2. /\ up' = [up EXCEPT ![c] = Append(@, w)] /\ syn' = [syn EXCEPT ![c] = Append(@, w)]
      /\ UNCHANGED <<references, down, entry, member, status, log, since, heard>> /\ published' = published + 1
      /\ by \in Pub!Of(c) \cup {Nobody}
  BY <1>0 DEF Pub!Publish, Pub!Sends, Pub!Awaits, Pub!clientVars, Pub!history, Pub!Of
<1>3. w \in Whats /\ w \in Requests /\ w.type = "publish" /\ w.by = by /\ published' \in Nat
  BY <1>0, <1>1, <1>2 DEF PubTypes, Whats, Requests
<1>4. /\ up'[c] = Append(up[c], w) /\ Append(up[c], w) \in Seq(Requests)
      /\ syn'[c] = Append(syn[c], w) /\ Append(syn[c], w) \in Seq(Whats)
  BY <1>1, <1>2, <1>3, Appended DEF PubTypes
<1>5. PubTypes'
  BY <1>1, <1>2, <1>3, <1>4 DEF PubTypes, Pub!Of
<1>6. TopInv'
  BY <1>1, <1>2, TopUndisturbed
<1>7. ASSUME NEW q \in Threads \ {c} PROVE ClientInv(q)'
  <2>1. ClientInv(q) /\ up'[q] = up[q] /\ syn'[q] = syn[q]
    BY <1>1, <1>2 DEF PubInv, PubTypes
  <2> QED BY <1>2, <2>1, Undisturbed
<1>8. ClientInv(c)'
  <2>1. PICK E \in Seq(Items) : Linked(c, E) /\ Heeds(c, E)
    BY <1>1 DEF ClientInv
  <2>2. Pub!Members(c)' = Pub!Members(c) /\ Pub!Beginning(c)' = Pub!Beginning(c) /\ Pub!Of(c)' = Pub!Of(c)
    BY <1>2 DEF Pub!Members, Pub!Beginning, Pub!Of
  <2>3. Paired(down[c], Append(up[c], w), Append(syn[c], w), E)
    <3>1. Paired(down[c], up[c], syn[c], E) /\ w.type # "unsubscribe"
      BY <1>3, <2>1 DEF Linked
    <3> QED BY <1>1, <1>3, <3>1, PairedSend
  <2>4. Shape(E, Append(up[c], w), Pub!Members(c), Pub!Beginning(c))
    BY <1>1, <1>3, <2>1, ShapePublish DEF Linked
  <2>5. Linked(c, E)'
    BY <1>2, <1>4, <2>2, <2>3, <2>4 DEF Linked
  <2>6. Heeds(c, E)'
    BY <1>2, <2>1, <2>2 DEF Heeds
  <2>7. Listeners(c)'
    <3>1. \A j \in 1..Len(Append(up[c], w)) :
            Append(up[c], w)[j].type = "publish" => Append(up[c], w)[j].by \in Pub!Of(c) \cup {Nobody}
      <4>1. /\ Len(Append(up[c], w)) = Len(up[c]) + 1 /\ Len(up[c]) \in Nat /\ Append(up[c], w)[Len(up[c]) + 1] = w
            /\ \A j \in 1..Len(up[c]) : Append(up[c], w)[j] = up[c][j]
        BY <1>1, <1>3, Appended, Elements
      <4>2. \A j \in 1..Len(up[c]) : up[c][j].type = "publish" => up[c][j].by \in Pub!Of(c) \cup {Nobody}
        BY <1>1 DEF ClientInv, Listeners
      <4> DEFINE requests == Append(up[c], w)
      <4> HIDE DEF requests
      <4> QED BY <1>2, <1>3, <4>1, <4>2 DEF requests
    <3> QED BY <1>1, <1>2, <1>4, <3>1 DEF ClientInv, Listeners, Pub!Of
  <2> QED BY <2>1, <2>5, <2>6, <2>7 DEF ClientInv
<1> QED BY <1>5, <1>6, <1>7, <1>8 DEF PubInv

(* A client asks the top thread for a subscription. *)
LEMMA ClientSubscribes ==
  ASSUME Pub!PubSubAssumption, PubInv, NEW s \in Subscribers, Pub!Subscribe(s)
  PROVE  PubInv'
<1>0. PICK c : c = Place[s]
  OBVIOUS
<1>00. PICK m, w : m = [type |-> Pub!Request(c), by |-> s] /\ w = [type |-> "subscribe", by |-> s]
  OBVIOUS
<1>1. /\ PubTypes /\ TopInv /\ c \in Threads /\ ClientInv(c) /\ s \in Pub!Of(c)
      /\ up[c] \in Seq(Requests) /\ syn[c] \in Seq(Whats) /\ down[c] \in Seq(Replies)
  BY <1>0 DEF PubInv, PubTypes, Pub!Subscribe, Pub!Of
<1>2. /\ up' = [up EXCEPT ![c] = Append(@, m)] /\ syn' = [syn EXCEPT ![c] = Append(@, w)]
      /\ entry' = entry \cup {c} /\ status[s] = "none" /\ status' = [status EXCEPT ![s] = "subscribing"]
      /\ heard' = [heard EXCEPT ![s] = <<>>] /\ UNCHANGED <<references, down, member, log, since, published>>
      /\ Pub!Members(c) = {} => Pub!Beginning(c) = {}
  BY <1>0, <1>00 DEF Pub!Subscribe, Pub!Sends, Pub!Awaits
<1>3. /\ w \in Whats /\ m \in Requests /\ w.type = "subscribe" /\ w.by = s /\ m.by = s
      /\ m.type = IF Pub!Members(c) = {} THEN "subscribe" ELSE "syn"
  BY <1>00 DEF Pub!Request, Whats, Requests
<1>4. /\ up'[c] = Append(up[c], m) /\ Append(up[c], m) \in Seq(Requests)
      /\ syn'[c] = Append(syn[c], w) /\ Append(syn[c], w) \in Seq(Whats)
  BY <1>1, <1>2, <1>3, Appended DEF PubTypes
<1>5. /\ status'[s] = "subscribing" /\ heard'[s] = <<>> /\ <<>> \in Seq(Nat)
      /\ \A t \in Subscribers \ {s} : status'[t] = status[t] /\ heard'[t] = heard[t]
  BY <1>1, <1>2 DEF PubTypes
<1>6. PubTypes'
  BY <1>1, <1>2, <1>4, <1>5 DEF PubTypes, Pub!Of
<1>7. TopInv'
  <2>1. \A t \in Pub!Of(Top) : status'[t] = status[t] /\ heard'[t] = heard[t]
    BY <1>1, <1>5, Places
  <2> QED BY <1>1, <1>2, <2>1, TopUndisturbed
<1>8. ASSUME NEW q \in Threads \ {c} PROVE ClientInv(q)'
  <2>1. ClientInv(q) /\ up'[q] = up[q] /\ syn'[q] = syn[q] /\ (q \in entry' <=> q \in entry)
    BY <1>1, <1>2 DEF PubInv, PubTypes
  <2>2. \A t \in Pub!Of(q) : status'[t] = status[t] /\ heard'[t] = heard[t]
    BY <1>1, <1>5, Places
  <2> QED BY <1>2, <2>1, <2>2, Undisturbed
<1>9. ClientInv(c)'
  <2>1. PICK E \in Seq(Items) : Linked(c, E) /\ Heeds(c, E)
    BY <1>1 DEF ClientInv
  <2>2. s \notin Pub!Members(c) /\ s \notin Pub!Beginning(c)
    BY <1>1, <1>2 DEF Pub!Members, Pub!Beginning, ClientInv, Listeners
  <2>3. /\ Pub!Members(c)' = Pub!Members(c) /\ Pub!Beginning(c)' = Pub!Beginning(c) \cup {s} /\ Pub!Of(c)' = Pub!Of(c)
        /\ Pub!Members(c) \subseteq Subscribers
    BY <1>1, <1>2, <1>5 DEF Pub!Members, Pub!Beginning, Pub!Of
  <2>4. Paired(down[c], Append(up[c], m), Append(syn[c], w), E)
    <3>1. Paired(down[c], up[c], syn[c], E) /\ m.type # "unsubscribe" /\ m.type # "publish" /\ w.by = m.by
      BY <1>3, <2>1 DEF Linked
    <3> QED BY <1>1, <1>3, <3>1, PairedSend
  <2>5. Shape(E, Append(up[c], m), Pub!Members(c), Pub!Beginning(c) \cup {s})
    <3>1. m.by \notin Pub!Beginning(c) /\ Shape(E, up[c], Pub!Members(c), Pub!Beginning(c))
      BY <1>3, <2>1, <2>2 DEF Linked
    <3>2. Shape(E, Append(up[c], m), Pub!Members(c), Pub!Beginning(c) \cup {m.by})
      BY <1>1, <1>2, <1>3, <3>1, ShapeSubscribe
    <3> QED BY <1>3, <3>2
  <2>6. Linked(c, E)'
    BY <1>2, <1>4, <2>3, <2>4, <2>5 DEF Linked
  <2>7. c \in references => Follows(E, log, Pub!Members(c), since, heard', Pub!Of(c))
    <3> SUFFICES ASSUME c \in references PROVE Follows(E, log, Pub!Members(c), since, heard', Pub!Of(c))
      OBVIOUS
    <3>1. Follows(E, log, Pub!Members(c), since, heard, Pub!Of(c)) /\ Pub!Members(c) \in SUBSET Pub!Members(c)
      BY <2>1 DEF Heeds
    <3>2. SameOf(Pub!Members(c), since, heard, since, heard') /\ SameIn(E, since, since)
      BY <1>5, <2>2, <2>3 DEF SameOf, SameIn
    <3> QED BY <3>1, <3>2, FollowsLess
  <2>8. Heeds(c, E)'
    BY <1>2, <2>1, <2>3, <2>7 DEF Heeds
  <2>9. Listeners(c)'
    <3>1. \A j \in 1..Len(Append(up[c], m)) :
            Append(up[c], m)[j].type = "publish" => Append(up[c], m)[j].by \in Pub!Of(c) \cup {Nobody}
      <4>1. /\ Len(Append(up[c], m)) = Len(up[c]) + 1 /\ Len(up[c]) \in Nat /\ Append(up[c], m)[Len(up[c]) + 1] = m
            /\ \A j \in 1..Len(up[c]) : Append(up[c], m)[j] = up[c][j]
        BY <1>1, <1>3, Appended, Elements
      <4>2. \A j \in 1..Len(up[c]) : up[c][j].type = "publish" => up[c][j].by \in Pub!Of(c) \cup {Nobody}
        BY <1>1 DEF ClientInv, Listeners
      <4> DEFINE requests == Append(up[c], m)
      <4> HIDE DEF requests
      <4> QED BY <1>3, <4>1, <4>2 DEF requests
    <3>2. \A t \in Pub!Of(c) : /\ t \in member' <=> status'[t] = "active"
                               /\ status'[t] # "none" => c \in entry'
                               /\ status'[t] = "subscribing" => heard'[t] = <<>>
      <4>1. ASSUME NEW t \in Pub!Of(c), t # s
            PROVE  /\ t \in member' <=> status'[t] = "active"
                   /\ status'[t] = "subscribing" => heard'[t] = <<>>
        <5>1. t \in Subscribers
          BY DEF Pub!Of
        <5> QED BY <1>1, <1>2, <1>5, <4>1, <5>1 DEF ClientInv, Listeners
      <4>2. s \notin member'
        BY <1>1, <1>2, <2>2 DEF Pub!Members
      <4> QED BY <1>2, <1>5, <4>1, <4>2
    <3> QED BY <1>4, <2>3, <3>1, <3>2 DEF Listeners
  <2> QED BY <2>1, <2>6, <2>8, <2>9 DEF ClientInv
<1> QED BY <1>6, <1>7, <1>8, <1>9 DEF PubInv

(* A client ends a subscription, and tells the top thread when it was the last. *)
LEMMA ClientUnsubscribes ==
  ASSUME Pub!PubSubAssumption, PubInv, NEW s \in Subscribers, Pub!Unsubscribe(s)
  PROVE  PubInv'
<1>0. PICK c : c = Place[s]
  OBVIOUS
<1>00. PICK m : m = [type |-> "unsubscribe"]
  OBVIOUS
<1>1. /\ PubTypes /\ TopInv /\ c \in Threads /\ ClientInv(c) /\ s \in Pub!Of(c)
      /\ up[c] \in Seq(Requests) /\ syn[c] \in Seq(Whats) /\ down[c] \in Seq(Replies)
  BY <1>0 DEF PubInv, PubTypes, Pub!Unsubscribe, Pub!Of
<1>2. /\ status[s] = "active" /\ member' = member \ {s} /\ status' = [status EXCEPT ![s] = "none"]
      /\ Pub!Members(c) = {s} => /\ Pub!Beginning(c) = {} /\ entry' = entry \ {c}
                                 /\ up' = [up EXCEPT ![c] = Append(@, m)]
      /\ Pub!Members(c) # {s} => UNCHANGED <<entry, up>>
      /\ UNCHANGED <<references, down, syn, log, since, heard, published>>
  BY <1>0, <1>00 DEF Pub!Unsubscribe, Pub!Sends, Pub!IsLast, Pub!history, Pub!bounds
<1>3. m \in Requests /\ m.type = "unsubscribe"
  BY <1>00 DEF Requests
<1>4. s \in Pub!Members(c) /\ Pub!Members(c) \in SUBSET Subscribers
  BY <1>1, <1>2 DEF Pub!Members, Pub!Of, ClientInv, Listeners
<1>5. /\ Append(up[c], m) \in Seq(Requests)
      /\ up'[c] = IF Pub!Members(c) = {s} THEN Append(up[c], m) ELSE up[c]
      /\ \A q \in Threads \ {c} : up'[q] = up[q] /\ (q \in entry' <=> q \in entry)
  BY <1>1, <1>2, <1>3, Appended DEF PubTypes
<1>6. status'[s] = "none" /\ \A t \in Subscribers \ {s} : status'[t] = status[t]
  BY <1>1, <1>2 DEF PubTypes
<1>7. PubTypes'
  <2>1. up' \in [Threads -> Seq(Requests)] /\ entry' \in SUBSET Threads
    <3>1. up \in [Threads -> Seq(Requests)] /\ entry \in SUBSET Threads
      BY <1>1 DEF PubTypes
    <3>2. CASE Pub!Members(c) = {s}
      BY <1>2, <1>5, <3>1, <3>2
    <3>3. CASE Pub!Members(c) # {s}
      BY <1>2, <3>1, <3>3
    <3> QED BY <3>2, <3>3
  <2> QED BY <1>1, <1>2, <1>6, <2>1 DEF PubTypes, Pub!Of
<1>8. TopInv'
  <2>1. \A t \in Pub!Of(Top) : status'[t] = status[t] /\ (t \in member' <=> t \in member)
    BY <1>1, <1>2, <1>6, Places
  <2> QED BY <1>1, <1>2, <2>1, TopUndisturbed
<1>9. ASSUME NEW q \in Threads \ {c} PROVE ClientInv(q)'
  <2>1. ClientInv(q)
    BY DEF PubInv
  <2>2. \A t \in Pub!Of(q) : status'[t] = status[t] /\ (t \in member' <=> t \in member)
    BY <1>1, <1>2, <1>6, Places
  <2> QED BY <1>2, <1>5, <2>1, <2>2, Undisturbed
<1>10. ClientInv(c)'
  <2>1. PICK E \in Seq(Items) : Linked(c, E) /\ Heeds(c, E)
    BY <1>1 DEF ClientInv
  <2>2. /\ Pub!Members(c)' = Pub!Members(c) \ {s} /\ Pub!Beginning(c)' = Pub!Beginning(c) /\ Pub!Of(c)' = Pub!Of(c)
    BY <1>1, <1>2, <1>6 DEF Pub!Members, Pub!Beginning, Pub!Of
  <2>3. Linked(c, E)'
    <3>1. CASE Pub!Members(c) = {s}
      <4>1. Paired(down[c], Append(up[c], m), syn[c], E)
        <5>1. Paired(down[c], up[c], syn[c], E)
          BY <2>1 DEF Linked
        <5> QED BY <1>1, <1>3, <5>1, PairedSendEnd
      <4>2. Shape(E, Append(up[c], m), {}, {})
        <5>1. Shape(E, up[c], Pub!Members(c), {}) /\ Pub!Members(c) # {}
          BY <1>2, <2>1, <3>1 DEF Linked
        <5> QED BY <1>1, <1>3, <5>1, ShapeUnsubscribe
      <4> QED BY <1>2, <1>5, <2>2, <3>1, <4>1, <4>2 DEF Linked
    <3>2. CASE Pub!Members(c) # {s}
      <4>1. Shape(E, up[c], Pub!Members(c) \ {s}, Pub!Beginning(c))
        <5>1. Shape(E, up[c], Pub!Members(c), Pub!Beginning(c)) /\ Pub!Members(c) \ {s} # {} /\ Pub!Members(c) # {}
          BY <1>4, <2>1, <3>2 DEF Linked
        <5> QED BY <5>1, ShapeLess
      <4> QED BY <1>2, <1>5, <2>1, <2>2, <3>2, <4>1 DEF Linked
    <3> QED BY <3>1, <3>2
  <2>4. c \in references => Follows(E, log, Pub!Members(c) \ {s}, since, heard, Pub!Of(c))
    <3> SUFFICES ASSUME c \in references PROVE Follows(E, log, Pub!Members(c) \ {s}, since, heard, Pub!Of(c))
      OBVIOUS
    <3>1. Follows(E, log, Pub!Members(c), since, heard, Pub!Of(c)) /\ Pub!Members(c) \ {s} \in SUBSET Pub!Members(c)
      BY <2>1 DEF Heeds
    <3>2. SameOf(Pub!Members(c) \ {s}, since, heard, since, heard) /\ SameIn(E, since, since)
      BY DEF SameOf, SameIn
    <3> QED BY <3>1, <3>2, FollowsLess
  <2>5. Heeds(c, E)'
    BY <1>2, <2>1, <2>2, <2>4 DEF Heeds
  <2>6. Listeners(c)'
    <3>1. \A j \in 1..Len(up'[c]) : up'[c][j].type = "publish" => up'[c][j].by \in Pub!Of(c) \cup {Nobody}
      <4>1. /\ Len(Append(up[c], m)) = Len(up[c]) + 1 /\ Len(up[c]) \in Nat /\ Append(up[c], m)[Len(up[c]) + 1] = m
            /\ \A j \in 1..Len(up[c]) : Append(up[c], m)[j] = up[c][j]
        BY <1>1, <1>3, Appended, Elements
      <4>2. \A j \in 1..Len(up[c]) : up[c][j].type = "publish" => up[c][j].by \in Pub!Of(c) \cup {Nobody}
        BY <1>1 DEF ClientInv, Listeners
      <4> DEFINE requests == Append(up[c], m)
      <4> HIDE DEF requests
      <4>3. \A j \in 1..Len(requests) : requests[j].type = "publish" => requests[j].by \in Pub!Of(c) \cup {Nobody}
        BY <1>3, <4>1, <4>2 DEF requests
      <4> QED BY <1>5, <4>2, <4>3 DEF requests
    <3>2. \A t \in Pub!Of(c) : /\ t \in member' <=> status'[t] = "active"
                               /\ status'[t] # "none" => c \in entry'
                               /\ status'[t] = "subscribing" => heard'[t] = <<>>
      <4>1. ASSUME NEW t \in Pub!Of(c), t # s
            PROVE  /\ t \in member' <=> status'[t] = "active"
                   /\ status'[t] # "none" => c \in entry'
                   /\ status'[t] = "subscribing" => heard'[t] = <<>>
        <5>1. t \in Subscribers /\ status'[t] = status[t] /\ status[t] \in {"none", "subscribing", "active"}
          BY <1>1, <1>6, <4>1 DEF Pub!Of, PubTypes
        <5>2. (t \in member <=> status[t] = "active") /\ (status[t] # "none" => c \in entry)
              /\ (status[t] = "subscribing" => heard[t] = <<>>)
          BY <1>1 DEF ClientInv, Listeners
        <5>3. Pub!Members(c) = {s} => status[t] = "none"
          BY <1>2, <4>1, <5>1, <5>2 DEF Pub!Members, Pub!Beginning
        <5> QED BY <1>2, <4>1, <5>1, <5>2, <5>3
      <4>2. s \notin member'
        BY <1>2
      <4> QED BY <1>6, <4>1, <4>2
    <3> QED BY <2>2, <3>1, <3>2 DEF Listeners
  <2> QED BY <2>1, <2>3, <2>5, <2>6 DEF ClientInv
<1> QED BY <1>7, <1>8, <1>9, <1>10 DEF PubInv

(* A client hears a message of another. *)
LEMMA ClientHearsMessage ==
  ASSUME Pub!PubSubAssumption, PubInv, NEW c \in Threads, Pub!HearPublish(c)
  PROVE  PubInv'
<1>0. PICK r : r = down[c][1]
  OBVIOUS
<1>1. /\ PubTypes /\ TopInv /\ ClientInv(c) /\ up[c] \in Seq(Requests) /\ syn[c] \in Seq(Whats)
      /\ down[c] \in Seq(Replies) /\ down[c] # <<>>
  BY DEF PubInv, PubTypes, Pub!HearPublish, Pub!Delivered
<1>2. Head(down[c]) = r /\ r \in Replies /\ r.type = "publish"
  BY <1>0, <1>1, Shortened, Elements DEF Pub!HearPublish, Pub!Delivered
<1>3. /\ down' = [down EXCEPT ![c] = Tail(@)]
      /\ heard' = [s \in Subscribers |-> IF s \in (IF c \in entry THEN Pub!Members(c) ELSE {}) THEN Append(heard[s], r.id)
                                         ELSE heard[s]]
      /\ UNCHANGED <<references, up, syn, entry, member, status, log, since, published>>
  BY <1>2 DEF Pub!HearPublish, Pub!Delivered, Pub!Hear, Pub!clientVars, Pub!bounds
<1>4. down'[c] = Tail(down[c]) /\ Tail(down[c]) \in Seq(Replies)
  BY <1>1, <1>3, Shortened DEF PubTypes
<1>5. /\ Pub!Members(c) \subseteq Pub!Of(c) /\ Pub!Members(c) \subseteq Subscribers
      /\ Pub!Members(c) # {} => c \in entry
      /\ Pub!Beginning(c) \cap Pub!Members(c) = {}
  BY <1>1 DEF Pub!Members, Pub!Of, Pub!Beginning, ClientInv, Listeners
<1>6. \A s \in Subscribers : heard'[s] = IF s \in Pub!Members(c) THEN Append(heard[s], r.id) ELSE heard[s]
  BY <1>3, <1>5
<1>7. PubTypes'
  <2>1. r.id \in Nat
    BY <1>2 DEF Replies
  <2>2. \A s \in Subscribers : Append(heard[s], r.id) \in Seq(Nat) /\ heard[s] \in Seq(Nat)
    BY <1>1, <2>1, Appended DEF PubTypes
  <2>3. heard' \in [Subscribers -> Seq(Nat)]
    BY <1>3, <2>2
  <2> QED BY <1>1, <1>3, <1>4, <2>3 DEF PubTypes, Pub!Of
<1>8. TopInv'
  <2>1. \A s \in Pub!Of(Top) : heard'[s] = heard[s]
    BY <1>5, <1>6, Places
  <2> QED BY <1>1, <1>3, <2>1, TopUndisturbed
<1>9. ASSUME NEW q \in Threads \ {c} PROVE ClientInv(q)'
  <2>1. ClientInv(q) /\ down'[q] = down[q]
    BY <1>1, <1>3 DEF PubInv, PubTypes
  <2>2. \A s \in Pub!Of(q) : heard'[s] = heard[s]
    BY <1>5, <1>6, Places
  <2> QED BY <1>3, <2>1, <2>2, Undisturbed
<1>10. ClientInv(c)'
  <2>1. PICK E \in Seq(Items) : Linked(c, E) /\ Heeds(c, E)
    BY <1>1 DEF ClientInv
  <2>2. /\ Pub!Members(c)' = Pub!Members(c) /\ Pub!Beginning(c)' = Pub!Beginning(c) /\ Pub!Of(c)' = Pub!Of(c)
    BY <1>3 DEF Pub!Members, Pub!Beginning, Pub!Of
  <2>3. E # <<>> /\ E[1].type = "forward" /\ E[1].id = r.id /\ Paired(Tail(down[c]), up[c], syn[c], Tail(E))
    <3>1. Paired(down[c], up[c], syn[c], E) /\ down[c][1].type = "publish"
      BY <1>0, <1>2, <2>1 DEF Linked
    <3>2. E # <<>> /\ E[1].type = "forward" /\ E[1].id = down[c][1].id /\ Paired(Tail(down[c]), up[c], syn[c], Tail(E))
      BY <1>1, <3>1, PairedHear
    <3> QED BY <1>0, <3>2
  <2>4. Shape(Tail(E), up[c], Pub!Members(c), Pub!Beginning(c))
    <3>1. Shape(E, up[c], Pub!Members(c), Pub!Beginning(c)) /\ E[1].type # "subscribe"
      BY <2>1, <2>3 DEF Linked
    <3> QED BY <1>1, <2>3, <3>1, ShapeHear
  <2>5. Linked(c, Tail(E))'
    BY <1>3, <1>4, <2>2, <2>3, <2>4 DEF Linked
  <2>6. c \in references => Follows(Tail(E), log, Pub!Members(c), since, heard', Pub!Of(c))
    <3> SUFFICES ASSUME c \in references PROVE Follows(Tail(E), log, Pub!Members(c), since, heard', Pub!Of(c))
      OBVIOUS
    <3>1. /\ Follows(E, log, Pub!Members(c), since, heard, Pub!Of(c)) /\ E[1].type # "subscribe"
          /\ log \in Seq(Spoken) /\ since \in Begins
      BY <1>1, <2>1, <2>3 DEF Heeds, PubTypes
    <3>2. \A s \in Pub!Members(c) :
            heard'[s] = IF E[1].type = "publish" /\ s = E[1].by THEN heard[s] ELSE Append(heard[s], E[1].id)
      BY <1>5, <1>6, <2>3
    <3> QED BY <1>5, <2>3, <3>1, <3>2, FollowsHearing
  <2>7. (\E i \in 1..Len(Tail(E)) : Tail(E)[i].type = "subscribe") => c \in references
    <3>1. \A i \in 1..Len(Tail(E)) : i + 1 \in 1..Len(E) /\ Tail(E)[i] = E[i + 1]
      <4>1. Len(E) \in Nat
        BY Elements
      <4> QED BY <2>3, <4>1, Shortened
    <3> QED BY <2>1, <3>1 DEF Heeds
  <2>8. Heeds(c, Tail(E))'
    BY <1>3, <2>1, <2>2, <2>6, <2>7 DEF Heeds
  <2>9. Listeners(c)'
    <3>1. \A t \in Pub!Of(c) : status[t] = "subscribing" => heard'[t] = <<>>
      <4>1. \A t \in Pub!Of(c) : status[t] = "subscribing" => t \in Subscribers /\ t \notin Pub!Members(c) /\ heard[t] = <<>>
        BY <1>1 DEF ClientInv, Listeners, Pub!Of, Pub!Members
      <4> QED BY <1>6, <4>1
    <3> QED BY <1>1, <1>3, <2>2, <3>1 DEF ClientInv, Listeners
  <2>10. Tail(E) \in Seq(Items)
    BY <2>3, Shortened
  <2> QED BY <2>5, <2>8, <2>9, <2>10 DEF ClientInv
<1> QED BY <1>7, <1>8, <1>9, <1>10 DEF PubInv

(* What a client's first acknowledgement is for: the oldest request that *)
(* awaits one, which is the first item on its way.                       *)
LEMMA Acknowledged ==
  ASSUME PubInv, NEW c \in Threads, Pub!HearAck(c), NEW E \in Seq(Items), Linked(c, E), NEW what, what = syn[c][1]
  PROVE  /\ E # <<>> /\ E[1] = what /\ what \in Whats /\ Head(syn[c]) = what
         /\ down'[c] = Tail(down[c]) /\ Tail(down[c]) \in Seq(Replies)
         /\ syn'[c] = Tail(syn[c]) /\ Tail(syn[c]) \in Seq(Whats)
         /\ Paired(Tail(down[c]), up[c], Tail(syn[c]), Tail(E)) /\ Tail(E) \in Seq(Items)
         /\ \A i \in 1..Len(Tail(E)) : i + 1 \in 1..Len(E) /\ Tail(E)[i] = E[i + 1]
<1>1. /\ PubTypes /\ up[c] \in Seq(Requests) /\ syn[c] \in Seq(Whats) /\ down[c] \in Seq(Replies)
      /\ down[c] # <<>> /\ Head(down[c]).type = "ack"
      /\ down' = [down EXCEPT ![c] = Tail(@)] /\ syn' = [syn EXCEPT ![c] = Tail(@)]
  BY DEF PubInv, PubTypes, Pub!HearAck, Pub!Delivered
<1>2. Paired(down[c], up[c], syn[c], E) /\ down[c][1].type = "ack"
  BY <1>1, Shortened DEF Linked
<1>3. /\ E # <<>> /\ syn[c] # <<>> /\ E[1] = syn[c][1]
      /\ Paired(Tail(down[c]), up[c], Tail(syn[c]), Tail(E))
  BY <1>1, <1>2, PairedAck
<1>4. Head(syn[c]) = what /\ what \in Whats /\ Tail(syn[c]) \in Seq(Whats) /\ Tail(down[c]) \in Seq(Replies)
  BY <1>1, <1>3, Shortened, Elements
<1>5. Tail(E) \in Seq(Items) /\ \A i \in 1..Len(Tail(E)) : i + 1 \in 1..Len(E) /\ Tail(E)[i] = E[i + 1]
  <2>1. Len(E) \in Nat
    BY Elements
  <2> QED BY <1>3, <2>1, Shortened
<1> QED BY <1>1, <1>3, <1>4, <1>5 DEF PubTypes

(* A client hears that a message of its own has been handled, and forwards it. *)
LEMMA ClientForwards ==
  ASSUME Pub!PubSubAssumption, PubInv, NEW c \in Threads, Pub!HearAck(c), syn[c][1].type = "publish"
  PROVE  PubInv'
<1>0. PICK what : what = syn[c][1]
  OBVIOUS
<1>1. PubTypes /\ TopInv /\ ClientInv(c) /\ up[c] \in Seq(Requests)
  BY DEF PubInv, PubTypes
<1>2. PICK E \in Seq(Items) : Linked(c, E) /\ Heeds(c, E)
  BY <1>1 DEF ClientInv
<1>3. /\ E # <<>> /\ E[1] = what /\ what \in Whats /\ Head(syn[c]) = what
      /\ down'[c] = Tail(down[c]) /\ Tail(down[c]) \in Seq(Replies)
      /\ syn'[c] = Tail(syn[c]) /\ Tail(syn[c]) \in Seq(Whats)
      /\ Paired(Tail(down[c]), up[c], Tail(syn[c]), Tail(E)) /\ Tail(E) \in Seq(Items)
      /\ \A i \in 1..Len(Tail(E)) : i + 1 \in 1..Len(E) /\ Tail(E)[i] = E[i + 1]
  BY <1>0, <1>2, Acknowledged
<1>4. /\ down' = [down EXCEPT ![c] = Tail(@)] /\ syn' = [syn EXCEPT ![c] = Tail(@)]
      /\ heard' = [s \in Subscribers |-> IF s \in (IF c \in entry THEN Pub!Members(c) \ {what.by} ELSE {})
                                         THEN Append(heard[s], what.id) ELSE heard[s]]
      /\ UNCHANGED <<references, up, entry, member, status, log, since, published>>
  BY <1>0, <1>3 DEF Pub!HearAck, Pub!Delivered, Pub!Hear, Pub!Local, Pub!bounds
<1>5. /\ Pub!Members(c) \subseteq Pub!Of(c) /\ Pub!Members(c) \subseteq Subscribers
      /\ Pub!Members(c) # {} => c \in entry
  BY <1>1 DEF Pub!Members, Pub!Of, ClientInv, Listeners
<1>6. \A s \in Subscribers :
        heard'[s] = IF s \in Pub!Members(c) /\ s # what.by THEN Append(heard[s], what.id) ELSE heard[s]
  BY <1>4, <1>5
<1>7. PubTypes'
  <2>1. what.id \in Nat
    BY <1>0, <1>3 DEF Whats
  <2>2. \A s \in Subscribers : Append(heard[s], what.id) \in Seq(Nat) /\ heard[s] \in Seq(Nat)
    BY <1>1, <2>1, Appended DEF PubTypes
  <2>3. heard' \in [Subscribers -> Seq(Nat)]
    BY <1>4, <2>2
  <2> QED BY <1>1, <1>3, <1>4, <2>3 DEF PubTypes, Pub!Of
<1>8. TopInv'
  <2>1. \A s \in Pub!Of(Top) : heard'[s] = heard[s]
    BY <1>5, <1>6, Places
  <2> QED BY <1>1, <1>4, <2>1, TopUndisturbed
<1>9. ASSUME NEW q \in Threads \ {c} PROVE ClientInv(q)'
  <2>1. ClientInv(q) /\ down'[q] = down[q] /\ syn'[q] = syn[q]
    BY <1>1, <1>4 DEF PubInv, PubTypes
  <2>2. \A s \in Pub!Of(q) : heard'[s] = heard[s]
    BY <1>5, <1>6, Places
  <2> QED BY <1>4, <2>1, <2>2, Undisturbed
<1>10. ClientInv(c)'
  <2>1. /\ Pub!Members(c)' = Pub!Members(c) /\ Pub!Beginning(c)' = Pub!Beginning(c) /\ Pub!Of(c)' = Pub!Of(c)
    BY <1>4 DEF Pub!Members, Pub!Beginning, Pub!Of
  <2>2. Shape(Tail(E), up[c], Pub!Members(c), Pub!Beginning(c))
    <3>1. Shape(E, up[c], Pub!Members(c), Pub!Beginning(c)) /\ E[1].type # "subscribe"
      BY <1>0, <1>2, <1>3 DEF Linked
    <3> QED BY <1>1, <1>3, <3>1, ShapeHear
  <2>3. Linked(c, Tail(E))'
    BY <1>3, <1>4, <2>1, <2>2 DEF Linked
  <2>4. c \in references => Follows(Tail(E), log, Pub!Members(c), since, heard', Pub!Of(c))
    <3> SUFFICES ASSUME c \in references PROVE Follows(Tail(E), log, Pub!Members(c), since, heard', Pub!Of(c))
      OBVIOUS
    <3>1. /\ Follows(E, log, Pub!Members(c), since, heard, Pub!Of(c)) /\ E[1].type # "subscribe" /\ E[1].type = "publish"
          /\ log \in Seq(Spoken) /\ since \in Begins
      BY <1>0, <1>1, <1>2, <1>3 DEF Heeds, PubTypes
    <3>2. \A s \in Pub!Members(c) :
            heard'[s] = IF E[1].type = "publish" /\ s = E[1].by THEN heard[s] ELSE Append(heard[s], E[1].id)
      BY <1>3, <1>5, <1>6, <3>1
    <3> QED BY <1>3, <1>5, <3>1, <3>2, FollowsHearing
  <2>5. Heeds(c, Tail(E))'
    BY <1>2, <1>3, <1>4, <2>1, <2>4 DEF Heeds
  <2>6. Listeners(c)'
    <3>1. \A t \in Pub!Of(c) : status[t] = "subscribing" => heard'[t] = <<>>
      <4>1. \A t \in Pub!Of(c) : status[t] = "subscribing" => t \in Subscribers /\ t \notin Pub!Members(c) /\ heard[t] = <<>>
        BY <1>1 DEF ClientInv, Listeners, Pub!Of, Pub!Members
      <4> QED BY <1>6, <4>1
    <3> QED BY <1>1, <1>4, <2>1, <3>1 DEF ClientInv, Listeners
  <2> QED BY <1>3, <2>3, <2>5, <2>6 DEF ClientInv
<1> QED BY <1>7, <1>8, <1>9, <1>10 DEF PubInv

(* A client hears that a subscription has begun: its listener joins the others. *)
LEMMA ClientJoins ==
  ASSUME Pub!PubSubAssumption, PubInv, NEW c \in Threads, Pub!HearAck(c), syn[c][1].type = "subscribe"
  PROVE  PubInv'
<1>0. PICK what : what = syn[c][1]
  OBVIOUS
<1>00. PICK s : s = what.by
  OBVIOUS
<1>1. PubTypes /\ TopInv /\ ClientInv(c) /\ up[c] \in Seq(Requests)
  BY DEF PubInv, PubTypes
<1>2. PICK E \in Seq(Items) : Linked(c, E) /\ Heeds(c, E)
  BY <1>1 DEF ClientInv
<1>3. /\ E # <<>> /\ E[1] = what /\ what \in Whats /\ Head(syn[c]) = what
      /\ down'[c] = Tail(down[c]) /\ Tail(down[c]) \in Seq(Replies)
      /\ syn'[c] = Tail(syn[c]) /\ Tail(syn[c]) \in Seq(Whats)
      /\ Paired(Tail(down[c]), up[c], Tail(syn[c]), Tail(E)) /\ Tail(E) \in Seq(Items)
      /\ \A i \in 1..Len(Tail(E)) : i + 1 \in 1..Len(E) /\ Tail(E)[i] = E[i + 1]
  BY <1>0, <1>2, Acknowledged
<1>4. /\ down' = [down EXCEPT ![c] = Tail(@)] /\ syn' = [syn EXCEPT ![c] = Tail(@)]
      /\ member' = member \cup {s} /\ status' = [status EXCEPT ![s] = "active"]
      /\ UNCHANGED <<references, up, entry, log, since, heard, published>>
  BY <1>0, <1>00, <1>3 DEF Pub!HearAck, Pub!Delivered, Pub!bounds
<1>5. /\ s \in Pub!Beginning(c) /\ s \in Pub!Of(c) /\ s \in Subscribers /\ status[s] = "subscribing"
      /\ heard[s] = <<>> /\ c \in references
  <2>1. Len(E) \in Nat /\ 1 \in 1..Len(E) /\ E[1].type = "subscribe"
    <3>1. Len(E) \in Nat /\ Len(E) > 0
      BY <1>3, Elements, Shortened
    <3> QED BY <1>0, <1>3, <3>1
  <2>2. s \in Pub!Beginning(c) /\ c \in references
    BY <1>00, <1>2, <1>3, <2>1 DEF Linked, Shape, Heeds
  <2> QED BY <1>1, <2>2 DEF Pub!Beginning, Pub!Of, ClientInv, Listeners
<1>6. status'[s] = "active" /\ \A t \in Subscribers \ {s} : status'[t] = status[t]
  BY <1>1, <1>4, <1>5 DEF PubTypes
<1>7. PubTypes'
  BY <1>1, <1>3, <1>4, <1>5, <1>6 DEF PubTypes, Pub!Of
<1>8. TopInv'
  <2>1. \A t \in Pub!Of(Top) : status'[t] = status[t] /\ (t \in member' <=> t \in member)
    BY <1>4, <1>5, <1>6, Places
  <2> QED BY <1>1, <1>4, <2>1, TopUndisturbed
<1>9. ASSUME NEW q \in Threads \ {c} PROVE ClientInv(q)'
  <2>1. ClientInv(q) /\ down'[q] = down[q] /\ syn'[q] = syn[q]
    BY <1>1, <1>4 DEF PubInv, PubTypes
  <2>2. \A t \in Pub!Of(q) : status'[t] = status[t] /\ (t \in member' <=> t \in member)
    BY <1>4, <1>5, <1>6, Places
  <2> QED BY <1>4, <2>1, <2>2, Undisturbed
<1>10. ClientInv(c)'
  <2>1. /\ Pub!Members(c)' = Pub!Members(c) \cup {s} /\ Pub!Beginning(c)' = Pub!Beginning(c) \ {s}
        /\ Pub!Of(c)' = Pub!Of(c) /\ Pub!Members(c) \subseteq Subscribers
    BY <1>4, <1>5, <1>6 DEF Pub!Members, Pub!Beginning, Pub!Of
  <2>2. Shape(Tail(E), up[c], Pub!Members(c) \cup {s}, Pub!Beginning(c) \ {s})
    <3>1. Shape(E, up[c], Pub!Members(c), Pub!Beginning(c)) /\ E[1].type = "subscribe" /\ E[1].by = s
      BY <1>0, <1>00, <1>2, <1>3 DEF Linked
    <3>2. Shape(Tail(E), up[c], Pub!Members(c) \cup {E[1].by}, Pub!Beginning(c) \ {E[1].by})
      BY <1>1, <1>3, <3>1, ShapeJoin
    <3> QED BY <3>1, <3>2
  <2>3. Linked(c, Tail(E))'
    BY <1>3, <1>4, <2>1, <2>2 DEF Linked
  <2>4. Follows(Tail(E), log, Pub!Members(c) \cup {s}, since, heard, Pub!Of(c))
    <3>1. /\ Follows(E, log, Pub!Members(c), since, heard, Pub!Of(c)) /\ E[1].type = "subscribe" /\ E[1].by = s
          /\ log \in Seq(Spoken) /\ since \in Begins
      BY <1>0, <1>00, <1>1, <1>2, <1>3, <1>5 DEF Heeds, PubTypes
    <3>2. E[1].by \in Subscribers /\ heard[E[1].by] = <<>>
      BY <1>5, <3>1
    <3>3. Follows(Tail(E), log, Pub!Members(c) \cup {E[1].by}, since, heard, Pub!Of(c))
      BY <1>3, <2>1, <3>1, <3>2, FollowsJoining
    <3> QED BY <3>1, <3>3
  <2>5. Heeds(c, Tail(E))'
    BY <1>4, <1>5, <2>1, <2>4 DEF Heeds
  <2>6. Listeners(c)'
    <3>1. \A t \in Pub!Of(c) : /\ t \in member' <=> status'[t] = "active"
                               /\ status'[t] # "none" => c \in entry
                               /\ status'[t] = "subscribing" => heard[t] = <<>>
      <4>1. ASSUME NEW t \in Pub!Of(c), t # s
            PROVE  /\ t \in member' <=> status'[t] = "active"
                   /\ status'[t] # "none" => c \in entry
                   /\ status'[t] = "subscribing" => heard[t] = <<>>
        <5>1. t \in Subscribers
          BY DEF Pub!Of
        <5> QED BY <1>1, <1>4, <1>6, <4>1, <5>1 DEF ClientInv, Listeners
      <4>2. c \in entry
        BY <1>1, <1>5 DEF ClientInv, Listeners
      <4> QED BY <1>4, <1>6, <4>1, <4>2
    <3>2. \A j \in 1..Len(up[c]) : up[c][j].type = "publish" => up[c][j].by \in Pub!Of(c) \cup {Nobody}
      BY <1>1 DEF ClientInv, Listeners
    <3> QED BY <1>4, <2>1, <3>1, <3>2 DEF Listeners
  <2> QED BY <1>3, <2>3, <2>5, <2>6 DEF ClientInv
<1> QED BY <1>7, <1>8, <1>9, <1>10 DEF PubInv

(* nothing is on its way in the beginning *)
LEMMA NothingPaired == Paired(<<>>, <<>>, <<>>, <<>>)
<1> DEFINE none == [i \in 0..0 |-> 0]
<1>1. Len(<<>>) = 0
  OBVIOUS
<1>2. none \in [0..0 -> Nat] /\ none[0] = 0 /\ Ascending(none, 0)
  BY DEF Ascending
<1> HIDE DEF none
<1>3. AcksFit(none, <<>>, <<>>, <<>>) /\ AsksFit(none, <<>>, <<>>, 0)
  BY <1>1, <1>2 DEF AcksFit, AsksFit
<1>4. Acked(<<>>, <<>>, <<>>, 0) /\ Awaits(<<>>, <<>>, 0)
  BY <1>1, <1>2, <1>3 DEF Acked, Awaits
<1> QED BY <1>1, <1>4 DEF Paired

(* the invariant holds in the beginning *)
LEMMA PubInit == ASSUME Pub!PubSubAssumption, Pub!Init PROVE PubInv
<1>1. PubTypes
  BY DEF Pub!Init, PubTypes, Begins
<1>2. TopInv
  BY DEF Pub!Init, TopInv, Pub!Of
<1>3. ASSUME NEW q \in Threads PROVE ClientInv(q)
  <2>1. /\ up[q] = <<>> /\ down[q] = <<>> /\ syn[q] = <<>> /\ q \notin references /\ Len(<<>>) = 0
        /\ Pub!Members(q) = {} /\ Pub!Beginning(q) = {}
    BY DEF Pub!Init, Pub!Members, Pub!Beginning, Pub!Of
  <2>2. Shape(<<>>, up[q], Pub!Members(q), Pub!Beginning(q))
    BY <2>1 DEF Shape
  <2>3. Linked(q, <<>>)
    BY <2>1, <2>2, NothingPaired DEF Linked
  <2>4. Heeds(q, <<>>)
    BY <2>1 DEF Heeds
  <2>5. Listeners(q)
    BY <2>1 DEF Listeners, Pub!Init, Pub!Of
  <2>6. <<>> \in Seq(Items)
    OBVIOUS
  <2> QED BY <2>3, <2>4, <2>5, <2>6 DEF ClientInv
<1> QED BY <1>1, <1>2, <1>3 DEF PubInv

(* every step keeps it *)
LEMMA PubSteps == ASSUME Pub!PubSubAssumption, PubInv, [Pub!Next]_Pub!vars PROVE PubInv'
<1>1. ASSUME NEW by \in Subscribers \cup {Nobody}, Pub!TopPublishes(by) PROVE PubInv'
  BY <1>1, TopPublishing
<1>2. ASSUME NEW by \in Subscribers \cup {Nobody}, NEW c \in Threads, Pub!Publish(c, by) PROVE PubInv'
  BY <1>2, ClientPublishes
<1>3. ASSUME NEW s \in Subscribers, Pub!TopSubscribes(s) \/ Pub!TopUnsubscribes(s) PROVE PubInv'
  BY <1>3, TopSubscribing
<1>4. ASSUME NEW s \in Subscribers, Pub!Subscribe(s) PROVE PubInv'
  BY <1>4, ClientSubscribes
<1>5. ASSUME NEW s \in Subscribers, Pub!Unsubscribe(s) PROVE PubInv'
  BY <1>5, ClientUnsubscribes
<1>6. ASSUME NEW c \in Threads, Pub!Handles(c) PROVE PubInv'
  BY <1>6, HandlesMessage, HandlesSyn, HandlesSubscription, HandlesEnd DEF Pub!Handles
<1>7. ASSUME NEW c \in Threads, Pub!HearAck(c) PROVE PubInv'
  <2>1. PICK E \in Seq(Items) : Linked(c, E)
    BY DEF PubInv, ClientInv
  <2>2. PICK what : what = syn[c][1]
    OBVIOUS
  <2>3. what \in Whats
    BY <1>7, <2>1, <2>2, Acknowledged
  <2>4. what.type = "publish" \/ what.type = "subscribe"
    BY <2>3 DEF Whats
  <2> QED BY <1>7, <2>2, <2>4, ClientForwards, ClientJoins
<1>8. ASSUME NEW c \in Threads, Pub!HearPublish(c) PROVE PubInv'
  BY <1>8, ClientHearsMessage
<1>9. ASSUME UNCHANGED Pub!vars PROVE PubInv'
  <2>1. UNCHANGED <<references, up, down, syn, entry, member, status, log, since, heard, published>>
    BY <1>9 DEF Pub!vars, Pub!ports, Pub!clientVars, Pub!history, Pub!bounds
  <2>2. PubTypes /\ TopInv /\ \A q \in Threads : ClientInv(q)
    BY DEF PubInv
  <2>3. PubTypes'
    BY <2>1, <2>2 DEF PubTypes, Pub!Of
  <2>4. TopInv'
    BY <2>1, <2>2, TopUndisturbed
  <2>5. ASSUME NEW q \in Threads PROVE ClientInv(q)'
    BY <2>1, <2>2, Undisturbed
  <2> QED BY <2>3, <2>4, <2>5 DEF PubInv
<1> QED BY <1>1, <1>2, <1>3, <1>4, <1>5, <1>6, <1>7, <1>8, <1>9 DEF Pub!Next, Pub!Hears

(* Everybody who listens has heard, at any time, the first of what it is to *)
(* hear, and all of it when nothing is on its way.                         *)
LEMMA PubHears == ASSUME Pub!PubSubAssumption, PubInv PROVE Pub!HearsAll
<1>1. PubTypes /\ log \in Seq(Spoken) /\ since \in Begins
  BY DEF PubInv, PubTypes
<1>2. ASSUME NEW s \in Subscribers, status[s] = "active"
      PROVE  /\ Pub!IsPrefix(heard[s], Pub!Telling(log, since[s], s)[Len(log)])
             /\ (\A c \in Threads : up[c] = <<>> /\ down[c] = <<>>) =>
                  heard[s] = Pub!Telling(log, since[s], s)[Len(log)]
  <2>1. CASE Place[s] = Top
    <3>1. heard[s] = Pub!Telling(log, since[s], s)[Len(log)]
      BY <1>2, <2>1 DEF PubInv, TopInv, Pub!Of, HasHeard
    <3>2. since[s] \in Nat /\ Len(log) \in 0..Len(log)
      BY <1>1, Elements DEF Begins
    <3>3. Pub!IsPrefix(Pub!Telling(log, since[s], s)[Len(log)], Pub!Telling(log, since[s], s)[Len(log)])
      BY <1>1, <3>2, TellingGrows
    <3> QED BY <3>1, <3>3
  <2>2. CASE Place[s] # Top
    <3>1. PICK q : q = Place[s]
      OBVIOUS
    <3>2. q \in Threads /\ s \in Pub!Of(q) /\ ClientInv(q)
      BY <2>2, <3>1 DEF Pub!PubSubAssumption, Pub!Of, PubInv
    <3>3. PICK E \in Seq(Items) : Linked(q, E) /\ Heeds(q, E)
      BY <3>2 DEF ClientInv
    <3>4. s \in Pub!Members(q) /\ Pub!Members(q) \in SUBSET Subscribers
      BY <1>2, <3>2 DEF Pub!Members, ClientInv, Listeners, Pub!Of
    <3>5. Follows(E, log, Pub!Members(q), since, heard, Pub!Of(q))
      BY <3>3, <3>4 DEF Heeds
    <3>6. /\ Pub!IsPrefix(heard[s], Pub!Telling(log, since[s], s)[Len(log)])
          /\ E = <<>> => heard[s] = Pub!Telling(log, since[s], s)[Len(log)]
      BY <1>1, <3>4, <3>5, FollowersHear
    <3>7. down[q] = <<>> => E = <<>>
      <4>1. Len(down[q]) = Len(E)
        BY <3>3 DEF Linked, Paired
      <4> QED BY <4>1, Elements
    <3> QED BY <3>2, <3>6, <3>7
  <2> QED BY <2>1, <2>2
<1> QED BY <1>2 DEF Pub!HearsAll, Pub!Due

(* A subscription hears the messages of all threads in one order, each once, *)
(* its own left out and none from before it began, and all of them when      *)
(* nothing is on its way (HearsAll of PubSub: send, subscribe, unsubscribe   *)
(* and the acknowledgements of pubsub.ts), for any clients, subscriptions    *)
(* and placement of them.                                                    *)
THEOREM EverybodyHearsAll == ASSUME Pub!PubSubAssumption PROVE Pub!Spec => []HearsAll
<1>1. Pub!Init => PubInv
  BY PubInit
<1>2. PubInv /\ [Pub!Next]_Pub!vars => PubInv'
  BY PubSteps
<1>3. PubInv => HearsAll
  BY PubHears DEF HearsAll
<1> QED BY <1>1, <1>2, <1>3, PTL DEF Pub!Spec
=============================================================================
