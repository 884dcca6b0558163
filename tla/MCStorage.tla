------------------------------ MODULE MCStorage ------------------------------
(***************************************************************************)
(* The local storage and the protocols of StorageParts on small instances, *)
(* side by side: a behaviour is one of the blobs, of the rooms in them, of *)
(* the pubsub provider, or of a subscription's iterables.  They share no   *)
(* state, so nothing is lost by running one while the others stay as they  *)
(* were at first.                                                          *)
(***************************************************************************)
EXTENDS BlobStorage, StorageParts, TLC

CONSTANTS c1, s1, s2, s3   \* PubSub: a thread, and subscriptions, the last of the top thread

VARIABLE part

PlaceOf == s1 :> c1 @@ s2 :> c1 @@ s3 :> Top

ASSUME Shard!Assumptions /\ Pub!PubSubAssumption

blobs == <<memory, pending, disk, batch, call, rejected, written, overtaken,
           crossed, writes, saves, restarts>>
rooms == <<map, snapshot, durable, phase, processor, context, cacheTime, roomCache,
           nextRoomCache, state, saved, life, roomSaves>>
pubsub == <<references, up, down, syn, entry, member, status, log, since, heard, published, attempts>>
channel == <<loop, queue, deferred, value, attached, disconnected, arrived, yielded>>
all == <<part, blobs, rooms, pubsub, channel>>

StorageInit ==
  /\ part \in {"blobs", "rooms", "pubsub", "channel"}
  /\ Init /\ Cardinality({k \in Keys : disk[k] # Absent}) = IF part = "blobs" THEN 1 ELSE 0   \* bound
  /\ Shard!Init /\ Pub!Init /\ Chan!Init

\* bound: while a call of a key is under way, with which others may cross, no other key is called
OneKey ==
  \A c \in Clients : ~Idle(c) /\ restarts' = restarts =>
    /\ \A k \in Keys \ {call[c].key} : memory'[k] = memory[k]
    /\ \A d \in Clients : ~Idle(d)' => call'[d].key = call[c].key

\* bound: several workers, or else saves and crashes
OneAtWork == Cardinality({w \in Workers : cacheTime'[w] >= 0 \/ DOMAIN nextRoomCache'[w] # {}}) <= 1
Bounded == ~OneAtWork => life' = 0 /\ roomSaves' = 0

Only(name, next, others) == part = name /\ next /\ UNCHANGED <<part, others>>

StorageNext ==
  \/ Only("blobs", Next /\ OneKey, <<rooms, pubsub, channel>>)
  \/ Only("rooms", Shard!Next /\ Bounded, <<blobs, pubsub, channel>>)
  \/ Only("pubsub", Pub!Next, <<blobs, rooms, channel>>)
  \/ Only("channel", Chan!Next, <<blobs, rooms, pubsub>>)

StorageSpec == StorageInit /\ [][StorageNext]_all

Symmetry ==
  Permutations(Workers) \cup Permutations(Rooms) \cup Permutations(Keys) \cup Permutations(Values)
=============================================================================
