----------------------------- MODULE StorageParts -----------------------------
(***************************************************************************)
(* What stands on the local storage, each with constants and state of its  *)
(* own: the rooms in the blobs and in the workers' caches, the pubsub      *)
(* provider of all threads, and the iterables of a subscription.           *)
(***************************************************************************)
CONSTANTS
  Workers, Rooms, Time, NoWorker, MaxTime, MaxRoomSaves, MaxCrashes,    \* RoomBlobs
  Threads, Top, Nobody, Subscribers, Place, MaxMessages, MaxAttempts,   \* PubSub
  Loops, MaxArrivals                                                    \* Channel

VARIABLES
  map, snapshot, durable, phase, processor, context, cacheTime, roomCache, nextRoomCache,
  state, saved, life, roomSaves,
  references, up, down, syn, entry, member, status, log, since, heard, published, attempts,
  loop, queue, deferred, value, attached, disconnected, arrived, yielded

Shard == INSTANCE RoomBlobs WITH MaxSaves <- MaxRoomSaves, MaxRestarts <- MaxCrashes, saves <- roomSaves
Pub == INSTANCE PubSub WITH Clients <- Threads
Chan == INSTANCE Channel WITH MaxMessages <- MaxArrivals

(* Workers process, and everybody reads, every room as the tick before left *)
(* it (RoomBlobs).                                                          *)
ReadsCurrent == Shard!ReadsCurrent

(* A crash takes all rooms back to one time, but for those that had just    *)
(* gone to sleep (RoomBlobs).                                               *)
RollsBackTogether == Shard!RollsBackTogether

(* Subscriptions hear every message of others once and in one order (PubSub). *)
HearsAll == Pub!HearsAll

(* A loop gets every message once and in order, and ends (Channel).         *)
YieldsAll == Chan!YieldsAll
=============================================================================
