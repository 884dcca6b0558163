----------------------------- MODULE BlobStorage -----------------------------
(***************************************************************************)
(* The blobs of the local storage (engine/db/storage/local/blob.ts): files *)
(* behind a cache which is never evicted.  Writes go to the cache and are  *)
(* marked with the generation of the next save; save() captures what is    *)
(* marked, starts a new generation, and writes the files one by one.  An   *)
(* entry is "pending" while its mark is the current generation.            *)
(*                                                                         *)
(* get() of a key that is not cached opens its file, del() of one that is  *)
(* not pending looks for it, and both then write to the cache without      *)
(* another look at it; other calls and a save may come between.  Nothing   *)
(* keeps such calls apart: three history variables say what was written,   *)
(* and on which keys calls got in each other's way.                        *)
(***************************************************************************)
EXTENDS Naturals, FiniteSets

CONSTANTS
  Clients,     \* threads with calls under way
  Keys,
  Values,
  Absent,      \* null: no such blob
  Unknown,     \* the cache has no entry
  MaxWrites,   \* bound: calls of set, copy and del
  MaxSaves,    \* bound: calls of save
  MaxRestarts  \* bound: processes that end, and calls of flushdb

ASSUME BlobStorageAssumption ==
  /\ Absent \notin Values /\ Unknown \notin Values \cup {Absent} /\ Values # {}
  /\ MaxWrites \in Nat /\ MaxSaves \in Nat /\ MaxRestarts \in Nat

VARIABLES
  memory,    \* value of the cache entry
  pending,   \* keys whose entry has the current saveId
  disk,      \* the files
  batch,     \* entries captured by the save under way and not yet written
  call,      \* what each client has under way, see TypeOK
  rejected,  \* keys whose file a save was to unlink and did not find: the save fails
  written,   \* history: what the last set, copy or del was to leave, or the file at the start
  overtaken, \* history: keys written while a get of them awaited the disk, and not since
  crossed,   \* history: keys on which calls crossed, see below
  writes, saves, restarts

store == <<memory, pending, disk, batch>>
history == <<written, overtaken, crossed>>
bounds == <<writes, saves, restarts>>
vars == <<store, call, rejected, history, bounds>>

Contents == Values \cup {Absent}

NoBatch == [k \in {} |-> Absent]
NoCall == [name |-> "none"]

\* what a reader is to find
Current(k) == IF memory[k] = Unknown THEN disk[k] ELSE memory[k]

Init ==
  /\ disk \in [Keys -> Contents]
  /\ memory = [k \in Keys |-> Unknown] /\ pending = {} /\ batch = NoBatch
  /\ call = [c \in Clients |-> NoCall] /\ rejected = {}
  /\ written = disk /\ overtaken = {} /\ crossed = {}
  /\ writes = 0 /\ saves = 0 /\ restarts = 0

Writes == writes < MaxWrites /\ writes' = writes + 1 /\ UNCHANGED <<saves, restarts>>

Idle(c) == call[c].name = "none"
Begins(c, what) == Idle(c) /\ call' = [call EXCEPT ![c] = what]
Ends(c) == call' = [call EXCEPT ![c] = NoCall]

Under(name, k) == {c \in Clients : call[c].name = name /\ call[c].key = k}

\* calls that will write what they found of k to the cache
Overlapping(k) == Under("get", k) \cup Under("del", k)

(***************************************************************************)
(* Calls on a key cross when it is written or deleted while another client *)
(* reads it from disk or deletes it; or when it is deleted before its last *)
(* write or deletion is on disk, unless it was only now written for the    *)
(* first time.  A later write, which has the key for itself, ends that.    *)
(***************************************************************************)
\* the save under way brings the first file of k, or removes it
SaveMatters(k) == k \in DOMAIN batch /\ (disk[k] = Absent \/ batch[k] = Absent)

Crosses(k, when) == crossed' = IF when THEN crossed \cup {k} ELSE crossed

Settles(k) ==
  crossed' = IF Overlapping(k) # {} THEN crossed \cup {k}
             ELSE IF k \in DOMAIN batch THEN crossed ELSE crossed \ {k}

Wrote(k, v) ==
  /\ written' = [written EXCEPT ![k] = v]
  /\ overtaken' = IF Under("get", k) # {} THEN overtaken \cup {k} ELSE overtaken \ {k}
-----------------------------------------------------------------------------
(***************************************************************************)
(* get, req, getSync, set and copy                                         *)
(***************************************************************************)
Caches(k, value, isPending) ==
  /\ memory' = [memory EXCEPT ![k] = value]
  /\ pending' = IF isPending THEN pending \cup {k} ELSE pending \ {k}

\* a key that is cached is answered at once and changes nothing
Get(c, k) ==
  /\ memory[k] = Unknown
  /\ Begins(c, [name |-> "get", key |-> k, found |-> Unknown])
  /\ UNCHANGED <<store, rejected, history, bounds>>

\* fs.open: the handle keeps its file, also when a save replaces it
Opened(c) ==
  /\ call[c].name = "get" /\ call[c].found = Unknown
  /\ call' = [call EXCEPT ![c].found = disk[call[c].key]]
  /\ UNCHANGED <<store, rejected, history, bounds>>

\* cache what was read, or that there is no file, whatever the entry is by now
Fill(c) ==
  /\ call[c].name = "get" /\ call[c].found # Unknown
  /\ Caches(call[c].key, call[c].found, FALSE)
  /\ Ends(c)
  /\ UNCHANGED <<disk, batch, rejected, history, bounds>>

Set(k, v) ==
  /\ Writes
  /\ Caches(k, v, TRUE) /\ Wrote(k, v) /\ Settles(k)
  /\ UNCHANGED <<disk, batch, call, rejected>>

\* 'EQ' and 'NE' compare with a value, which an absent blob does not equal
Condition(type, k, expected) ==
  CASE type = "NX" -> Current(k) = Absent
    [] type = "XX" -> Current(k) # Absent
    [] type = "EQ" -> Current(k) = expected
    [] type = "NE" -> Current(k) # expected

\* getSync caches what it reads when the condition fails
SetIf(type, expected, k, v) ==
  /\ Writes
  /\ IF Condition(type, k, expected)
     THEN Caches(k, v, TRUE) /\ Wrote(k, v) /\ Settles(k)
     ELSE Caches(k, Current(k), k \in pending) /\ UNCHANGED history
  /\ UNCHANGED <<disk, batch, call, rejected>>

\* the value of 'from' has been read; with 'NX' the copy goes on to read 'to'
Copy(c, from, to, nx) ==
  /\ from # to /\ memory[from] \in Values /\ Writes
  /\ Begins(c, [name |-> IF nx THEN "copyNX" ELSE "copy", key |-> to, found |-> memory[from]])
  /\ UNCHANGED <<store, rejected, history>>

Copied(c) ==
  /\ \/ call[c].name = "copy"
     \/ call[c].name = "copyNX" /\ memory[call[c].key] = Absent
  /\ Caches(call[c].key, call[c].found, TRUE)
  /\ Wrote(call[c].key, call[c].found) /\ Settles(call[c].key)
  /\ Ends(c)
  /\ UNCHANGED <<disk, batch, rejected, bounds>>

NotCopied(c) ==
  /\ call[c].name = "copyNX" /\ memory[call[c].key] \in Values
  /\ Ends(c)
  /\ UNCHANGED <<store, rejected, history, bounds>>
-----------------------------------------------------------------------------
(***************************************************************************)
(* del                                                                     *)
(***************************************************************************)
\* "Check if the write is still pending": then it is taken for one that was never saved
DeletePending(k) ==
  /\ k \in pending /\ Writes
  /\ Caches(k, Absent, FALSE) /\ Wrote(k, Absent)
  /\ Crosses(k, Overlapping(k) # {} \/ disk[k] # Absent \/ k \in DOMAIN batch)
  /\ UNCHANGED <<disk, batch, call, rejected>>

Delete(c, k) ==
  /\ k \notin pending /\ Writes
  /\ Begins(c, [name |-> "del", key |-> k, found |-> Unknown])
  /\ Crosses(k, Under("del", k) # {} \/ SaveMatters(k))
  /\ UNCHANGED <<store, rejected, written, overtaken>>

\* "Ensure it actually exists on disk"
Stat(c) ==
  /\ call[c].name = "del" /\ call[c].found = Unknown
  /\ call' = [call EXCEPT ![c].found = disk[call[c].key]]
  /\ UNCHANGED <<store, rejected, history, bounds>>

Deleted(c, isPending) ==
  /\ call[c].name = "del" /\ call[c].found # Unknown
  /\ Caches(call[c].key, Absent, isPending) /\ Wrote(call[c].key, Absent)
  /\ Crosses(call[c].key, Overlapping(call[c].key) # {c})
  /\ Ends(c)
  /\ UNCHANGED <<disk, batch, rejected, bounds>>

\* mutant: marks the deletion also of a file that does not exist
MarkAlways(c) == Deleted(c, TRUE)

MarkDeleted(c) == Deleted(c, call[c].found # Absent)
-----------------------------------------------------------------------------
(***************************************************************************)
(* save, a process that ends, and flushdb                                  *)
(***************************************************************************)
\* mutant: what is captured leaves the cache
SaveAndEvict ==
  /\ batch = NoBatch /\ rejected = {} /\ saves < MaxSaves
  /\ saves' = saves + 1
  /\ batch' = [k \in pending |-> memory[k]]
  /\ memory' = [k \in Keys |-> IF k \in pending THEN Unknown ELSE memory[k]]
  /\ pending' = {}
  /\ UNCHANGED <<disk, call, rejected, history, writes, restarts>>

\* the provider starts one save when the one before has ended; one that fails ends the process
Save ==
  /\ batch = NoBatch /\ rejected = {} /\ saves < MaxSaves
  /\ saves' = saves + 1
  /\ batch' = [k \in pending |-> memory[k]]
  /\ pending' = {}
  /\ UNCHANGED <<memory, disk, call, rejected, history, writes, restarts>>

Flushes(k) ==
  /\ k \in DOMAIN batch
  /\ batch' = [q \in DOMAIN batch \ {k} |-> batch[q]]
  /\ disk' = [disk EXCEPT ![k] = batch[k]]
  /\ rejected' = IF batch[k] = Absent /\ disk[k] = Absent THEN rejected \cup {k} ELSE rejected
  /\ UNCHANGED <<memory, call, history, bounds>>

\* mutant: what is on disk has been saved
FlushAndUnmark(k) == Flushes(k) /\ pending' = pending \ {k}

\* write to a temporary file and rename it, or unlink; in any order
Flush(k) == Flushes(k) /\ UNCHANGED pending

NothingCached ==
  /\ restarts < MaxRestarts /\ restarts' = restarts + 1
  /\ memory' = [k \in Keys |-> Unknown] /\ pending' = {} /\ rejected' = {}
  /\ written' = disk' /\ overtaken' = {} /\ crossed' = {}
  /\ UNCHANGED <<writes, saves>>

\* at any moment, and a new process with an empty cache
Restart ==
  /\ batch' = NoBatch
  /\ call' = [c \in Clients |-> NoCall]
  /\ UNCHANGED disk
  /\ NothingCached

\* an import empties the storage while nothing else uses it
Flushdb ==
  /\ batch = NoBatch /\ \A c \in Clients : Idle(c)
  /\ disk' = [k \in Keys |-> Absent]
  /\ UNCHANGED <<batch, call>>
  /\ NothingCached

Next ==
  \/ \E c \in Clients, k \in Keys : Get(c, k) \/ Delete(c, k)
  \/ \E c \in Clients :
       Opened(c) \/ Fill(c) \/ Stat(c) \/ MarkDeleted(c) \/ Copied(c) \/ NotCopied(c)
  \/ \E k \in Keys, v \in Values : Set(k, v)
  \/ \E type \in {"NX", "XX", "EQ", "NE"}, expected \in Values, k \in Keys, v \in Values :
       SetIf(type, expected, k, v)
  \/ \E c \in Clients, from \in Keys, to \in Keys, nx \in BOOLEAN : Copy(c, from, to, nx)
  \/ \E k \in Keys : DeletePending(k) \/ Flush(k)
  \/ Save
  \/ Restart \/ Flushdb

Spec == Init /\ [][Next]_vars
-----------------------------------------------------------------------------
Names == {"get", "del", "copy", "copyNX"}

TypeOK ==
  /\ memory \in [Keys -> Contents \cup {Unknown}] /\ disk \in [Keys -> Contents]
  /\ pending \subseteq Keys /\ \A k \in pending : memory[k] # Unknown
  /\ DOMAIN batch \subseteq Keys /\ \A k \in DOMAIN batch : batch[k] \in Contents
  /\ call \in [Clients -> {NoCall} \cup [name : Names, key : Keys, found : Contents \cup {Unknown}]]
  /\ \A c \in Clients : call[c].name \in {"copy", "copyNX"} => call[c].found \in Values
  /\ rejected \subseteq Keys
  /\ written \in [Keys -> Contents] /\ overtaken \subseteq Keys /\ crossed \subseteq Keys
  /\ writes \in 0..MaxWrites /\ saves \in 0..MaxSaves /\ restarts \in 0..MaxRestarts

(* Readers find the last write, deletions included, wherever the entry and  *)
(* the file are on their way: in the cache, in a save, in a get or a del    *)
(* that awaits the disk.  The one exception is a key that was written while *)
(* a get of it awaited the disk, until it is written again: that get puts   *)
(* the old value into the cache (get, getSync, set, copy and del).          *)
ReadsLastWrite ==
  \A k \in Keys \ overtaken :
    /\ Current(k) = written[k]
    /\ \A c \in Under("get", k) : call[c].found \in {Unknown, written[k]}

(* A save fails on a file it was to unlink only if calls crossed on that    *)
(* key ("otherwise a concurrent save would try to unlink a file which was   *)
(* never written"): not for any other order of writes, reads, deletions     *)
(* and saves (del and save).                                                *)
UnlinksExist == [][\A k \in Keys : k \in rejected' \ rejected => k \in crossed]_vars

\* the save under way is to bring the disk to this
Captured(k) == IF k \in DOMAIN batch THEN batch[k] ELSE disk[k]

Map == INSTANCE DurableMap WITH
  map <- written,
  snapshot <- [k \in Keys |-> Captured(k)],
  durable <- disk

(* What callers wrote reaches the disk: a save that ends has brought to it  *)
(* the last write of every key before the save began and nothing later, and *)
(* a process that ends loses no more than that.  The exception is a key on  *)
(* which calls crossed, until it is written alone: a save may then leave    *)
(* its old file (set, copy, del and save).                                  *)
KeepsBlobs == Map!Spec
=============================================================================
