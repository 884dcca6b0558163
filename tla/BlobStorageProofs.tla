-------------------------- MODULE BlobStorageProofs --------------------------
(***************************************************************************)
(* Theorems about the blob storage, for any number of clients, keys,       *)
(* values, saves and restarts, whatever calls overlap: readers find the    *)
(* last write of a key that was not written during a get of it; a save     *)
(* fails only on a key on which calls crossed; and the storage implements  *)
(* the durable map, which says what such a key may lose.                   *)
(***************************************************************************)
EXTENDS BlobStorage, TLAPS

(***************************************************************************)
(* What is known of a key, by what has got in whose way.  It is stated for *)
(* one key: a step on another key does not touch it.                       *)
(***************************************************************************)
On(c, k) == call[c].name \in {"get", "del"} /\ call[c].key = k

\* whatever crosses
Marked(k) ==
  /\ k \in pending => memory[k] = written[k]
  /\ k \in DOMAIN batch => memory[k] # Unknown

\* nothing was written during a get: what is cached, on disk and in the get is what was written
Told(k) ==
  k \notin overtaken =>
    /\ memory[k] # Unknown => memory[k] = written[k]
    /\ memory[k] = Unknown => disk[k] = written[k]
    /\ \A c \in Clients : On(c, k) /\ call[c].name = "get" =>
         /\ k \notin pending /\ k \notin DOMAIN batch /\ disk[k] = written[k]
         /\ call[c].found # Unknown => call[c].found = written[k]

\* no calls crossed: a mark is missing only where nothing is to be saved, and a deletion has its file
Saved(k) ==
  k \notin crossed =>
    /\ k \notin pending => written[k] = Captured(k)
    /\ k \in pending /\ memory[k] = Absent => disk[k] # Absent /\ (k \in DOMAIN batch => batch[k] # Absent)
    /\ k \in DOMAIN batch /\ batch[k] = Absent => disk[k] # Absent

\* no calls crossed: what a get or a del found is still so
Stands(k) ==
  k \notin crossed =>
    \A c \in Clients : On(c, k) =>
      /\ k \notin pending
      /\ k \in DOMAIN batch => call[c].name = "del" /\ disk[k] # Absent /\ batch[k] # Absent
      /\ call[c].found # Unknown => (call[c].found = Absent <=> disk[k] = Absent)

KeyInv(k) == Marked(k) /\ Told(k) /\ Saved(k) /\ Stands(k)

Inv == TypeOK /\ \A k \in Keys : KeyInv(k)

(* what a call under way looks like *)
LEMMA CallTypes ==
  ASSUME TypeOK, NEW c \in Clients, call[c].name # "none"
  PROVE  /\ call[c] \in [name : Names, key : Keys, found : Contents \cup {Unknown}]
         /\ call[c].key \in Keys /\ call[c].found \in Contents \cup {Unknown}
         /\ call[c].name \in {"copy", "copyNX"} => call[c].found \in Values
BY DEF TypeOK, NoCall

(* types at the start *)
LEMMA InitTypes == Init => TypeOK
<1> SUFFICES ASSUME Init PROVE TypeOK  OBVIOUS
<1>1. memory \in [Keys -> Contents \cup {Unknown}] /\ disk \in [Keys -> Contents] /\ pending = {}
  BY DEF Init
<1>2. DOMAIN batch = {} /\ call \in [Clients -> {NoCall}]
  BY DEF Init, NoBatch
<1>3. writes \in 0..MaxWrites /\ saves \in 0..MaxSaves /\ restarts \in 0..MaxRestarts
  BY BlobStorageAssumption DEF Init
<1>4. \A c \in Clients : call[c].name = "none"
  BY DEF Init, NoCall
<1> QED BY <1>1, <1>2, <1>3, <1>4 DEF Init, TypeOK

(* an entry that is cached *)
LEMMA CacheTypes ==
  ASSUME TypeOK, NEW k \in Keys, NEW v \in Contents, NEW isPending \in BOOLEAN, Caches(k, v, isPending)
  PROVE  /\ memory' \in [Keys -> Contents \cup {Unknown}] /\ pending' \subseteq Keys
         /\ \A q \in pending' : memory'[q] # Unknown
<1>1. v # Unknown
  BY BlobStorageAssumption DEF Contents
<1> QED BY <1>1 DEF TypeOK, Caches

(* a write that is remembered *)
LEMMA WroteTypes ==
  ASSUME TypeOK, NEW k \in Keys, NEW v \in Contents, Wrote(k, v)
  PROVE  written' \in [Keys -> Contents] /\ overtaken' \subseteq Keys
BY DEF TypeOK, Wrote

(* calls that cross, or no longer *)
LEMMA CrossTypes ==
  ASSUME TypeOK, NEW k \in Keys, Settles(k) \/ \E when \in BOOLEAN : Crosses(k, when)
  PROVE  crossed' \subseteq Keys
BY DEF TypeOK, Settles, Crosses

(* a call that begins, goes on or ends *)
LEMMA CallChanges ==
  ASSUME TypeOK, NEW c \in Clients, NEW what,
         what = NoCall \/ (/\ what \in [name : Names, key : Keys, found : Contents \cup {Unknown}]
                           /\ what.name \in {"copy", "copyNX"} => what.found \in Values),
         call' = [call EXCEPT ![c] = what]
  PROVE  /\ call' \in [Clients -> {NoCall} \cup [name : Names, key : Keys, found : Contents \cup {Unknown}]]
         /\ \A d \in Clients : call'[d].name \in {"copy", "copyNX"} => call'[d].found \in Values
<1>1. NoCall.name = "none"
  BY DEF NoCall
<1> QED BY <1>1 DEF TypeOK

(* and after every step *)
LEMMA StepTypes == TypeOK /\ [Next]_vars => TypeOK'
<1> SUFFICES ASSUME TypeOK, [Next]_vars PROVE TypeOK'  OBVIOUS
<1> USE BlobStorageAssumption
<1>a. Values \subseteq Contents /\ Absent \in Contents /\ Unknown \notin Contents
  BY DEF Contents
<1>1. ASSUME NEW c \in Clients, NEW k \in Keys, Get(c, k) PROVE TypeOK'
  <2> DEFINE what == [name |-> "get", key |-> k, found |-> Unknown]
  <2>1. what \in [name : Names, key : Keys, found : Contents \cup {Unknown}] /\ what.name = "get"
    BY DEF Names
  <2>2. call' = [call EXCEPT ![c] = what]
    BY <1>1 DEF Get, Begins
  <2> HIDE DEF what
  <2> QED BY <1>1, <2>1, <2>2, CallChanges DEF Get, TypeOK, store, history, bounds
<1>2. ASSUME NEW c \in Clients, NEW k \in Keys, Delete(c, k) PROVE TypeOK'
  <2> DEFINE what == [name |-> "del", key |-> k, found |-> Unknown]
  <2>1. what \in [name : Names, key : Keys, found : Contents \cup {Unknown}] /\ what.name = "del"
    BY DEF Names
  <2>2. call' = [call EXCEPT ![c] = what]
    BY <1>2 DEF Delete, Begins
  <2> HIDE DEF what
  <2> QED BY <1>2, <2>1, <2>2, CallChanges DEF Delete, TypeOK, store, Writes, Crosses
<1>3. ASSUME NEW c \in Clients, Opened(c) \/ Stat(c) PROVE TypeOK'
  <2> DEFINE what == [call[c] EXCEPT !.found = disk[call[c].key]]
  <2>1. call[c] \in [name : Names, key : Keys, found : Contents \cup {Unknown}] /\ call[c].name \in {"get", "del"}
    BY <1>3, CallTypes DEF Opened, Stat
  <2>2. what \in [name : Names, key : Keys, found : Contents \cup {Unknown}] /\ what.name = call[c].name
    BY <2>1 DEF TypeOK
  <2>3. call' = [call EXCEPT ![c] = what]
    BY <1>3 DEF Opened, Stat, TypeOK
  <2> HIDE DEF what
  <2> QED BY <1>3, <2>1, <2>2, <2>3, CallChanges DEF Opened, Stat, TypeOK, store, history, bounds
<1>4. ASSUME NEW c \in Clients, Fill(c) PROVE TypeOK'
  <2>1. call[c].key \in Keys /\ call[c].found \in Contents
    BY <1>4, CallTypes DEF Fill
  <2>2. /\ memory' \in [Keys -> Contents \cup {Unknown}] /\ pending' \subseteq Keys
        /\ \A k \in pending' : memory'[k] # Unknown
    BY <1>4, <2>1, CacheTypes DEF Fill
  <2> QED BY <1>4, <2>2, CallChanges DEF Fill, Ends, TypeOK, history, bounds
<1>5. ASSUME NEW c \in Clients, MarkDeleted(c) PROVE TypeOK'
  <2> DEFINE found == call[c].found # Absent  met == Overlapping(call[c].key) # {c}
  <2>1. /\ call[c].key \in Keys /\ found \in BOOLEAN /\ met \in BOOLEAN
        /\ Caches(call[c].key, Absent, found) /\ Wrote(call[c].key, Absent) /\ Crosses(call[c].key, met)
    BY <1>5, CallTypes DEF MarkDeleted, Deleted
  <2> HIDE DEF found, met
  <2>2. /\ memory' \in [Keys -> Contents \cup {Unknown}] /\ pending' \subseteq Keys
        /\ \A k \in pending' : memory'[k] # Unknown
    BY <2>1, <1>a, CacheTypes
  <2>3. written' \in [Keys -> Contents] /\ overtaken' \subseteq Keys /\ crossed' \subseteq Keys
    BY <2>1, <1>a, WroteTypes, CrossTypes
  <2> QED BY <1>5, <2>2, <2>3, CallChanges DEF MarkDeleted, Deleted, Ends, TypeOK, bounds
<1>6. ASSUME NEW k \in Keys, NEW v \in Values, Set(k, v) PROVE TypeOK'
  <2>1. written' \in [Keys -> Contents] /\ overtaken' \subseteq Keys /\ crossed' \subseteq Keys
    BY <1>6, <1>a, WroteTypes, CrossTypes DEF Set
  <2>2. /\ memory' \in [Keys -> Contents \cup {Unknown}] /\ pending' \subseteq Keys
        /\ \A q \in pending' : memory'[q] # Unknown
    BY <1>6, <1>a, CacheTypes DEF Set
  <2> QED BY <1>6, <2>1, <2>2 DEF Set, TypeOK, Writes
<1>7. ASSUME NEW type, NEW expected, NEW k \in Keys, NEW v \in Values, SetIf(type, expected, k, v) PROVE TypeOK'
  <2>1. CASE Condition(type, k, expected)
    <3>1. Caches(k, v, TRUE) /\ Wrote(k, v) /\ Settles(k)
      BY <1>7, <2>1 DEF SetIf
    <3>2. written' \in [Keys -> Contents] /\ overtaken' \subseteq Keys /\ crossed' \subseteq Keys
      BY <3>1, <1>a, WroteTypes, CrossTypes
    <3>3. /\ memory' \in [Keys -> Contents \cup {Unknown}] /\ pending' \subseteq Keys
          /\ \A q \in pending' : memory'[q] # Unknown
      BY <3>1, <1>a, CacheTypes
    <3> QED BY <1>7, <3>2, <3>3 DEF SetIf, TypeOK, Writes
  <2>2. CASE ~Condition(type, k, expected)
    <3> DEFINE v0 == Current(k)  p == k \in pending
    <3>1. Caches(k, v0, p) /\ UNCHANGED history /\ v0 \in Contents /\ p \in BOOLEAN
      BY <1>7, <2>2, <1>a DEF SetIf, Current, TypeOK
    <3> HIDE DEF v0, p
    <3>2. /\ memory' \in [Keys -> Contents \cup {Unknown}] /\ pending' \subseteq Keys
          /\ \A q \in pending' : memory'[q] # Unknown
      BY <3>1, CacheTypes
    <3> QED BY <1>7, <3>1, <3>2 DEF SetIf, TypeOK, Writes, history
  <2> QED BY <2>1, <2>2
<1>8. ASSUME NEW c \in Clients, NEW from \in Keys, NEW to \in Keys, NEW nx \in BOOLEAN, Copy(c, from, to, nx) PROVE TypeOK'
  <2> DEFINE what == [name |-> IF nx THEN "copyNX" ELSE "copy", key |-> to, found |-> memory[from]]
  <2>1. what \in [name : Names, key : Keys, found : Contents \cup {Unknown}] /\ what.found \in Values
    BY <1>8, <1>a DEF Names, Copy
  <2>2. call' = [call EXCEPT ![c] = what]
    BY <1>8 DEF Copy, Begins
  <2> HIDE DEF what
  <2> QED BY <1>8, <2>1, <2>2, CallChanges DEF Copy, TypeOK, store, history, Writes
<1>9. ASSUME NEW c \in Clients, Copied(c) PROVE TypeOK'
  <2>1. call[c].key \in Keys /\ call[c].found \in Contents
    BY <1>9, <1>a, CallTypes DEF Copied
  <2>2. /\ memory' \in [Keys -> Contents \cup {Unknown}] /\ pending' \subseteq Keys
        /\ \A k \in pending' : memory'[k] # Unknown
    BY <1>9, <2>1, CacheTypes DEF Copied
  <2>3. written' \in [Keys -> Contents] /\ overtaken' \subseteq Keys /\ crossed' \subseteq Keys
    BY <1>9, <2>1, WroteTypes, CrossTypes DEF Copied
  <2> QED BY <1>9, <2>2, <2>3, CallChanges DEF Copied, Ends, TypeOK, bounds
<1>10. ASSUME NEW c \in Clients, NotCopied(c) PROVE TypeOK'
  BY <1>10, CallChanges DEF NotCopied, Ends, TypeOK, store, history, bounds
<1>11. ASSUME NEW k \in Keys, DeletePending(k) PROVE TypeOK'
  <2> DEFINE met == Overlapping(k) # {} \/ disk[k] # Absent \/ k \in DOMAIN batch
  <2>1. Caches(k, Absent, FALSE) /\ Wrote(k, Absent) /\ Crosses(k, met) /\ met \in BOOLEAN
    BY <1>11 DEF DeletePending
  <2> HIDE DEF met
  <2>2. written' \in [Keys -> Contents] /\ overtaken' \subseteq Keys /\ crossed' \subseteq Keys
    BY <2>1, <1>a, WroteTypes, CrossTypes
  <2>3. /\ memory' \in [Keys -> Contents \cup {Unknown}] /\ pending' \subseteq Keys
        /\ \A q \in pending' : memory'[q] # Unknown
    BY <2>1, <1>a, CacheTypes
  <2> QED BY <1>11, <2>2, <2>3 DEF DeletePending, TypeOK, Writes
<1>12. ASSUME NEW k \in Keys, Flush(k) PROVE TypeOK'
  BY <1>12 DEF Flush, Flushes, TypeOK, history, bounds
<1>13. ASSUME Save PROVE TypeOK'
  BY <1>13, <1>a DEF Save, TypeOK, history
<1>14. ASSUME Restart \/ Flushdb PROVE TypeOK'
  <2>1. NoCall.name = "none" /\ DOMAIN NoBatch = {}
    BY DEF NoCall, NoBatch
  <2>2. disk' \in [Keys -> Contents] /\ DOMAIN batch' = {}
    BY <1>14, <1>a, <2>1 DEF Restart, Flushdb, TypeOK
  <2>3. /\ call' \in [Clients -> {NoCall} \cup [name : Names, key : Keys, found : Contents \cup {Unknown}]]
        /\ \A d \in Clients : call'[d].name \in {"copy", "copyNX"} => call'[d].found \in Values
    BY <1>14, <2>1 DEF Restart, Flushdb, TypeOK
  <2> QED BY <1>14, <2>2, <2>3 DEF Restart, Flushdb, NothingCached, TypeOK
<1>15. ASSUME UNCHANGED vars PROVE TypeOK'
  BY <1>15 DEF vars, store, history, bounds, TypeOK
<1> QED BY <1>1, <1>2, <1>3, <1>4, <1>5, <1>6, <1>7, <1>8, <1>9, <1>10, <1>11, <1>12, <1>13, <1>14, <1>15 DEF Next

(* Every value of the cache, of the disk and of what is under way is of its *)
(* type: a blob or its absence, and in the cache the lack of an entry.      *)
THEOREM TypeCorrect == Spec => []TypeOK
<1> QED BY InitTypes, StepTypes, PTL DEF Spec
-----------------------------------------------------------------------------
(* a step that concerns other keys, or only marks this one as crossed or overtaken *)
LEMMA Undisturbed ==
  ASSUME NEW k \in Keys, KeyInv(k),
         memory'[k] = memory[k], disk'[k] = disk[k], written'[k] = written[k],
         k \in pending' <=> k \in pending,
         k \in DOMAIN batch' <=> k \in DOMAIN batch, k \in DOMAIN batch => batch'[k] = batch[k],
         k \in overtaken => k \in overtaken', k \in crossed => k \in crossed',
         \A c \in Clients : On(c, k)' => On(c, k) /\ call'[c] = call[c]
  PROVE  KeyInv(k)'
<1>1. Marked(k)'
  BY DEF KeyInv, Marked
<1>2. Told(k)'
  BY DEF KeyInv, Told
<1>3. Saved(k)'
  BY DEF KeyInv, Saved, Captured
<1>4. Stands(k)'
  BY DEF KeyInv, Stands
<1> QED BY <1>1, <1>2, <1>3, <1>4 DEF KeyInv

(* the calls on a key, when one ends and when none begins *)
LEMMA CallEnds ==
  ASSUME TypeOK, NEW c \in Clients, Ends(c)
  PROVE  /\ \A d \in Clients \ {c} : call'[d] = call[d]
         /\ \A k : ~On(c, k)'
BY DEF TypeOK, Ends, NoCall, On

(* a value is cached, marked and remembered, and the key may settle *)
LEMMA WriteKeeps ==
  ASSUME Inv, NEW k \in Keys, NEW v \in Values, Caches(k, v, TRUE), Wrote(k, v), Settles(k),
         UNCHANGED <<disk, batch>>, \A c \in Clients, q \in Keys : On(c, q)' => On(c, q) /\ call'[c] = call[c]
  PROVE  \A q \in Keys : KeyInv(q)'
<1> USE DEF Inv
<1>1. v # Unknown /\ v # Absent
  BY BlobStorageAssumption
<1>2. ASSUME NEW q \in Keys, q # k PROVE KeyInv(q)'
  BY <1>2, Undisturbed DEF Caches, Wrote, Settles, TypeOK
<1>3. /\ memory'[k] = v /\ k \in pending' /\ written'[k] = v
      /\ k \notin overtaken' => Under("get", k) = {}
      /\ k \notin crossed' => Overlapping(k) = {} /\ (k \in crossed => k \notin DOMAIN batch)
  BY DEF Caches, Wrote, Settles, TypeOK
<1>4. k \notin crossed' => \A c \in Clients : ~On(c, k)'
  BY <1>3 DEF Overlapping, Under, On
<1>5. k \notin overtaken' => \A c \in Clients : On(c, k)' => call'[c].name # "get"
  BY <1>3 DEF Under, On
<1>6. Marked(k)'
  BY <1>1, <1>3 DEF Marked
<1>7. Told(k)'
  BY <1>1, <1>3, <1>5 DEF Told
<1>8. Saved(k)'
  BY <1>1, <1>3 DEF Saved, KeyInv
<1>9. Stands(k)'
  BY <1>4 DEF Stands
<1> QED BY <1>2, <1>6, <1>7, <1>8, <1>9 DEF KeyInv

(* get() begins with a key that is not cached *)
LEMMA GetKeeps ==
  ASSUME Inv, NEW c \in Clients, NEW k \in Keys, Get(c, k)
  PROVE  \A q \in Keys : KeyInv(q)'
<1> USE DEF Inv, Get, store, history
<1>1. /\ \A d \in Clients \ {c} : call'[d] = call[d]
      /\ call'[c].name = "get" /\ call'[c].key = k /\ call'[c].found = Unknown /\ ~On(c, k)
  BY DEF Begins, Idle, TypeOK, On
<1>2. ASSUME NEW q \in Keys, q # k PROVE KeyInv(q)'
  BY <1>1, <1>2, Undisturbed DEF On
<1>3. k \notin pending /\ k \notin DOMAIN batch /\ KeyInv(k)
  BY DEF TypeOK, KeyInv, Marked
<1>4. Marked(k)' /\ Saved(k)'
  BY <1>3 DEF KeyInv, Marked, Saved, Captured
<1>5. Told(k)'
  BY <1>1, <1>3 DEF KeyInv, Told, On
<1>6. Stands(k)'
  BY <1>1, <1>3 DEF KeyInv, Stands, On
<1> QED BY <1>2, <1>4, <1>5, <1>6 DEF KeyInv

(* the look for the file of get() and of del() *)
LEMMA LookKeeps ==
  ASSUME Inv, NEW c \in Clients, Opened(c) \/ Stat(c)
  PROVE  \A q \in Keys : KeyInv(q)'
<1> USE DEF Inv, Opened, Stat, store, history
<1>0. PICK k : k = call[c].key
  OBVIOUS
<1>1. /\ \A d \in Clients \ {c} : call'[d] = call[d]
      /\ call'[c].name = call[c].name /\ call'[c].key = k /\ call'[c].found = disk[k] /\ On(c, k) /\ k \in Keys
  BY <1>0, CallTypes DEF TypeOK, On, Names
<1>2. ASSUME NEW q \in Keys, q # k PROVE KeyInv(q)'
  BY <1>0, <1>1, <1>2, Undisturbed DEF On
<1>3. Marked(k)' /\ Saved(k)'
  BY <1>0, <1>1 DEF KeyInv, Marked, Saved, Captured
<1>4. Told(k)'
  BY <1>0, <1>1 DEF KeyInv, Told, On
<1>5. Stands(k)'
  BY <1>0, <1>1 DEF KeyInv, Stands, On
<1> QED BY <1>0, <1>1, <1>2, <1>3, <1>4, <1>5 DEF KeyInv

(* get() caches what it read *)
LEMMA FillKeeps ==
  ASSUME Inv, NEW c \in Clients, Fill(c)
  PROVE  \A q \in Keys : KeyInv(q)'
<1> USE DEF Inv, Fill, history
<1>0. PICK k : k = call[c].key
  OBVIOUS
<1>1. k \in Keys /\ On(c, k) /\ call[c].found \in Contents
  BY <1>0, CallTypes DEF On
<1>2. /\ \A d \in Clients \ {c} : call'[d] = call[d]
      /\ \A q : ~On(c, q)'
  BY CallEnds
<1>3. memory'[k] = call[c].found /\ pending' = pending \ {k} /\ memory'[k] # Unknown
      /\ \A q \in Keys \ {k} : memory'[q] = memory[q]
  BY <1>0, <1>1 DEF Caches, TypeOK
<1>4. ASSUME NEW q \in Keys, q # k PROVE KeyInv(q)'
  BY <1>2, <1>3, <1>4, Undisturbed DEF On
<1>5. Marked(k)'
  BY <1>3 DEF Marked
<1>6. Told(k)'
  BY <1>0, <1>1, <1>2, <1>3 DEF KeyInv, Told, On
<1>7. Saved(k)'
  BY <1>0, <1>1, <1>3 DEF KeyInv, Saved, Stands, Captured
<1>8. Stands(k)'
  BY <1>0, <1>1, <1>2, <1>3 DEF KeyInv, Stands, On
<1> QED BY <1>0, <1>1, <1>4, <1>5, <1>6, <1>7, <1>8 DEF KeyInv

(* set() *)
LEMMA SetKeeps ==
  ASSUME Inv, NEW k \in Keys, NEW v \in Values, Set(k, v)
  PROVE  \A q \in Keys : KeyInv(q)'
BY WriteKeeps DEF Set, On

(* set() with a condition *)
LEMMA SetIfKeeps ==
  ASSUME Inv, NEW type, NEW expected, NEW k \in Keys, NEW v \in Values, SetIf(type, expected, k, v)
  PROVE  \A q \in Keys : KeyInv(q)'
<1>1. CASE Condition(type, k, expected)
  BY <1>1, WriteKeeps DEF SetIf, On
<1>2. CASE ~Condition(type, k, expected)
  <2>1. /\ memory' = [memory EXCEPT ![k] = Current(k)] /\ \A q : q \in pending' <=> q \in pending
        /\ UNCHANGED <<disk, batch, call, written, overtaken, crossed>>
    BY <1>2 DEF SetIf, Caches, history, Inv, TypeOK
  <2>2. ASSUME NEW q \in Keys, q # k PROVE KeyInv(q)'
    BY <2>1, <2>2, Undisturbed DEF Inv, TypeOK, On
  <2>3. /\ memory'[k] = Current(k) /\ Current(k) # Unknown
        /\ memory[k] # Unknown => Current(k) = memory[k]
        /\ memory[k] = Unknown => Current(k) = disk[k] /\ k \notin pending
    BY <2>1, BlobStorageAssumption DEF Inv, TypeOK, Current, Contents
  <2>4. Marked(k)'
    BY <2>1, <2>3 DEF Inv, KeyInv, Marked
  <2>5. Told(k)'
    BY <2>1, <2>3 DEF Inv, KeyInv, Told, On
  <2>6. Saved(k)'
    BY <2>1, <2>3 DEF Inv, KeyInv, Saved, Captured
  <2>7. Stands(k)'
    BY <2>1 DEF Inv, KeyInv, Stands, On
  <2> QED BY <2>2, <2>4, <2>5, <2>6, <2>7 DEF KeyInv
<1> QED BY <1>1, <1>2

(* copy(), whatever comes of it *)
LEMMA CopyKeeps ==
  ASSUME Inv, NEW c \in Clients,
         (\E from \in Keys, to \in Keys, nx \in BOOLEAN : Copy(c, from, to, nx)) \/ Copied(c) \/ NotCopied(c)
  PROVE  \A q \in Keys : KeyInv(q)'
<1> USE DEF Inv
<1>1. ASSUME NEW from \in Keys, NEW to \in Keys, NEW nx \in BOOLEAN, Copy(c, from, to, nx), NEW q \in Keys PROVE KeyInv(q)'
  <2>1. \A d \in Clients : On(d, q)' => On(d, q) /\ call'[d] = call[d]
    BY <1>1 DEF Copy, Begins, TypeOK, On
  <2> QED BY <1>1, <2>1, Undisturbed DEF Copy, store, history
<1>2. ASSUME Copied(c) PROVE \A q \in Keys : KeyInv(q)'
  <2>1. call[c].key \in Keys /\ call[c].found \in Values
    BY <1>2, CallTypes DEF Copied
  <2>2. \A d \in Clients, q \in Keys : On(d, q)' => On(d, q) /\ call'[d] = call[d]
    BY <1>2, CallEnds DEF Copied, On
  <2> QED BY <1>2, <2>1, <2>2, WriteKeeps DEF Copied
<1>3. ASSUME NotCopied(c), NEW q \in Keys PROVE KeyInv(q)'
  <2>1. \A d \in Clients : On(d, q)' => On(d, q) /\ call'[d] = call[d]
    BY <1>3, CallEnds DEF NotCopied, On
  <2> QED BY <1>3, <2>1, Undisturbed DEF NotCopied, store, history
<1> QED BY <1>1, <1>2, <1>3

(* del() of an entry that is taken for one that was never saved *)
LEMMA DeletePendingKeeps ==
  ASSUME Inv, NEW k \in Keys, DeletePending(k)
  PROVE  \A q \in Keys : KeyInv(q)'
<1> USE DEF Inv, DeletePending
<1>1. ASSUME NEW q \in Keys, q # k PROVE KeyInv(q)'
  BY <1>1, Undisturbed DEF Caches, Wrote, Crosses, TypeOK, On
<1>2. /\ memory'[k] = Absent /\ k \notin pending' /\ written'[k] = Absent /\ Absent # Unknown
      /\ k \notin overtaken' => Under("get", k) = {}
      /\ k \notin crossed' => k \notin crossed /\ Overlapping(k) = {} /\ disk[k] = Absent /\ k \notin DOMAIN batch
  BY BlobStorageAssumption DEF Caches, Wrote, Crosses, TypeOK
<1>3. Marked(k)'
  BY <1>2 DEF KeyInv, Marked
<1>4. Told(k)'
  BY <1>2 DEF Told, Under, On
<1>5. Saved(k)'
  BY <1>2 DEF Saved, Captured
<1>6. Stands(k)'
  BY <1>2 DEF Stands, Overlapping, Under, On
<1> QED BY <1>1, <1>3, <1>4, <1>5, <1>6 DEF KeyInv

(* del() of another key begins *)
LEMMA DeleteKeeps ==
  ASSUME Inv, NEW c \in Clients, NEW k \in Keys, Delete(c, k)
  PROVE  \A q \in Keys : KeyInv(q)'
<1> USE DEF Inv, Delete, store
<1>1. /\ \A d \in Clients \ {c} : call'[d] = call[d]
      /\ call'[c].name = "del" /\ call'[c].key = k /\ call'[c].found = Unknown /\ ~On(c, k)
  BY DEF Begins, Idle, TypeOK, On
<1>2. ASSUME NEW q \in Keys, q # k PROVE KeyInv(q)'
  BY <1>1, <1>2, Undisturbed DEF On, Crosses
<1>3. k \notin crossed' => k \notin crossed /\ ~SaveMatters(k)
  BY DEF Crosses
<1>4. Marked(k)' /\ Saved(k)'
  BY <1>3 DEF KeyInv, Marked, Saved, Captured
<1>5. Told(k)'
  BY <1>1 DEF KeyInv, Told, On
<1>6. Stands(k)'
  BY <1>1, <1>3 DEF KeyInv, Stands, SaveMatters, On
<1> QED BY <1>2, <1>4, <1>5, <1>6 DEF KeyInv

(* del() marks the entry, or not *)
LEMMA MarkKeeps ==
  ASSUME Inv, NEW c \in Clients, MarkDeleted(c)
  PROVE  \A q \in Keys : KeyInv(q)'
<1> USE DEF Inv, MarkDeleted, Deleted
<1>0. PICK k : k = call[c].key
  OBVIOUS
<1>1. k \in Keys /\ On(c, k) /\ call[c].found # Unknown /\ Absent # Unknown
  BY <1>0, CallTypes, BlobStorageAssumption DEF On
<1>2. /\ \A d \in Clients \ {c} : call'[d] = call[d]
      /\ \A q : ~On(c, q)'
  BY CallEnds
<1>3. ASSUME NEW q \in Keys, q # k PROVE KeyInv(q)'
  BY <1>0, <1>1, <1>2, <1>3, Undisturbed DEF On, Caches, Wrote, Crosses, TypeOK
<1>4. /\ memory'[k] = Absent /\ written'[k] = Absent
      /\ k \in pending' <=> call[c].found # Absent
      /\ k \notin overtaken' => Under("get", k) = {}
      /\ k \notin crossed' => k \notin crossed /\ Overlapping(k) = {c}
  BY <1>0, <1>1 DEF Caches, Wrote, Crosses, TypeOK
<1>5. k \notin crossed' => \A d \in Clients : ~On(d, k)'
  BY <1>2, <1>4 DEF Overlapping, Under, On
<1>6. Marked(k)'
  BY <1>0, <1>1, <1>4 DEF Marked
<1>7. Told(k)'
  BY <1>0, <1>1, <1>2, <1>4 DEF Told, Under, On
<1>8. Saved(k)'
  BY <1>0, <1>1, <1>4 DEF KeyInv, Saved, Stands, Captured
<1>9. Stands(k)'
  BY <1>5 DEF Stands
<1> QED BY <1>0, <1>1, <1>3, <1>6, <1>7, <1>8, <1>9 DEF KeyInv

(* save() captures what is pending *)
LEMMA SaveKeeps ==
  ASSUME Inv, Save, NEW k \in Keys
  PROVE  KeyInv(k)'
<1> USE DEF Inv, Save, NoBatch, history
<1>1. /\ DOMAIN batch = {} /\ pending' = {} /\ UNCHANGED <<memory, disk, call, written, overtaken, crossed>>
      /\ k \in DOMAIN batch' <=> k \in pending
      /\ k \in pending => batch'[k] = memory[k] /\ memory[k] # Unknown
  BY DEF TypeOK
<1>2. Marked(k)'
  BY <1>1 DEF Marked
<1>3. Told(k)'
  BY <1>1 DEF KeyInv, Told, On
<1>4. Saved(k)'
  BY <1>1 DEF KeyInv, Marked, Saved, Captured
<1>5. Stands(k)'
  BY <1>1 DEF KeyInv, Stands, On
<1> QED BY <1>2, <1>3, <1>4, <1>5 DEF KeyInv

(* the save writes or unlinks a file *)
LEMMA FlushKeeps ==
  ASSUME Inv, NEW k \in Keys, Flush(k)
  PROVE  \A q \in Keys : KeyInv(q)'
<1> USE DEF Inv, Flush, Flushes, history
<1>1. ASSUME NEW q \in Keys, q # k PROVE KeyInv(q)'
  BY <1>1, Undisturbed DEF TypeOK, On
<1>2. k \in DOMAIN batch /\ k \notin DOMAIN batch' /\ disk'[k] = batch[k] /\ memory[k] # Unknown
  BY DEF TypeOK, KeyInv, Marked
<1>3. Marked(k)'
  BY <1>2 DEF KeyInv, Marked
<1>4. Told(k)'
  BY <1>2 DEF KeyInv, Told, On
<1>5. Saved(k)'
  BY <1>2 DEF KeyInv, Saved, Captured
<1>6. Stands(k)'
  BY <1>2 DEF KeyInv, Stands, On
<1> QED BY <1>1, <1>3, <1>4, <1>5, <1>6 DEF KeyInv

(* nothing is cached, under way or to be saved *)
LEMMA EmptyKeeps ==
  ASSUME NEW k \in Keys, memory[k] = Unknown, pending = {}, DOMAIN batch = {}, written[k] = disk[k],
         \A c \in Clients : call[c].name = "none"
  PROVE  KeyInv(k)
BY DEF KeyInv, Marked, Told, Saved, Stands, Captured, On

(* a process that ends, and flushdb() *)
LEMMA RestartKeeps ==
  ASSUME Inv, Restart \/ Flushdb, NEW k \in Keys
  PROVE  KeyInv(k)'
<1>1. /\ memory'[k] = Unknown /\ pending' = {} /\ DOMAIN batch' = {} /\ written'[k] = disk'[k]
      /\ \A c \in Clients : call'[c].name = "none"
  BY DEF Restart, Flushdb, NothingCached, NoBatch, NoCall, Idle
<1> QED BY <1>1 DEF KeyInv, Marked, Told, Saved, Stands, Captured, On

(* the invariant *)
LEMMA Invariant == Spec => []Inv
<1>1. ASSUME Init PROVE Inv
  <2>1. \A c \in Clients : call[c].name = "none"
    BY <1>1 DEF Init, NoCall
  <2> QED BY <1>1, <2>1, InitTypes, EmptyKeeps DEF Init, NoBatch, Inv
<1>2. ASSUME Inv, [Next]_vars PROVE Inv'
  <2>1. ASSUME UNCHANGED vars, NEW k \in Keys PROVE KeyInv(k)'
    BY <1>2, <2>1, Undisturbed DEF Inv, vars, store, history, On
  <2>2. \A k \in Keys : KeyInv(k)'
    BY <1>2, <2>1, GetKeeps, LookKeeps, FillKeeps, SetKeeps, SetIfKeeps, CopyKeeps, DeletePendingKeeps, DeleteKeeps,
       MarkKeeps, SaveKeeps, FlushKeeps, RestartKeeps DEF Next
  <2> QED BY <1>2, <2>2, StepTypes DEF Inv
<1> QED BY <1>1, <1>2, PTL DEF Spec

(* Readers find the last write of a key, wherever the entry and the file are *)
(* on their way, unless it was written during a get of it.                   *)
THEOREM ReadersFindLastWrite == Spec => []ReadsLastWrite
<1>1. ASSUME Inv PROVE ReadsLastWrite
  <2> SUFFICES ASSUME NEW k \in Keys, k \notin overtaken
               PROVE  /\ Current(k) = written[k]
                      /\ \A c \in Under("get", k) : call[c].found \in {Unknown, written[k]}
    BY DEF ReadsLastWrite
  <2>1. Told(k)
    BY <1>1 DEF Inv, KeyInv
  <2> QED BY <2>1 DEF Told, Current, Under, On
<1> QED BY <1>1, Invariant, PTL

(* A save fails only on a key on which calls crossed: of any other it finds  *)
(* the file it is to unlink, whatever clients did while it awaited.          *)
THEOREM UnlinksOnlyFiles == Spec => UnlinksExist
<1>1. ASSUME Inv, [Next]_vars PROVE [\A k \in Keys : k \in rejected' \ rejected => k \in crossed]_vars
  <2> SUFFICES ASSUME NEW k \in Keys, k \in rejected' \ rejected PROVE k \in crossed
    OBVIOUS
  <2>1. ASSUME NEW q \in Keys, Flush(q) PROVE k \in crossed
    <3>1. k = q /\ q \in DOMAIN batch /\ batch[q] = Absent /\ disk[q] = Absent
      BY <2>1 DEF Flush, Flushes
    <3> QED BY <1>1, <3>1 DEF Inv, KeyInv, Saved
  <2>2. (\E q \in Keys : Flush(q)) \/ rejected' \subseteq rejected
    BY <1>1 DEF Next, vars, Get, Delete, Opened, Fill, Stat, MarkDeleted, Deleted, Set, SetIf, Copy, Copied, NotCopied,
           DeletePending, Save, Restart, Flushdb, NothingCached
  <2> QED BY <2>1, <2>2
<1> QED BY <1>1, Invariant, PTL DEF Spec, UnlinksExist
-----------------------------------------------------------------------------
\* the map does not change
Stutters == UNCHANGED <<written, [k \in Keys |-> Captured(k)], disk, crossed>>

(* a write that is remembered is one to the map, whether it crosses, settles or neither *)
LEMMA WroteIsWrite ==
  ASSUME NEW k \in Keys, NEW v, Wrote(k, v), Settles(k) \/ \E when \in BOOLEAN : Crosses(k, when),
         UNCHANGED <<disk, batch>>
  PROVE  Map!Write(k, v)
<1>1. UNCHANGED <<[q \in Keys |-> Captured(q)], disk>>
  BY DEF Captured
<1>2. crossed' \in {crossed, crossed \cup {k}, crossed \ {k}}
  BY DEF Settles, Crosses
<1> QED BY <1>1, <1>2 DEF Wrote, Map!Write

(* del() of an entry that is taken for one that was never saved, and the end of any other *)
LEMMA DeletedIsWrite ==
  ASSUME Inv, (\E k \in Keys : DeletePending(k)) \/ (\E c \in Clients : MarkDeleted(c))
  PROVE  \E k \in Keys : Map!Write(k, Absent)
<1>1. ASSUME NEW k \in Keys, DeletePending(k) PROVE Map!Write(k, Absent)
  <2> DEFINE met == Overlapping(k) # {} \/ disk[k] # Absent \/ k \in DOMAIN batch
  <2>1. Wrote(k, Absent) /\ Crosses(k, met) /\ met \in BOOLEAN /\ UNCHANGED <<disk, batch>>
    BY <1>1 DEF DeletePending
  <2> HIDE DEF met
  <2> QED BY <2>1, WroteIsWrite
<1>2. ASSUME NEW c \in Clients, MarkDeleted(c) PROVE call[c].key \in Keys /\ Map!Write(call[c].key, Absent)
  <2> DEFINE k == call[c].key  met == Overlapping(k) # {c}
  <2>1. Wrote(k, Absent) /\ Crosses(k, met) /\ met \in BOOLEAN /\ UNCHANGED <<disk, batch>> /\ k \in Keys
    BY <1>2, CallTypes DEF MarkDeleted, Deleted, Inv
  <2> HIDE DEF met, k
  <2>2. Map!Write(k, Absent)
    BY <2>1, WroteIsWrite
  <2> QED BY <2>1, <2>2 DEF k
<1> QED BY <1>1, <1>2

(* save() begins with what was written, and passes over keys that crossed *)
LEMMA SaveBegins ==
  ASSUME Inv, Inv', Save
  PROVE  \E passed \in SUBSET Keys : Map!BeginSave(passed)
<1> DEFINE passed == {k \in Keys : Captured(k)' # written[k]}
<1>1. /\ DOMAIN batch = {} /\ pending' = {} /\ UNCHANGED <<memory, disk, written, crossed>>
      /\ \A k \in Keys : k \in DOMAIN batch' <=> k \in pending
      /\ \A k \in pending : batch'[k] = memory[k]
  BY DEF Save, NoBatch, history, Inv, TypeOK
<1>2. disk = [k \in Keys |-> Captured(k)]
  BY <1>1 DEF Captured, Inv, TypeOK
<1>3. ASSUME NEW k \in passed PROVE k \in crossed /\ Captured(k)' = disk[k]
  <2>1. k \in Keys /\ Marked(k) /\ Saved(k)' /\ Captured(k)' # written[k]
    BY DEF Inv, KeyInv
  <2>2. k \notin pending
    BY <1>1, <2>1 DEF Marked, Captured
  <2>3. Captured(k)' = disk[k]
    BY <1>1, <2>1, <2>2 DEF Captured
  <2>4. k \in crossed
    BY <1>1, <2>1 DEF Saved
  <2> QED BY <2>3, <2>4
<1>4. passed \subseteq Keys /\ \A k \in Keys \ passed : Captured(k)' = written[k]
  OBVIOUS
<1> HIDE DEF passed
<1>5. [k \in Keys |-> Captured(k)]' = [k \in Keys |-> IF k \in passed THEN disk[k] ELSE written[k]]
  BY <1>3, <1>4
<1>6. passed \subseteq crossed
  BY <1>3
<1>7. Map!BeginSave(passed)
  BY <1>1, <1>2, <1>5, <1>6 DEF Map!BeginSave
<1> QED BY <1>4, <1>7

(* a file that is written is a key that is flushed *)
LEMMA FileIsFlushed ==
  ASSUME Inv, NEW k \in Keys, Flush(k)
  PROVE  Map!Flush({k})
<1> USE DEF Inv, TypeOK, Flush, Flushes, history
<1>1. disk' = [q \in Keys |-> IF q \in {k} THEN [p \in Keys |-> Captured(p)][q] ELSE disk[q]]
  BY DEF Captured
<1>2. UNCHANGED [q \in Keys |-> Captured(q)]
  BY DEF Captured
<1> QED BY <1>1, <1>2 DEF Map!Flush, Map!Flushed

(* a process that ends leaves its files *)
LEMMA RestartReads ==
  ASSUME TypeOK, Restart
  PROVE  Map!Restart({})
<1>1. disk' = [q \in Keys |-> IF q \in {} THEN [p \in Keys |-> Captured(p)][q] ELSE disk[q]]
  BY DEF Restart, TypeOK
<1>2. [q \in Keys |-> Captured(q)]' = disk'
  BY DEF Restart, NoBatch, Captured, TypeOK
<1> QED BY <1>1, <1>2 DEF Restart, NothingCached, Map!Restart, Map!Flushed

(* flushdb() *)
LEMMA FlushdbClears ==
  ASSUME TypeOK, Flushdb
  PROVE  Map!Clear(Absent)
<1>1. [q \in Keys |-> Captured(q)]' = [q \in Keys |-> Absent]
  BY DEF Flushdb, NoBatch, Captured
<1> QED BY <1>1 DEF Flushdb, NothingCached, Map!Clear

(* at the start nothing is being saved *)
LEMMA StartsAsMap == Init => Map!Init
BY DEF Init, Map!Init, Captured, NoBatch

(* every step is one of the map's, or none *)
LEMMA StepsAsMap ==
  ASSUME Inv, Inv', [Next]_vars
  PROVE  Map!Next \/ Stutters
<1> Absent \in Contents /\ Values \subseteq Contents
  BY DEF Contents
<1>1. ASSUME NEW c \in Clients, NEW k \in Keys, Get(c, k) PROVE Stutters
  BY <1>1 DEF Get, store, history, Stutters, Captured
<1>2. ASSUME NEW c \in Clients, NEW k \in Keys, Delete(c, k) PROVE Map!Next \/ Stutters
  <2>1. UNCHANGED <<written, [q \in Keys |-> Captured(q)], disk>> /\ (crossed' = crossed \/ crossed' = crossed \cup {k})
    BY <1>2 DEF Delete, store, Crosses, Captured
  <2> QED BY <2>1 DEF Stutters, Map!Next, Map!Cross
<1>3. ASSUME NEW c \in Clients, Opened(c) \/ Stat(c) \/ NotCopied(c) PROVE Stutters
  BY <1>3 DEF Opened, Stat, NotCopied, store, history, Stutters, Captured
<1>4. ASSUME NEW c \in Clients, Fill(c) PROVE Stutters
  BY <1>4 DEF Fill, history, Stutters, Captured
<1>5. ASSUME NEW k \in Keys, NEW v \in Values, Set(k, v) PROVE Map!Write(k, v)
  BY <1>5, WroteIsWrite DEF Set
<1>6. ASSUME NEW type, NEW expected, NEW k \in Keys, NEW v \in Values, SetIf(type, expected, k, v)
      PROVE  Map!Write(k, v) \/ Stutters
  <2>1. CASE Condition(type, k, expected)
    BY <1>6, <2>1, WroteIsWrite DEF SetIf
  <2>2. CASE ~Condition(type, k, expected)
    BY <1>6, <2>2 DEF SetIf, history, Stutters, Captured
  <2> QED BY <2>1, <2>2
<1>7. ASSUME NEW c \in Clients, NEW from \in Keys, NEW to \in Keys, NEW nx \in BOOLEAN, Copy(c, from, to, nx)
      PROVE  Stutters
  BY <1>7 DEF Copy, store, history, Stutters, Captured
<1>8. ASSUME NEW c \in Clients, Copied(c) PROVE \E k \in Keys, v \in Contents : Map!Write(k, v)
  <2>1. call[c].key \in Keys /\ call[c].found \in Contents
    BY <1>8, CallTypes DEF Copied, Inv
  <2>2. Map!Write(call[c].key, call[c].found)
    BY <1>8, <2>1, WroteIsWrite DEF Copied
  <2> QED BY <2>1, <2>2
<1>9. ASSUME (\E k \in Keys : DeletePending(k)) \/ (\E c \in Clients : MarkDeleted(c))
      PROVE  \E k \in Keys : Map!Write(k, Absent)
  BY <1>9, DeletedIsWrite
<1>10. ASSUME Save PROVE \E ks \in SUBSET Keys : Map!BeginSave(ks)
  BY <1>10, SaveBegins
<1>11. ASSUME NEW k \in Keys, Flush(k) PROVE Map!Flush({k}) /\ {k} \in SUBSET Keys
  BY <1>11, FileIsFlushed
<1>12. ASSUME Restart PROVE Map!Restart({}) /\ {} \in SUBSET Keys
  BY <1>12, RestartReads DEF Inv
<1>13. ASSUME Flushdb PROVE Map!Clear(Absent)
  BY <1>13, FlushdbClears DEF Inv
<1>14. ASSUME UNCHANGED vars PROVE Stutters
  BY <1>14 DEF vars, store, history, Stutters, Captured
<1> QED BY <1>1, <1>2, <1>3, <1>4, <1>5, <1>6, <1>7, <1>8, <1>9, <1>10, <1>11, <1>12, <1>13, <1>14 DEF Next, Map!Next

(* The storage is a durable map of what its callers wrote: what set, copy    *)
(* and del were given is in the map, a save brings to disk, key by key, what *)
(* was written when it began, and the end of the process at any moment       *)
(* leaves of every key what was last brought to disk.  A save leaves the old *)
(* file of a key only if calls crossed on it.                                *)
THEOREM ImplementsMap == Spec => KeepsBlobs
<1>1. ASSUME Inv, Inv', [Next]_vars PROVE [Map!Next]_Map!vars
  BY <1>1, StepsAsMap DEF Stutters, Map!vars
<1> QED BY <1>1, StartsAsMap, Invariant, PTL DEF Spec, KeepsBlobs, Map!Spec
=============================================================================
