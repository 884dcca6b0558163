----------------------------- MODULE DurableMap -----------------------------
(***************************************************************************)
(* What the local storage promises about its keys, whatever it caches: a   *)
(* map of what was last written to each key, and a copy on disk which each *)
(* save brings, key by key, to what the map was when the save began.  But  *)
(* a save may pass over a key on which calls have crossed, and leave what  *)
(* is on disk.  Which calls cross is for the implementation to say.        *)
(***************************************************************************)
CONSTANTS
  Keys,
  Contents   \* what a key may hold, its absence included

VARIABLES
  map,       \* what was last written, or found on disk at the start
  snapshot,  \* what the save that began last is to bring to disk
  durable,   \* what is on disk
  crossed    \* keys on which calls have crossed

vars == <<map, snapshot, durable, crossed>>

Init ==
  /\ map \in [Keys -> Contents]
  /\ snapshot = map /\ durable = map /\ crossed = {}

\* what set, del or copy is to write; it may cross with other calls, or put an end to that
Write(k, c) ==
  /\ map' = [map EXCEPT ![k] = c]
  /\ crossed' \in {crossed, crossed \cup {k}, crossed \ {k}}
  /\ UNCHANGED <<snapshot, durable>>

Cross(k) ==
  /\ crossed' = crossed \cup {k}
  /\ UNCHANGED <<map, snapshot, durable>>

\* saves are one behind another
BeginSave(passed) ==
  /\ durable = snapshot /\ passed \subseteq crossed
  /\ snapshot' = [k \in Keys |-> IF k \in passed THEN durable[k] ELSE map[k]]
  /\ UNCHANGED <<map, durable, crossed>>

Flushed(ks) == [k \in Keys |-> IF k \in ks THEN snapshot[k] ELSE durable[k]]

Flush(ks) ==
  /\ durable' = Flushed(ks)
  /\ UNCHANGED <<map, snapshot, crossed>>

\* the process ends when the save has written ks more, and the next one reads what is on disk
Restart(ks) ==
  /\ durable' = Flushed(ks)
  /\ map' = durable' /\ snapshot' = durable' /\ crossed' = {}

\* flushdb()
Clear(c) ==
  /\ map' = [k \in Keys |-> c] /\ snapshot' = map' /\ durable' = map' /\ crossed' = {}

Next ==
  \/ \E k \in Keys, c \in Contents : Write(k, c)
  \/ \E k \in Keys : Cross(k)
  \/ \E ks \in SUBSET Keys : BeginSave(ks) \/ Flush(ks) \/ Restart(ks)
  \/ \E c \in Contents : Clear(c)

Spec == Init /\ [][Next]_vars
=============================================================================
