------------------------------ MODULE BulkTick ------------------------------
(***************************************************************************)
(* What the tick protocol promises: ticks are bulk-synchronous.  In each   *)
(* tick every queued room is processed exactly once, after its players     *)
(* have answered or the tick was abandoned; only when all of them are done *)
(* is each touched room (processed, or sent intents by a processed room)   *)
(* finalized, exactly once; and only then does the next tick begin.        *)
(* There are no queues, messages, workers or counters here.                *)
(***************************************************************************)
EXTENDS Naturals

CONSTANTS Rooms, Users

VARIABLES
  tick,       \* the tick whose rooms are queued
  phase,      \* "process" | "finalize"
  queue,      \* rooms of the tick nobody works on yet
  working,    \* rooms being processed
  touched,    \* rooms of the tick still to be finalized
  players,    \* who may act in each room
  answered,   \* players whose intents for this tick have arrived
  abandoned   \* the tick waits for nobody any more

vars == <<tick, phase, queue, working, touched, players, answered, abandoned>>

Init ==
  /\ tick = 1 /\ phase = "process"
  /\ queue = Rooms /\ working = {} /\ touched = Rooms
  /\ players \in [Rooms -> SUBSET Users] /\ answered = {} /\ abandoned = FALSE

Answer(u) ==
  /\ answered' = answered \cup {u}
  /\ UNCHANGED <<tick, phase, queue, working, touched, players, abandoned>>

Abandon ==
  /\ abandoned' = TRUE
  /\ UNCHANGED <<tick, phase, queue, working, touched, players, answered>>

Claim(r) ==
  /\ phase = "process" /\ r \in queue
  /\ abandoned \/ players[r] \subseteq answered
  /\ queue' = queue \ {r} /\ working' = working \cup {r}
  /\ UNCHANGED <<tick, phase, touched, players, answered, abandoned>>

\* a room being processed sends intents to others, awake or not
Send(targets) ==
  /\ phase = "process" /\ working # {}
  /\ touched' = touched \cup targets
  /\ UNCHANGED <<tick, phase, queue, working, players, answered, abandoned>>

Processed(r) ==
  /\ r \in working
  /\ working' = working \ {r}
  /\ UNCHANGED <<tick, phase, queue, touched, players, answered, abandoned>>

StartFinalize ==
  /\ phase = "process" /\ queue = {} /\ working = {}
  /\ phase' = "finalize"
  /\ UNCHANGED <<tick, queue, working, touched, players, answered, abandoned>>

\* who may act in a room changes only here
Settle(r) ==
  /\ phase = "finalize" /\ r \in touched
  /\ touched' = touched \ {r}
  /\ \E ps \in SUBSET Users : players' = [players EXCEPT ![r] = ps]
  /\ UNCHANGED <<tick, phase, queue, working, answered, abandoned>>

\* every room with players is in the next tick, and others that are awake or wake up
NextTick ==
  /\ phase = "finalize" /\ touched = {}
  /\ tick' = tick + 1
  /\ \E rooms \in SUBSET Rooms :
       /\ \A r \in Rooms : players[r] # {} => r \in rooms
       /\ queue' = rooms /\ touched' = rooms
       /\ phase' = IF rooms = {} THEN "finalize" ELSE "process"
  /\ answered' = {} /\ abandoned' = FALSE
  /\ UNCHANGED <<working, players>>

Next ==
  \/ Abandon \/ StartFinalize \/ NextTick
  \/ \E u \in Users : Answer(u)
  \/ \E r \in Rooms : Claim(r) \/ Processed(r) \/ Settle(r)
  \/ \E targets \in SUBSET Rooms : Send(targets)

Spec == Init /\ [][Next]_vars
=============================================================================
