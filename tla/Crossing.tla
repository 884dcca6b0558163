------------------------------- MODULE Crossing -------------------------------
(***************************************************************************)
(* Creeps that go from room to room (mods/creep/processor.ts, mods/portal, *)
(* engine/processor/room.ts, worker.ts and model.ts).                      *)
(*                                                                         *)
(* A creep at the end of its room, or on a portal, is removed when the     *)
(* room is processed and sent to the other room as an intent, which that   *)
(* room executes when it is finalized: it may be asleep, on its way to     *)
(* sleep, processed before or after.  Between ticks a room is a blob and,  *)
(* maybe, an object that a worker keeps, and a room that received no       *)
(* update is copied instead of saved.  Nothing ties the removal here to    *)
(* the insertion there, but for the order of these steps.                  *)
(*                                                                         *)
(* Where in a room a creep stands is left out: players may move it         *)
(* anywhere, so it stays, dies, or leaves for any room.  A tick's order is *)
(* what module Tick establishes of it: all rooms are processed, then all   *)
(* are finalized, then the time advances.                                  *)
(***************************************************************************)
EXTENDS Integers

CONSTANTS
  Rooms,
  Creeps,   \* the players' creeps
  Owner,    \* Owner[c] is the player c belongs to
  None,     \* no worker keeps the room
  MaxTime   \* bound: game time

VARIABLES
  time,
  phase,        \* of a room: "asleep", "queued", "sending", "marking", "processed", "woken", "finalized"
  blob,         \* the creeps in a room's blob, on either side of the double buffer
  cached,       \* those in the object a worker keeps of the tick before, or None
  live,         \* those in the room under its RoomProcessor
  updated,      \* receivedUpdate
  outbox,       \* interRoomIntents: <<creep, room>>
  fresh,        \* rooms that were not to be finalized before this one sent them intents
  finalIntents, \* creeps in the list of intents to execute when the room is finalized
  processing,   \* activeRoomsProcessing: rooms to finalize
  extra,        \* finalizeExtraRooms
  active,       \* activeRooms, without its scores
  dead

tick == <<phase, processing, extra, fresh>>
room == <<live, updated, outbox>>
vars == <<time, tick, blob, cached, room, finalIntents, active, dead>>

Key(r, t) == <<t % 2, r>>
Empty == [r \in Rooms |-> {}]

\* initialize: all rooms are active; some creeps are gone already
Init ==
  /\ time = 0
  /\ phase = [r \in Rooms |-> "queued"]
  /\ \E born \in SUBSET Creeps : \E place \in [born -> Rooms] :
       /\ blob = [k \in (0..1) \X Rooms |-> {c \in born : place[c] = k[2]}]
       /\ dead = Creeps \ born
  /\ cached = [r \in Rooms |-> None]
  /\ live = Empty /\ updated = [r \in Rooms |-> FALSE] /\ outbox = Empty
  /\ fresh = Empty /\ finalIntents = Empty
  /\ processing = Rooms /\ extra = {} /\ active = Rooms
-----------------------------------------------------------------------------
(***************************************************************************)
(* process()                                                               *)
(***************************************************************************)
\* the creeps' own ticks: teleportCreep and buryCreep remove the creep and call didUpdate
Ticks(r, creeps, dying, leaving) ==
  /\ live' = [live EXCEPT ![r] = creeps \ (dying \cup leaving)]
  /\ updated' = [updated EXCEPT ![r] = dying \cup leaving # {}]
  /\ dead' = dead \cup dying

\* sendRoomIntent
Sends(r, leaving, to) == outbox' = [outbox EXCEPT ![r] = {<<c, to[c]>> : c \in leaving}]

\* from a worker that kept the room, or another one
Loads(r) == {blob[Key(r, time)]} \cup ({cached[r]} \ {None})

Process(r) ==
  /\ phase[r] = "queued"
  /\ \E creeps \in Loads(r) : \E dying \in SUBSET creeps : \E leaving \in SUBSET (creeps \ dying) :
       /\ Ticks(r, creeps, dying, leaving)
       /\ \E to \in [leaving -> Rooms] : Sends(r, leaving, to)
  /\ phase' = [phase EXCEPT ![r] = "sending"]
  /\ UNCHANGED <<time, processing, extra, fresh, blob, cached, finalIntents, active>>

Targets(r) == {letter[2] : letter \in outbox[r]}

\* publishInterRoomIntents, to every room at once: the first of two turns
PublishInterRoomIntents(r) ==
  /\ phase[r] = "sending"
  /\ phase' = [phase EXCEPT ![r] = "marking"]
  /\ finalIntents' = [q \in Rooms |-> finalIntents[q] \cup {c \in Creeps : <<c, q>> \in outbox[r]}]
  /\ outbox' = [outbox EXCEPT ![r] = {}]
  /\ fresh' = [fresh EXCEPT ![r] = Targets(r) \ processing]
  /\ processing' = processing \cup Targets(r)
  /\ UNCHANGED <<time, extra, blob, cached, live, updated, active, dead>>

\* the second turn, and roomDidProcess
RoomDidProcess(r) ==
  /\ phase[r] = "marking"
  /\ phase' = [phase EXCEPT ![r] = "processed"]
  /\ extra' = extra \cup fresh[r]
  /\ fresh' = [fresh EXCEPT ![r] = {}]
  /\ UNCHANGED <<time, processing, blob, cached, room, finalIntents, active, dead>>

AllProcessed == \A r \in Rooms : phase[r] \notin {"queued", "sending", "marking"}

\* process(true) of a room asleep: what it sends is not published
ProcessExtra(r) ==
  /\ AllProcessed /\ r \in extra
  /\ extra' = extra \ {r}
  /\ LET creeps == blob[Key(r, time)]
     IN \E dying \in SUBSET creeps : \E leaving \in SUBSET (creeps \ dying) :
          Ticks(r, creeps, dying, leaving)
  /\ phase' = [phase EXCEPT ![r] = "woken"]
  /\ UNCHANGED <<time, processing, fresh, blob, cached, outbox, finalIntents, active>>
-----------------------------------------------------------------------------
(***************************************************************************)
(* finalize()                                                              *)
(***************************************************************************)
UsersIn(creeps) == {Owner[c] : c \in creeps}

\* saveRoom or copyRoomFromPreviousTick; a room going to sleep is copied to the other side
Stores(r, creeps, saves, sleeps) ==
  LET stored == IF saves THEN creeps ELSE blob[Key(r, time)]
  IN blob' = [blob EXCEPT ![Key(r, time + 1)] = stored,
                          ![Key(r, time)] = IF sleeps THEN stored ELSE @]

\* updateUserRoomRelationships, a room woken that stays active, and sleepRoomUntil
Activates(r, before, after, again) ==
  LET empty == UsersIn(after) = {}
  IN active' = IF empty /\ ~again THEN active \ {r}
               ELSE IF UsersIn(before) # UsersIn(after) \/ (empty /\ phase[r] = "woken") THEN active \cup {r}
               ELSE active

\* mutant: an arrival does not call didUpdate
UpdatedBefore(r) == updated[r]

ReceivedUpdate(r) == updated[r] \/ finalIntents[r] # {}

\* the intents insert creeps and call didUpdate; "again" says that the room wants the next tick
Finalize(r) ==
  /\ AllProcessed /\ phase[r] \in {"processed", "woken"}
  /\ LET creeps == live[r] \cup finalIntents[r]
         before == IF cached[r] # None THEN cached[r] ELSE blob[Key(r, time)]
     IN \E again \in BOOLEAN :
          /\ live' = [live EXCEPT ![r] = creeps]
          /\ Activates(r, before, creeps, again)
          /\ Stores(r, creeps, ReceivedUpdate(r), UsersIn(creeps) = {} /\ ~again)
  /\ finalIntents' = [finalIntents EXCEPT ![r] = {}]
  /\ phase' = [phase EXCEPT ![r] = "finalized"]
  /\ UNCHANGED <<time, processing, extra, fresh, cached, updated, outbox, dead>>

\* the next tick takes the active rooms and those whose alarm rings
Advance ==
  /\ time < MaxTime /\ AllProcessed /\ extra = {}
  /\ \A r \in Rooms : phase[r] \in {"asleep", "finalized"}
  /\ time' = time + 1
  /\ \E ringing \in SUBSET (Rooms \ active) :
       /\ active' = active \cup ringing
       /\ phase' = [r \in Rooms |-> IF r \in active \cup ringing THEN "queued" ELSE "asleep"]
       /\ processing' = active \cup ringing
  /\ cached' = [r \in Rooms |-> IF phase[r] = "finalized" THEN live[r] ELSE None]
  /\ live' = Empty /\ updated' = [r \in Rooms |-> FALSE]
  /\ UNCHANGED <<extra, fresh, blob, outbox, finalIntents, dead>>

Next ==
  \/ \E r \in Rooms : \/ Process(r) \/ PublishInterRoomIntents(r) \/ RoomDidProcess(r)
                      \/ ProcessExtra(r) \/ Finalize(r)
  \/ Advance

Spec == Init /\ [][Next]_vars
-----------------------------------------------------------------------------
\* where a room's creeps are to be found
Contents(r) ==
  IF phase[r] \in {"asleep", "queued"} THEN blob[Key(r, time)]
  ELSE IF phase[r] = "finalized" THEN blob[Key(r, time + 1)]
  ELSE live[r]

Places(c) ==
  {<<"room", r>> : r \in {q \in Rooms : c \in Contents(q)}}
    \cup {<<"outbox", r>> : r \in {q \in Rooms : c \in {letter[1] : letter \in outbox[q]}}}
    \cup {<<"intent", r>> : r \in {q \in Rooms : c \in finalIntents[q]}}

OneCopy == \A c \in Creeps : IF c \in dead THEN Places(c) = {} ELSE \E place \in Places(c) : Places(c) = {place}

\* the object that a worker may go on with is the blob that others would load
KeptIsStored ==
  \A r \in Rooms : /\ phase[r] = "queued" => Loads(r) = {blob[Key(r, time)]}
                   /\ phase[r] = "finalized" => live[r] = blob[Key(r, time + 1)]

Resting == \A r \in Rooms : phase[r] \in {"asleep", "queued"}

(* A creep that lives is in exactly one room or on its way to one, and when *)
(* a tick begins none is on its way and the rooms they are in are awake,    *)
(* whoever was asleep and whichever worker has which room (teleportCreep,   *)
(* 'import', publishInterRoomIntents, RoomProcessor.finalize).              *)
NobodyGetsLost ==
  /\ OneCopy
  /\ KeptIsStored
  /\ Resting => \A r \in Rooms : finalIntents[r] = {} /\ (phase[r] = "asleep" => Contents(r) = {})
=============================================================================
