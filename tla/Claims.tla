-------------------------------- MODULE Claims --------------------------------
(***************************************************************************)
(* Who owns a room (mods/controller/processor.ts, model.ts, creep.ts, and  *)
(* the spawn mod's placeSpawn).  Rooms are processed side by side.  Each   *)
(* handles its intents in one go and then awaits the store operations they *)
(* sent, in order, and the tasks they started; a claim is such a task: it  *)
(* reads how many rooms the user controls and how many he may, enters the  *)
(* room in the user's set, counts again, and withdraws if there are now    *)
(* too many.  What the tasks found takes effect before the tick goes on.   *)
(* The backend lets a user without presence ask for a spawn; the intent is *)
(* processed at some later time, and does not look at presence again.      *)
(***************************************************************************)
EXTENDS Naturals, Sequences, FiniteSets, SequencesExt, Functions

CONSTANTS
  Users,
  Rooms,
  Nobody,
  MaxLevel,   \* bound: global control level
  MaxTime     \* bound: ticks

ASSUME ClaimsAssumption ==
  /\ IsFiniteSet(Users) /\ IsFiniteSet(Rooms) /\ Nobody \notin Users
  /\ MaxLevel \in Nat \ {0} /\ MaxTime \in Nat

VARIABLES
  level,        \* is the room's controller above level 0
  roomUser,     \* room['#user']: who owns or has reserved the room
  user,         \* controller['#user']
  controlled,   \* scratch: controlledRooms of each user
  gcl,          \* db: the number of rooms that the user's global control level allows
  present,      \* users with objects in the world
  known,        \* scratch: users with rooms to send intents to, as of the rooms' finalization
  asked,        \* spawns that have been granted by the backend and not yet processed
  raced,        \* history: rooms from a spawn of a user who was in the world already
  entitled,     \* users whose player code may send claimController in this tick
  phase,        \* of a room in this tick: "intents", "tasks", "done"
  sent,         \* per room: operations on controlledRooms under way, in order
  task,         \* per room and user: the claim under way
  time

world == <<level, roomUser, user>>
spawns == <<known, asked, raced>>
vars == <<world, controlled, gcl, present, spawns, entitled, phase, sent, task, time>>

\* capacity 0 and count Unread: not read yet, or no longer needed
Unread == Cardinality(Rooms) + 1
At(pc) == [pc |-> pc, count |-> Unread, capacity |-> 0]
NoTask == At("none")

\* player code is stopped by ERR_GCL_NOT_ENOUGH, as far as it knows
Entitled == {u \in present : Cardinality(controlled[u]) < gcl[u]}

Init ==
  /\ level = [r \in Rooms |-> FALSE] /\ roomUser = [r \in Rooms |-> Nobody] /\ user = roomUser
  /\ controlled = [u \in Users |-> {}] /\ gcl = [u \in Users |-> 1]
  /\ present \in SUBSET Users /\ entitled = present
  /\ known = present /\ asked = {} /\ raced = {}
  /\ phase = [r \in Rooms |-> "intents"] /\ sent = [r \in Rooms |-> <<>>]
  /\ task = [r \in Rooms |-> [u \in Users |-> NoTask]] /\ time = 0

Sends(r, ops) == sent' = [sent EXCEPT ![r] = @ \o ops]
Becomes(r, above, owner, marked) ==
  /\ level' = [level EXCEPT ![r] = above]
  /\ roomUser' = [roomUser EXCEPT ![r] = owner]
  /\ user' = [user EXCEPT ![r] = marked]
-----------------------------------------------------------------------------
(***************************************************************************)
(* Intents                                                                 *)
(***************************************************************************)
\* "Set user to ensure another user doesn't claim this controller while the promises are pending"
\* (bound: a user claims a room once in a tick)
ClaimController(r, u) ==
  /\ task[r][u] = NoTask
  /\ phase[r] = "intents" /\ u \in entitled
  /\ user[r] = Nobody /\ roomUser[r] \in {Nobody, u}
  /\ user' = [user EXCEPT ![r] = u]
  /\ task' = [task EXCEPT ![r][u] = At("read")]
  /\ UNCHANGED <<level, roomUser, controlled, gcl, present, spawns, entitled, phase, sent, time>>

ReserveController(r, u) ==
  /\ phase[r] = "intents" /\ u \in present
  /\ user[r] \in {Nobody, u} /\ roomUser[r] = Nobody /\ ~level[r]
  /\ roomUser' = [roomUser EXCEPT ![r] = u]
  /\ UNCHANGED <<level, user, controlled, gcl, present, spawns, entitled, phase, sent, task, time>>

\* release(): of the sets, the one of controlled rooms is modelled
Release(r) ==
  /\ Sends(r, IF level[r] THEN <<[op |-> "remove", user |-> roomUser[r]]>> ELSE <<>>)
  /\ Becomes(r, FALSE, Nobody, Nobody)

\* unclaim, by whoever the controller names; unspawn; a downgrade; or the end of a reservation
LosesRoom(r) ==
  /\ phase[r] = "intents" /\ {user[r], roomUser[r]} # {Nobody}
  /\ Release(r)
  /\ raced' = raced \ {r}
  /\ UNCHANGED <<controlled, gcl, present, known, asked, entitled, phase, task, time>>

\* mutant: whoever calls has counted the room already
ClaimQuietly(r, u) == Becomes(r, TRUE, u, u) /\ UNCHANGED sent

\* claim()
Claim(r, u) ==
  /\ Sends(r, <<[op |-> "insert", user |-> u]>>)
  /\ Becomes(r, TRUE, u, u)

\* a user who has no presence, as far as scratch knows; the room's blob may be a tick old, so that
\* only the processor decides whether the room is free (bound: one request for a room at a time)
AsksSpawn(r, u) ==
  /\ u \notin known /\ <<r, u>> \notin asked
  /\ asked' = asked \cup {<<r, u>>}
  /\ UNCHANGED <<world, controlled, gcl, present, known, raced, entitled, phase, sent, task, time>>

\* the room may meanwhile have been marked by another; a user's room intents come before his objects'
PlaceSpawn(r, u) ==
  /\ phase[r] = "intents" /\ <<r, u>> \in asked /\ task[r][u] = NoTask
  /\ asked' = asked \ {<<r, u>>}
  /\ \/ /\ roomUser[r] = Nobody
        /\ Claim(r, u)
        /\ present' = present \cup {u}
        /\ raced' = IF u \in present THEN raced \cup {r} ELSE raced
     \/ roomUser[r] # Nobody /\ UNCHANGED <<world, sent, present, raced>>
  /\ UNCHANGED <<controlled, gcl, known, entitled, phase, task, time>>

\* the end of the intents and of the objects' tick
IntentsEnd(r) ==
  /\ phase[r] = "intents"
  /\ phase' = [phase EXCEPT ![r] = "tasks"]
  /\ UNCHANGED <<world, controlled, gcl, present, spawns, entitled, sent, task, time>>

\* incrementGlobalControlLevel, for an upgrade of a controller
GainsLevel(u) ==
  /\ \E r \in Rooms : level[r] /\ roomUser[r] = u /\ phase[r] = "tasks"
  /\ gcl[u] < MaxLevel
  /\ gcl' = [gcl EXCEPT ![u] = @ + 1]
  /\ UNCHANGED <<world, controlled, present, spawns, entitled, phase, sent, task, time>>
-----------------------------------------------------------------------------
(***************************************************************************)
(* Store operations and tasks                                              *)
(***************************************************************************)
Enter(u, r) == controlled' = [controlled EXCEPT ![u] = @ \cup {r}]
Leave(u, r) == controlled' = [controlled EXCEPT ![u] = @ \ {r}]

\* insertControlledRoom and removeControlledRoom; claims send theirs afterwards
StoreHandles(r) ==
  /\ phase[r] # "intents" /\ sent[r] # <<>>
  /\ sent' = [sent EXCEPT ![r] = Tail(@)]
  /\ LET next == Head(sent[r])
     IN IF next.op = "insert" THEN Enter(next.user, r) ELSE Leave(next.user, r)
  /\ UNCHANGED <<world, gcl, present, spawns, entitled, phase, task, time>>

Running(r, u, pc) == phase[r] = "tasks" /\ sent[r] = <<>> /\ task[r][u].pc = pc
Goes(r, u, to) == task' = [task EXCEPT ![r][u] = to]
OnlyTask == UNCHANGED <<world, controlled, gcl, present, spawns, entitled, phase, sent, time>>

\* the count and the level are read from two stores
ReadsCount(r, u) ==
  /\ Running(r, u, "read") /\ task[r][u].count = Unread
  /\ Goes(r, u, [task[r][u] EXCEPT !.count = Cardinality(controlled[u])])
  /\ OnlyTask

ReadsLevel(r, u) ==
  /\ Running(r, u, "read") /\ task[r][u].capacity = 0
  /\ Goes(r, u, [task[r][u] EXCEPT !.capacity = gcl[u]])
  /\ OnlyTask

Decides(r, u) ==
  /\ Running(r, u, "read") /\ task[r][u].count # Unread /\ task[r][u].capacity > 0
  /\ Goes(r, u, IF task[r][u].capacity > task[r][u].count
                 THEN [task[r][u] EXCEPT !.pc = "insert", !.count = Unread] ELSE At("failed"))
  /\ OnlyTask

Inserts(r, u) ==
  /\ Running(r, u, "insert")
  /\ Enter(u, r)
  /\ Goes(r, u, [task[r][u] EXCEPT !.pc = "recount"])
  /\ UNCHANGED <<world, gcl, present, spawns, entitled, phase, sent, time>>

\* mutant: what it read before is enough
Trusts(r, u) ==
  /\ Running(r, u, "recount")
  /\ Goes(r, u, At("claimed"))
  /\ OnlyTask

Recounts(r, u) ==
  /\ Running(r, u, "recount")
  /\ Goes(r, u, At(IF task[r][u].capacity >= Cardinality(controlled[u]) THEN "claimed" ELSE "remove"))
  /\ OnlyTask

Withdraws(r, u) ==
  /\ Running(r, u, "remove")
  /\ Leave(u, r)
  /\ Goes(r, u, At("failed"))
  /\ UNCHANGED <<world, gcl, present, spawns, entitled, phase, sent, time>>

Settled(r) == \A u \in Users : task[r][u].pc \in {"none", "claimed", "failed"}
Winners(r) == {u \in Users : task[r][u].pc = "claimed"}

\* the tasks' finalizers, one after another: the last one has the room; then scratch is told of its user
TasksEnd(r) ==
  /\ phase[r] = "tasks" /\ sent[r] = <<>> /\ Settled(r)
  /\ task' = [task EXCEPT ![r] = [u \in Users |-> NoTask]]
  /\ IF Winners(r) = {}
     THEN /\ phase' = [phase EXCEPT ![r] = "done"]
          /\ known' = known \cup ({roomUser[r]} \ {Nobody})
          /\ UNCHANGED <<world, sent, raced>>
     ELSE /\ \E order \in SetToSeqs(Winners(r)) :
               /\ Becomes(r, TRUE, Last(order), Last(order))
               /\ Sends(r, [i \in DOMAIN order |-> [op |-> "insert", user |-> order[i]]])
          /\ raced' = raced \ {r}
          /\ UNCHANGED <<phase, known>>
  /\ UNCHANGED <<controlled, gcl, present, asked, entitled, time>>

\* and a user who has lost every object
NextTick ==
  /\ \A r \in Rooms : phase[r] = "done"
  /\ time < MaxTime /\ time' = time + 1
  /\ phase' = [r \in Rooms |-> "intents"]
  /\ \E gone \in SUBSET present :
       /\ \A u \in gone, r \in Rooms : roomUser[r] # u
       /\ present' = present \ gone
  /\ known' = present'
  /\ entitled' = Entitled \cap present'
  /\ UNCHANGED <<world, controlled, gcl, asked, raced, sent, task>>

Next ==
  \/ \E r \in Rooms, u \in Users :
       \/ ClaimController(r, u) \/ ReserveController(r, u) \/ AsksSpawn(r, u) \/ PlaceSpawn(r, u)
       \/ ReadsCount(r, u) \/ ReadsLevel(r, u) \/ Decides(r, u)
       \/ Inserts(r, u) \/ Recounts(r, u) \/ Withdraws(r, u)
  \/ \E r \in Rooms : LosesRoom(r) \/ IntentsEnd(r) \/ StoreHandles(r) \/ TasksEnd(r)
  \/ \E u \in Users : GainsLevel(u)
  \/ NextTick

Spec == Init /\ [][Next]_vars
-----------------------------------------------------------------------------
Owned(u) == {r \in Rooms : level[r] /\ roomUser[r] = u}

(* However many rooms a user claims, loses and regains in one tick, in      *)
(* whatever order their tasks read and write, he never has more than his    *)
(* global control level allows (claimController: "Check GCL"); also when he *)
(* gets his first room by a spawn.  What a spawn adds that was asked for    *)
(* twice, and placed when he was in the world already, is left out: nobody  *)
(* counts there (place-spawn, placeSpawn).                                  *)
NeverOverLevel == \A u \in Users : Cardinality(Owned(u) \ raced) <= gcl[u]

(* Every room a user has when a tick ends counts against his level, also    *)
(* when several claims of it, a release and a spawn meet in one tick.       *)
OwnedIsCounted ==
  \A r \in Rooms, u \in Users : phase[r] = "done" /\ r \in Owned(u) => r \in controlled[u]
=============================================================================
