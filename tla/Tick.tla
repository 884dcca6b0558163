-------------------------------- MODULE Tick --------------------------------
(***************************************************************************)
(* The tick protocol of one shard: main's tick() (engine/service/main.ts), *)
(* the processor service and its workers (service/processor.ts,            *)
(* processor/worker.ts, processor/room.ts), the runner service             *)
(* (service/runner.ts, runner/instance.ts) and the scratch store they      *)
(* synchronise through (processor/model.ts).                               *)
(*                                                                         *)
(* A step is what one event-loop turn does: a batch of scratch commands    *)
(* issued together (the Promise.all of the code) is one step, and every    *)
(* await between two batches is a step boundary.  A room's contents are    *)
(* abstracted to the players who may act in it and the time it wants to be *)
(* woken; intents are who sent them and for which tick.                    *)
(***************************************************************************)
EXTENDS Keyval, Sequences

CONSTANTS
  Rooms,        \* every room of the shard
  Users,        \* every player (system users have no intents to wait for)
  Workers,      \* the workers of the processor service
  System,       \* the sender of intents pushed by a backend, not by a player
  MaxTime,      \* bound: main is shut down after the tick of this time
  MaxNap,       \* bound: how many ticks ahead a room may ask to be woken
  Prefetch,     \* bound: rooms a worker may hold besides the one it processes
  MaxCrashes,   \* bound: how often the runner service may die
  MaxPushes     \* bound: how many intents the backend pushes

ASSUME TickAssumption ==
  /\ IsFiniteSet(Rooms) /\ Rooms # {}
  /\ IsFiniteSet(Users)
  /\ IsFiniteSet(Workers) /\ Workers # {}
  /\ System \notin Users
  /\ Null \notin Rooms
  /\ MaxTime \in Nat \ {0}
  /\ MaxNap \in Nat
  /\ Prefetch \in Nat \ {0}
  /\ MaxCrashes \in Nat
  /\ MaxPushes \in Nat

Times == 1 .. MaxTime + 1

\* wakeAt() times a room may end with at `time`; Null is Infinity, no alarm
Wakes(time) == (time + 1 .. time + 1 + MaxNap) \cup {Null}

\* runnerUsersSetKey: the two user queues alternate
Slot(time) == time % 2

Everyone == Cardinality(Workers)
-----------------------------------------------------------------------------
VARIABLES
  \* main
  mainPc,         \* "start" | "run" | "listen" | "next" | "stopped": where the main loop is
  tickTime,       \* the time that tick() captured
  shardTime,      \* shard.time
  nextTasks,      \* what is left of preparing the next tick: "beget", "clock"
  timer,          \* the intent abandon timer: "off" | "armed" | "fired"
  \* scratch store
  activeRooms, sleepingRooms, processRooms, processedRooms, roomsPending,
  finalizePending, finalizeExtraRooms, activeUsers, runnerUsers,
  intents,        \* per room, <<sender, time>> of each list element
  finalIntents,   \* the rooms whose inter-room intents list is not empty
  \* channels: messages published and not yet handled
  serviceChannel, processorChannel, runnerChannel,
  abandonNotices, \* ticks whose abandon timer still has its process message to publish
  \* processor service
  servicePc,      \* "listen" | "finalize"
  finalizingTime, \* the time of the finalize message being handled
  workerPc,       \* where the worker's loop is
  currentTime, pendingTime, finalizedTime,
  held,           \* rooms popped by the worker's iterator and not started
  room,           \* the room being processed
  unmarked,       \* rooms it sent intents to that still need finalizeExtraRooms
  processed,      \* worker.processed: rooms of this tick
  unfinalized,    \* rooms of `processed` this finalization has still to finalize
  finalizeCount,  \* rooms this finalization has finalized
  finalizePc,     \* "none" | "work" | "done": the worker's finalize request
  \* runner service
  runnerUp, runTime, runOpen,
  userPc,         \* "none" | "read" | "deactivate" | "run" | "reset" | "notify"
  userRooms,      \* intentRooms as the runner read them
  zeroed,         \* rooms whose count the user's publication brought to zero or below
  negative,       \* those that went below zero
  crashes, pushes,
  \* the room blobs
  users,          \* '#users'.intents without system users
  answered        \* history: players who published for the tick being processed

mainVars == <<mainPc, tickTime, shardTime, nextTasks, timer>>
roomSets == <<activeRooms, sleepingRooms>>
tickKeys == <<processRooms, processedRooms, roomsPending, finalizePending, finalizeExtraRooms>>
userSets == <<activeUsers, runnerUsers>>
lists == <<intents, finalIntents>>
channels == <<serviceChannel, processorChannel, runnerChannel, abandonNotices>>
loopVars == <<workerPc, currentTime, pendingTime, held, room, unmarked>>
finalizeVars == <<servicePc, finalizingTime, finalizedTime, processed, unfinalized, finalizeCount, finalizePc>>
runnerVars == <<runnerUp, runTime, runOpen, userPc, userRooms, zeroed, negative, crashes>>
blobs == <<users, answered>>
vars == <<mainVars, roomSets, tickKeys, userSets, lists, channels, loopVars, finalizeVars,
          runnerVars, pushes, blobs>>

ProcessMessage(time, wake) == [type |-> "process", time |-> time, wake |-> wake]
FinalizeMessage(time) == [type |-> "finalize", time |-> time, wake |-> 0]
TickFinished(time) == [type |-> "tickFinished", time |-> time]
RunnerConnected == [type |-> "runnerConnected", time |-> 0]

\* mutant: the rooms the player can see are taken for the rooms he may act in
VisibleRooms(user) == Rooms

\* userToIntentRoomsSetKey(user): kept equal to the rooms' own user lists by
\* updateUserRoomRelationships, which writes both sides of a difference in one batch
IntentRooms(user) == {r \in Rooms : user \in users[r]}
-----------------------------------------------------------------------------
(***************************************************************************)
(* Every room has been initialised (worker 'initialize' requests) and main *)
(* has made the first process queue from them: no player has run yet.      *)
(***************************************************************************)
Init ==
  /\ users \in [Rooms -> SUBSET Users]
  /\ mainPc = "start" /\ tickTime = 0 /\ shardTime = 1 /\ nextTasks = {} /\ timer = "off"
  /\ activeRooms = [r \in Rooms |-> Cardinality(users[r])]
  /\ sleepingRooms = [r \in Rooms |-> Null]
  /\ processRooms = [t \in Times |-> IF t = 1 THEN activeRooms ELSE sleepingRooms]
  /\ processedRooms = [t \in Times |-> IF t = 1 THEN Rooms ELSE {}]
  /\ roomsPending = [t \in Times |-> IF t = 1 THEN Cardinality(Rooms) ELSE Null]
  /\ finalizePending = [t \in Times |-> Null]
  /\ finalizeExtraRooms = [t \in Times |-> {}]
  /\ activeUsers = {u \in Users : IntentRooms(u) # {}}
  /\ runnerUsers = [s \in {0, 1} |-> {}]
  /\ intents = [r \in Rooms |-> {}] /\ finalIntents = {}
  /\ serviceChannel = <<>> /\ processorChannel = <<>> /\ runnerChannel = <<>>
  /\ abandonNotices = {}
  /\ servicePc = "listen" /\ finalizingTime = 0
  /\ workerPc = [w \in Workers |-> "idle"]
  /\ currentTime = [w \in Workers |-> 0] /\ finalizedTime = 0
  /\ pendingTime = [w \in Workers |-> Null]
  /\ held = [w \in Workers |-> {}] /\ room = [w \in Workers |-> Null]
  /\ unmarked = [w \in Workers |-> {}] /\ processed = [w \in Workers |-> {}]
  /\ unfinalized = [w \in Workers |-> {}] /\ finalizeCount = [w \in Workers |-> 0]
  /\ finalizePc = [w \in Workers |-> "none"]
  /\ runnerUp = TRUE /\ runTime = 0 /\ runOpen = FALSE
  /\ userPc = [u \in Users |-> "none"] /\ userRooms = [u \in Users |-> {}]
  /\ zeroed = [u \in Users |-> {}] /\ negative = [u \in Users |-> {}]
  /\ crashes = 0 /\ pushes = 0 /\ answered = {}
-----------------------------------------------------------------------------
(***************************************************************************)
(* main.ts                                                                 *)
(***************************************************************************)
\* tick(): copy the active users to this tick's queue and ask the processors to start ...
StartTick ==
  /\ mainPc = "start"
  /\ tickTime' = shardTime
  /\ mainPc' = "run"
  \* copy() of a key that does not exist leaves its destination alone
  /\ runnerUsers' = IF activeUsers = {} THEN runnerUsers
                    ELSE [runnerUsers EXCEPT ![Slot(shardTime)] = activeUsers]
  /\ processorChannel' = Append(processorChannel, ProcessMessage(shardTime, Everyone))
  /\ UNCHANGED <<shardTime, nextTasks, timer, roomSets, tickKeys, activeUsers, lists, serviceChannel,
                 runnerChannel, abandonNotices, loopVars, finalizeVars, runnerVars, pushes, blobs>>

\* ... then ask the runners, and listen until the tick finishes or its intents are abandoned
PublishRun ==
  /\ mainPc = "run"
  /\ mainPc' = "listen"
  /\ timer' = "armed"
  /\ runnerChannel' = IF runnerUp THEN Append(runnerChannel, tickTime) ELSE runnerChannel
  /\ UNCHANGED <<tickTime, shardTime, nextTasks, roomSets, tickKeys, userSets, lists, serviceChannel,
                 processorChannel, abandonNotices, loopVars, finalizeVars, runnerVars, pushes, blobs>>

\* case 'runnerConnected' of tick()
HandleRunnerConnected ==
  /\ mainPc = "listen"
  /\ serviceChannel # <<>> /\ Head(serviceChannel).type = "runnerConnected"
  /\ serviceChannel' = Tail(serviceChannel)
  /\ runnerChannel' = IF runnerUp THEN Append(runnerChannel, tickTime) ELSE runnerChannel
  /\ UNCHANGED <<mainVars, roomSets, tickKeys, userSets, lists, processorChannel, abandonNotices,
                 loopVars, finalizeVars, runnerVars, pushes, blobs>>

\* case 'tickFinished' of tick(): the message's time is not looked at
HandleTickFinished ==
  /\ mainPc = "listen"
  /\ serviceChannel # <<>> /\ Head(serviceChannel).type = "tickFinished"
  /\ serviceChannel' = Tail(serviceChannel)
  /\ mainPc' = "next"
  /\ nextTasks' = {"beget", "clock"}
  /\ UNCHANGED <<tickTime, shardTime, timer, roomSets, tickKeys, userSets, lists, processorChannel,
                 runnerChannel, abandonNotices, loopVars, finalizeVars, runnerVars, pushes, blobs>>

\* mutant: off by one
AlmostNothingToProcess(count) == count <= 1

\* no room to process: begetRoomProcessQueue deletes the counter and the tick is finished already
NothingToProcess(count) == count = 0

\* begetRoomProcessQueue: waking rooms join the active ones, waiting for nobody, and the
\* active rooms become the next process queue
BegetRoomProcessQueue ==
  LET time == tickTime + 1
      waking == ZRangeStore(sleepingRooms, 0, time)
      queue == ZUnionStore(activeRooms, waking, 1, 0)
      count == ZCard(queue)
  IN /\ mainPc = "next" /\ "beget" \in nextTasks
     /\ nextTasks' = nextTasks \ {"beget"}
     /\ activeRooms' = queue
     /\ processRooms' = [processRooms EXCEPT ![time] = queue]
     /\ sleepingRooms' = ZRemRange(sleepingRooms, 0, time)
     /\ processedRooms' = [processedRooms EXCEPT ![time] = processedRooms[time] \cup ZMembers(queue)]
     /\ roomsPending' = [roomsPending EXCEPT ![time] = IF NothingToProcess(count) THEN Null ELSE count]
     /\ serviceChannel' = IF NothingToProcess(count) THEN Append(serviceChannel, TickFinished(time)) ELSE serviceChannel
     /\ answered' = {}
     /\ UNCHANGED <<mainPc, tickTime, shardTime, timer, finalizePending, finalizeExtraRooms,
                    userSets, lists, processorChannel, runnerChannel, abandonNotices, loopVars,
                    finalizeVars, runnerVars, pushes, users>>

\* the other half of that Promise.all: shard.time = nextTime
AdvanceTime ==
  /\ mainPc = "next" /\ "clock" \in nextTasks
  /\ nextTasks' = nextTasks \ {"clock"}
  /\ shardTime' = tickTime + 1
  /\ UNCHANGED <<mainPc, tickTime, timer, roomSets, tickKeys, userSets, lists, channels, loopVars,
                 finalizeVars, runnerVars, pushes, blobs>>

\* tick() returns and disposes its timer; after the last tick main is shut down
EndTick ==
  /\ mainPc = "next" /\ nextTasks = {}
  /\ timer' = "off"
  /\ mainPc' = IF tickTime = MaxTime THEN "stopped" ELSE "start"
  /\ UNCHANGED <<tickTime, shardTime, nextTasks, roomSets, tickKeys, userSets, lists, channels,
                 loopVars, finalizeVars, runnerVars, pushes, blobs>>

\* abandonIntentsForTick: stop waiting for players, and forget those who have not run
AbandonIntents ==
  /\ timer = "armed"
  /\ timer' = "fired"
  /\ processRooms' = [processRooms EXCEPT ![tickTime] = ZInterStore(processRooms[tickTime], 0)]
  /\ runnerUsers' = [runnerUsers EXCEPT ![Slot(tickTime)] = {}]
  /\ abandonNotices' = abandonNotices \cup {tickTime}
  /\ UNCHANGED <<mainPc, tickTime, shardTime, nextTasks, roomSets, processedRooms, roomsPending,
                 finalizePending, finalizeExtraRooms, activeUsers, lists, serviceChannel,
                 processorChannel, runnerChannel, loopVars, finalizeVars, runnerVars, pushes, blobs>>

\* ... and wake the workers; nothing stops this when the tick has ended meanwhile
PublishAbandoned(time) ==
  /\ time \in abandonNotices
  /\ abandonNotices' = abandonNotices \ {time}
  /\ processorChannel' = Append(processorChannel, ProcessMessage(time, Everyone))
  /\ UNCHANGED <<mainVars, roomSets, tickKeys, userSets, lists, serviceChannel, runnerChannel,
                 loopVars, finalizeVars, runnerVars, pushes, blobs>>
-----------------------------------------------------------------------------
(***************************************************************************)
(* The processor service's message loop (processor.ts) and the wake latch  *)
(* of its workers (wakeable-worker.ts).                                    *)
(***************************************************************************)
Smaller(a, b) == IF a <= b THEN a ELSE b

Idle == {w \in Workers : workerPc[w] = "idle"}

\* mutant: a worker that has already looked at this tick is not woken again
WakeableOnce(w, time) == time > finalizedTime /\ time > currentTime[w]

\* the guard of requestWorkerWake
Wakeable(w, time) == time > finalizedTime /\ time >= currentTime[w]

\* mutant: a busy worker does not remember the request
NoLatch(w, time) == pendingTime[w]

\* requestWorkerWake of a busy worker
Latch(w, time) ==
  IF pendingTime[w] = Null \/ pendingTime[w] < time THEN time ELSE pendingTime[w]

\* case 'process': wake idle workers first, then latch the request in enough busy ones
HandleProcess ==
  /\ servicePc = "listen"
  /\ processorChannel # <<>> /\ Head(processorChannel).type = "process"
  /\ processorChannel' = Tail(processorChannel)
  /\ LET time == Head(processorChannel).time
         activations == Head(processorChannel).wake
         ready == {w \in Idle : Wakeable(w, time)}
         busy == Workers \ Idle
     IN \E started \in SUBSET ready, asked \in SUBSET busy :
          /\ Cardinality(started) = Smaller(activations, Cardinality(ready))
          /\ Cardinality(asked) = Smaller(activations - Cardinality(started), Cardinality(busy))
          /\ workerPc' = [w \in Workers |-> IF w \in started THEN "drain" ELSE workerPc[w]]
          /\ currentTime' = [w \in Workers |-> IF w \in started THEN time ELSE currentTime[w]]
          /\ pendingTime' = [w \in Workers |->
                              IF w \in started THEN Null
                              ELSE IF w \in asked /\ Wakeable(w, time) THEN Latch(w, time)
                              ELSE pendingTime[w]]
  /\ UNCHANGED <<mainVars, roomSets, tickKeys, userSets, lists, serviceChannel, runnerChannel,
                 abandonNotices, held, room, unmarked, finalizeVars, runnerVars, pushes, blobs>>

\* case 'finalize': every worker that processed a room gets a finalize request, and the loop
\* handles no other message until all of them are answered
HandleFinalize ==
  /\ servicePc = "listen"
  /\ processorChannel # <<>> /\ Head(processorChannel).type = "finalize"
  /\ processorChannel' = Tail(processorChannel)
  /\ servicePc' = "finalize"
  /\ finalizingTime' = Head(processorChannel).time
  /\ finalizePc' = [w \in Workers |-> IF processed[w] # {} THEN "work" ELSE "done"]
  /\ unfinalized' = processed
  /\ finalizeCount' = [w \in Workers |-> 0]
  /\ UNCHANGED <<mainVars, roomSets, tickKeys, userSets, lists, serviceChannel, runnerChannel,
                 abandonNotices, loopVars, finalizedTime, processed, runnerVars, pushes, blobs>>

\* the rest of case 'finalize': no worker may be woken for this tick any more
FinishFinalize ==
  /\ servicePc = "finalize"
  /\ \A w \in Workers : finalizePc[w] = "done"
  /\ servicePc' = "listen"
  /\ finalizedTime' = IF finalizingTime > finalizedTime THEN finalizingTime ELSE finalizedTime
  /\ processed' = [w \in Workers |-> {}]
  /\ finalizePc' = [w \in Workers |-> "none"]
  /\ UNCHANGED <<mainVars, roomSets, tickKeys, userSets, lists, channels, loopVars, finalizingTime,
                 unfinalized, finalizeCount, runnerVars, pushes, blobs>>
-----------------------------------------------------------------------------
(***************************************************************************)
(* One worker: the drain of the process queue (consumeRoomsQueue), and     *)
(* what a 'process' request does in the worker.                            *)
(***************************************************************************)
\* mutant: off by one
AlmostAvailable(time) == ZByScore(processRooms[time], 0, 1)

\* rooms whose players have all answered
Available(time) == ZByScore(processRooms[time], 0, 0)

\* mutant: the room is read but not removed
PopRoomShared(w, r) ==
  /\ workerPc[w] \notin {"idle", "unwind"}
  /\ Cardinality(held[w]) < Prefetch
  /\ r \in Available(currentTime[w])
  /\ held' = [held EXCEPT ![w] = held[w] \cup {r}]
  /\ UNCHANGED <<mainVars, roomSets, tickKeys, userSets, lists, channels, workerPc, currentTime,
                 pendingTime, room, unmarked, finalizeVars, runnerVars, pushes, blobs>>

\* take a room nobody has to wait for; the affinity iterator looks ahead while a room is processed
PopRoom(w, r) ==
  /\ workerPc[w] \notin {"idle", "unwind"}
  /\ Cardinality(held[w]) < Prefetch
  /\ r \in Available(currentTime[w])
  /\ processRooms' = [processRooms EXCEPT ![currentTime[w]] = ZRem(processRooms[currentTime[w]], {r})]
  /\ held' = [held EXCEPT ![w] = held[w] \cup {r}]
  /\ UNCHANGED <<mainVars, roomSets, processedRooms, roomsPending, finalizePending,
                 finalizeExtraRooms, userSets, lists, channels, workerPc, currentTime, pendingTime,
                 room, unmarked, finalizeVars, runnerVars, pushes, blobs>>

\* load the room and take all of its intents (acquireIntentsForRoom)
StartRoom(w, r) ==
  /\ workerPc[w] = "drain" /\ r \in held[w]
  /\ held' = [held EXCEPT ![w] = held[w] \ {r}]
  /\ room' = [room EXCEPT ![w] = r]
  /\ processed' = [processed EXCEPT ![w] = processed[w] \cup {r}]
  /\ intents' = [intents EXCEPT ![r] = {}]
  /\ workerPc' = [workerPc EXCEPT ![w] = "send"]
  /\ UNCHANGED <<mainVars, roomSets, tickKeys, userSets, finalIntents, channels, currentTime,
                 pendingTime, unmarked, servicePc, finalizingTime, finalizedTime, unfinalized,
                 finalizeCount, finalizePc, runnerVars, pushes, blobs>>

\* mutant: the number sAdd added is misread
StaleTargets(time, targets) == targets \cap processedRooms[time]

\* targets that are not part of the tick yet: those sAdd adds
FreshTargets(time, targets) == targets \ processedRooms[time]

\* publishInterRoomIntents to the rooms in `targets`
SendIntents(w, targets) ==
  LET time == currentTime[w]
      fresh == FreshTargets(time, targets)
  IN /\ workerPc[w] = "send"
     /\ room[w] \notin targets
     /\ processedRooms' = [processedRooms EXCEPT ![time] = processedRooms[time] \cup targets]
     /\ finalIntents' = finalIntents \cup targets
     /\ unmarked' = [unmarked EXCEPT ![w] = fresh]
     /\ workerPc' = [workerPc EXCEPT ![w] = IF fresh = {} THEN "decr" ELSE "mark"]
     /\ UNCHANGED <<mainVars, roomSets, processRooms, roomsPending, finalizePending,
                    finalizeExtraRooms, userSets, intents, channels, currentTime, pendingTime,
                    held, room, finalizeVars, runnerVars, pushes, blobs>>

\* ... its second half: a room that was not part of this tick has to be finalized too
MarkExtraRooms(w) ==
  LET time == currentTime[w]
  IN /\ workerPc[w] = "mark"
     /\ finalizeExtraRooms' =
          [finalizeExtraRooms EXCEPT ![time] = finalizeExtraRooms[time] \cup unmarked[w]]
     /\ unmarked' = [unmarked EXCEPT ![w] = {}]
     /\ workerPc' = [workerPc EXCEPT ![w] = "decr"]
     /\ UNCHANGED <<mainVars, roomSets, processRooms, processedRooms, roomsPending, finalizePending,
                    userSets, lists, channels, currentTime, pendingTime, held, room, finalizeVars,
                    runnerVars, pushes, blobs>>

\* mutant: off by one
AlmostLastRoom(count) == count <= 1

LastRoom(count) == count = 0

\* roomDidProcess: count the room; the last one goes on to announce finalization
RoomDidProcess(w) ==
  LET time == currentTime[w]
      count == DecrBy(roomsPending[time], 1)
  IN /\ workerPc[w] = "decr"
     /\ roomsPending' = [roomsPending EXCEPT ![time] = count]
     /\ room' = [room EXCEPT ![w] = Null]
     /\ workerPc' = [workerPc EXCEPT ![w] = IF LastRoom(count) THEN "announce" ELSE "drain"]
     /\ UNCHANGED <<mainVars, roomSets, processRooms, processedRooms, finalizePending,
                    finalizeExtraRooms, userSets, lists, channels, currentTime, pendingTime, held,
                    unmarked, finalizeVars, runnerVars, pushes, blobs>>

AnnounceFinalize(w) ==
  LET time == currentTime[w]
  IN /\ workerPc[w] = "announce"
     /\ finalizePending' = [finalizePending EXCEPT ![time] = Cardinality(processedRooms[time])]
     /\ processorChannel' = Append(processorChannel, FinalizeMessage(time))
     /\ processedRooms' = [processedRooms EXCEPT ![time] = {}]
     /\ roomsPending' = [roomsPending EXCEPT ![time] = Null]
     /\ workerPc' = [workerPc EXCEPT ![w] = "drain"]
     /\ UNCHANGED <<mainVars, roomSets, processRooms, finalizeExtraRooms, userSets, lists,
                    serviceChannel, runnerChannel, abandonNotices, currentTime, pendingTime, held,
                    room, unmarked, finalizeVars, runnerVars, pushes, blobs>>

\* the queue has no room to take: the drain returns ...
DrainEnds(w) ==
  /\ workerPc[w] = "drain" /\ held[w] = {}
  /\ Available(currentTime[w]) = {}
  /\ workerPc' = [workerPc EXCEPT ![w] = "unwind"]
  /\ UNCHANGED <<mainVars, roomSets, tickKeys, userSets, lists, channels, currentTime, pendingTime,
                 held, room, unmarked, finalizeVars, runnerVars, pushes, blobs>>

\* mutant: goes on to the latched time without looking whether there is one
WorkerRestarts(w) ==
  /\ workerPc[w] = "unwind"
  /\ workerPc' = [workerPc EXCEPT ![w] = "drain"]
  /\ currentTime' = [currentTime EXCEPT ![w] = pendingTime[w]]
  /\ pendingTime' = [pendingTime EXCEPT ![w] = Null]
  /\ UNCHANGED <<mainVars, roomSets, tickKeys, userSets, lists, channels, held, room, unmarked,
                 finalizeVars, runnerVars, pushes, blobs>>

\* ... and runWorkerUntilIdle goes idle, unless a wake was latched meanwhile
WorkerSleeps(w) ==
  /\ workerPc[w] = "unwind"
  /\ IF pendingTime[w] = Null
     THEN /\ workerPc' = [workerPc EXCEPT ![w] = "idle"]
          /\ UNCHANGED <<currentTime, pendingTime>>
     ELSE /\ workerPc' = [workerPc EXCEPT ![w] = "drain"]
          /\ currentTime' = [currentTime EXCEPT ![w] = pendingTime[w]]
          /\ pendingTime' = [pendingTime EXCEPT ![w] = Null]
  /\ UNCHANGED <<mainVars, roomSets, tickKeys, userSets, lists, channels, held, room, unmarked,
                 finalizeVars, runnerVars, pushes, blobs>>
-----------------------------------------------------------------------------
(***************************************************************************)
(* A worker's 'finalize' request.                                          *)
(***************************************************************************)
\* RoomProcessor.finalize: apply inter-room intents, record the room's players
\* (updateUserRoomRelationships), and put it to sleep (sleepRoomUntil) when nobody acts in it
SettleRoom(r, didWake, players, wake) ==
  LET nextTime == finalizingTime + 1
      counted == IF players = users[r] THEN activeRooms ELSE ZAdd(activeRooms, r, Cardinality(players))
      woken == IF players = {} /\ didWake /\ wake = nextTime THEN ZAdd(counted, r, 0) ELSE counted
      sleeps == players = {} /\ wake # nextTime
  IN /\ finalIntents' = finalIntents \ {r}
     /\ users' = [users EXCEPT ![r] = players]
     /\ activeUsers' = activeUsers \cup (players \ users[r])
     /\ activeRooms' = IF sleeps THEN ZRem(woken, {r}) ELSE woken
     /\ sleepingRooms' = IF sleeps /\ wake # Null THEN ZAddLT(sleepingRooms, r, wake - 1) ELSE sleepingRooms

FinalizeRoom(w, r) ==
  /\ finalizePc[w] = "work" /\ r \in unfinalized[w]
  /\ \E players \in SUBSET Users, wake \in Wakes(finalizingTime) : SettleRoom(r, FALSE, players, wake)
  /\ unfinalized' = [unfinalized EXCEPT ![w] = unfinalized[w] \ {r}]
  /\ finalizeCount' = [finalizeCount EXCEPT ![w] = finalizeCount[w] + 1]
  /\ UNCHANGED <<mainVars, tickKeys, runnerUsers, intents, channels, loopVars, servicePc,
                 finalizingTime, finalizedTime, processed, finalizePc, runnerVars, pushes, answered>>

\* a room that was sent inter-room intents while it slept: process(true), then finalize(true)
FinalizeExtraRoom(w, r) ==
  /\ finalizePc[w] = "work" /\ unfinalized[w] = {}
  /\ r \in finalizeExtraRooms[finalizingTime]
  /\ finalizeExtraRooms' =
       [finalizeExtraRooms EXCEPT ![finalizingTime] = finalizeExtraRooms[finalizingTime] \ {r}]
  /\ \E players \in SUBSET Users, wake \in Wakes(finalizingTime) : SettleRoom(r, TRUE, players, wake)
  /\ finalizeCount' = [finalizeCount EXCEPT ![w] = finalizeCount[w] + 1]
  /\ UNCHANGED <<mainVars, processRooms, processedRooms, roomsPending, finalizePending, runnerUsers,
                 intents, channels, loopVars, servicePc, finalizingTime, finalizedTime, processed,
                 unfinalized, finalizePc, runnerVars, pushes, answered>>

\* mutant: every worker that has finalized its rooms ends the tick
AnyFinalized(remaining) == TRUE

LastFinalized(remaining) == remaining = 0

\* roomsDidFinalize: the worker that accounts for the last room ends the tick
RoomsDidFinalize(w) ==
  LET remaining == DecrBy(finalizePending[finalizingTime], finalizeCount[w])
  IN /\ finalizePc[w] = "work" /\ unfinalized[w] = {} /\ finalizeExtraRooms[finalizingTime] = {}
     /\ finalizePc' = [finalizePc EXCEPT ![w] = "done"]
     /\ finalizePending' =
          [finalizePending EXCEPT ![finalizingTime] = IF LastFinalized(remaining) THEN Null ELSE remaining]
     /\ serviceChannel' = IF LastFinalized(remaining)
                          THEN Append(serviceChannel, TickFinished(finalizingTime)) ELSE serviceChannel
     /\ UNCHANGED <<mainVars, roomSets, processRooms, processedRooms, roomsPending,
                    finalizeExtraRooms, userSets, lists, processorChannel, runnerChannel,
                    abandonNotices, loopVars, servicePc, finalizingTime, finalizedTime, processed,
                    unfinalized, finalizeCount, runnerVars, pushes, blobs>>
-----------------------------------------------------------------------------
(***************************************************************************)
(* The runner service (runner.ts) and PlayerInstance.run (instance.ts).    *)
(***************************************************************************)
TakeRun ==
  /\ runTime = 0 /\ runnerChannel # <<>>
  /\ runTime' = Head(runnerChannel) /\ runOpen' = TRUE
  /\ runnerChannel' = Tail(runnerChannel)
  /\ UNCHANGED <<mainVars, roomSets, tickKeys, userSets, lists, serviceChannel, processorChannel,
                 abandonNotices, loopVars, finalizeVars, runnerUp, userPc, userRooms, zeroed,
                 negative, crashes, pushes, blobs>>

TakeUser(u) ==
  /\ runOpen /\ userPc[u] = "none"
  /\ u \in runnerUsers[Slot(runTime)]
  /\ runnerUsers' = [runnerUsers EXCEPT ![Slot(runTime)] = runnerUsers[Slot(runTime)] \ {u}]
  /\ userPc' = [userPc EXCEPT ![u] = "read"]
  /\ UNCHANGED <<mainVars, roomSets, tickKeys, activeUsers, lists, channels, loopVars, finalizeVars,
                 runnerUp, runTime, runOpen, userRooms, zeroed, negative, crashes, pushes, blobs>>

ReadIntentRooms(u) ==
  /\ userPc[u] = "read"
  /\ userRooms' = [userRooms EXCEPT ![u] = IntentRooms(u)]
  /\ userPc' = [userPc EXCEPT ![u] = IF IntentRooms(u) = {} THEN "deactivate" ELSE "run"]
  /\ UNCHANGED <<mainVars, roomSets, tickKeys, userSets, lists, channels, loopVars, finalizeVars,
                 runnerUp, runTime, runOpen, zeroed, negative, crashes, pushes, blobs>>

\* a player with nothing to act on is not run again until a room marks him active
Deactivate(u) ==
  /\ userPc[u] = "deactivate"
  /\ activeUsers' = activeUsers \ {u}
  /\ userPc' = [userPc EXCEPT ![u] = "none"]
  /\ UNCHANGED <<mainVars, roomSets, tickKeys, runnerUsers, lists, channels, loopVars, finalizeVars,
                 runnerUp, runTime, runOpen, userRooms, zeroed, negative, crashes, pushes, blobs>>

\* the tick whose rooms are queued
QueueTime ==
  IF mainPc \in {"run", "listen"} \/ "beget" \in nextTasks THEN tickTime ELSE tickTime + 1

\* the player's code has run: publishRunnerIntentsForRooms sends what it did, or nothing when it
\* failed, was stale or was left behind
PublishIntents(u, success) ==
  LET queue == processRooms[runTime]
      counted == ZIncrXX(queue, userRooms[u], -1)
      done == {r \in userRooms[u] : queue[r] # Null /\ counted[r] <= 0}
  IN /\ userPc[u] = "run"
     /\ processRooms' = [processRooms EXCEPT ![runTime] = counted]
     /\ intents' = [r \in Rooms |-> IF success /\ r \in userRooms[u]
                                    THEN intents[r] \cup {<<u, runTime>>} ELSE intents[r]]
     /\ zeroed' = [zeroed EXCEPT ![u] = done]
     /\ negative' = [negative EXCEPT ![u] = {r \in done : counted[r] < 0}]
     /\ userPc' = [userPc EXCEPT ![u] = IF \E r \in done : counted[r] < 0 THEN "reset"
                                        ELSE IF done # {} THEN "notify" ELSE "none"]
     /\ answered' = IF runTime = QueueTime THEN answered \cup {u} ELSE answered
     /\ UNCHANGED <<mainVars, roomSets, processedRooms, roomsPending, finalizePending,
                    finalizeExtraRooms, userSets, finalIntents, channels, loopVars, finalizeVars,
                    runnerUp, runTime, runOpen, userRooms, crashes, pushes, users>>

\* ... a count below zero means the tick was abandoned: put it back to zero
ResetCounts(u) ==
  /\ userPc[u] = "reset"
  /\ processRooms' = [processRooms EXCEPT ![runTime] = ZAddXX(processRooms[runTime], negative[u], 0)]
  /\ negative' = [negative EXCEPT ![u] = {}]
  /\ userPc' = [userPc EXCEPT ![u] = "notify"]
  /\ UNCHANGED <<mainVars, roomSets, processedRooms, roomsPending, finalizePending,
                 finalizeExtraRooms, userSets, lists, channels, loopVars, finalizeVars, runnerUp,
                 runTime, runOpen, userRooms, zeroed, crashes, pushes, blobs>>

\* ... and tell the processors that rooms have become available
NotifyProcessors(u) ==
  /\ userPc[u] = "notify"
  /\ processorChannel' =
       Append(processorChannel, ProcessMessage(runTime, Smaller(Cardinality(zeroed[u]), Everyone)))
  /\ zeroed' = [zeroed EXCEPT ![u] = {}]
  /\ userPc' = [userPc EXCEPT ![u] = "none"]
  /\ UNCHANGED <<mainVars, roomSets, tickKeys, userSets, lists, serviceChannel, runnerChannel,
                 abandonNotices, loopVars, finalizeVars, runnerUp, runTime, runOpen, userRooms,
                 negative, crashes, pushes, blobs>>

\* the user queue is empty: the iterators return ...
RunCloses ==
  /\ runOpen /\ runnerUsers[Slot(runTime)] = {}
  /\ runOpen' = FALSE
  /\ UNCHANGED <<mainVars, roomSets, tickKeys, userSets, lists, channels, loopVars, finalizeVars,
                 runnerUp, runTime, userPc, userRooms, zeroed, negative, crashes, pushes, blobs>>

\* ... and when every player is done the next message is handled
RunEnds ==
  /\ runTime # 0 /\ ~runOpen
  /\ \A u \in Users : userPc[u] = "none"
  /\ runTime' = 0
  /\ UNCHANGED <<mainVars, roomSets, tickKeys, userSets, lists, channels, loopVars, finalizeVars,
                 runnerUp, runOpen, userPc, userRooms, zeroed, negative, crashes, pushes, blobs>>

\* the runner's process dies; the players it had taken are lost with it
RunnerCrashes ==
  /\ runnerUp /\ crashes < MaxCrashes
  /\ runnerUp' = FALSE /\ crashes' = crashes + 1
  /\ runTime' = 0 /\ runOpen' = FALSE
  /\ userPc' = [u \in Users |-> "none"] /\ userRooms' = [u \in Users |-> {}]
  /\ zeroed' = [u \in Users |-> {}] /\ negative' = [u \in Users |-> {}]
  /\ runnerChannel' = <<>>
  /\ UNCHANGED <<mainVars, roomSets, tickKeys, userSets, lists, serviceChannel, processorChannel,
                 abandonNotices, loopVars, finalizeVars, pushes, blobs>>

RunnerConnects ==
  /\ ~runnerUp
  /\ runnerUp' = TRUE
  /\ serviceChannel' = Append(serviceChannel, RunnerConnected)
  /\ UNCHANGED <<mainVars, roomSets, tickKeys, userSets, lists, processorChannel, runnerChannel,
                 abandonNotices, loopVars, finalizeVars, runTime, runOpen, userPc, userRooms, zeroed,
                 negative, crashes, pushes, blobs>>
-----------------------------------------------------------------------------
\* pushIntentsForRoomNextTick: a backend or a mod sends an intent to a room that may be asleep; the
\* sender's own shard.time is `now`, and may be behind
PushIntentsForRoom(r, now) ==
  /\ pushes < MaxPushes
  /\ mainPc # "stopped" /\ now <= shardTime
  /\ pushes' = pushes + 1
  /\ sleepingRooms' = ZAdd(sleepingRooms, r, now + 1)
  /\ intents' = [intents EXCEPT ![r] = intents[r] \cup {<<System, now>>}]
  /\ UNCHANGED <<mainVars, activeRooms, tickKeys, userSets, finalIntents, channels, loopVars,
                 finalizeVars, runnerVars, blobs>>

\* main has stopped and nothing is left to handle
Terminated ==
  /\ mainPc = "stopped"
  /\ UNCHANGED vars
-----------------------------------------------------------------------------
Main ==
  \/ StartTick \/ PublishRun \/ HandleRunnerConnected \/ HandleTickFinished
  \/ BegetRoomProcessQueue \/ AdvanceTime \/ EndTick

Service == HandleProcess \/ HandleFinalize \/ FinishFinalize

Worker(w) ==
  \/ \E r \in Rooms : PopRoom(w, r) \/ StartRoom(w, r)
  \/ \E targets \in SUBSET Rooms : SendIntents(w, targets)
  \/ MarkExtraRooms(w) \/ RoomDidProcess(w) \/ AnnounceFinalize(w)
  \/ DrainEnds(w) \/ WorkerSleeps(w)

Finalize(w) ==
  \/ \E r \in Rooms : FinalizeRoom(w, r) \/ FinalizeExtraRoom(w, r)
  \/ RoomsDidFinalize(w)

RunUser(u) ==
  \/ TakeUser(u) \/ ReadIntentRooms(u) \/ Deactivate(u)
  \/ \E success \in BOOLEAN : PublishIntents(u, success)
  \/ ResetCounts(u) \/ NotifyProcessors(u)

Run == TakeRun \/ RunCloses \/ RunEnds

Next ==
  \/ Main \/ AbandonIntents \/ \E t \in Times : PublishAbandoned(t)
  \/ Service \/ \E w \in Workers : Worker(w) \/ Finalize(w)
  \/ Run \/ \E u \in Users : RunUser(u)
  \/ RunnerCrashes \/ RunnerConnects
  \/ \E r \in Rooms, now \in Times : PushIntentsForRoom(r, now)
  \/ Terminated

Spec == Init /\ [][Next]_vars

(***************************************************************************)
(* Every event loop keeps turning and the abandon timer eventually fires.  *)
(* Of the runner only what it does once a player's code has returned is    *)
(* fair: it may hang in that code, crash, and never come back.             *)
(***************************************************************************)
Fairness ==
  /\ WF_vars(Main) /\ WF_vars(Service)
  /\ \A w \in Workers : WF_vars(Worker(w)) /\ WF_vars(Finalize(w))
  /\ WF_vars(AbandonIntents) /\ WF_vars(\E t \in Times : PublishAbandoned(t))
  /\ \A u \in Users : WF_vars(ResetCounts(u) \/ NotifyProcessors(u))

FairSpec == Spec /\ Fairness
-----------------------------------------------------------------------------
(***************************************************************************)
(* Properties                                                              *)
(***************************************************************************)
TypeMain ==
  /\ mainPc \in {"start", "run", "listen", "next", "stopped"}
  /\ tickTime \in 0 .. MaxTime /\ shardTime \in Times
  /\ nextTasks \subseteq {"beget", "clock"} /\ timer \in {"off", "armed", "fired"}

TypeStore ==
  /\ activeRooms \in [Rooms -> Score] /\ sleepingRooms \in [Rooms -> Score]
  /\ processRooms \in [Times -> [Rooms -> Score]]
  /\ processedRooms \in [Times -> SUBSET Rooms]
  /\ roomsPending \in [Times -> Score] /\ finalizePending \in [Times -> Score]
  /\ finalizeExtraRooms \in [Times -> SUBSET Rooms]
  /\ activeUsers \subseteq Users /\ runnerUsers \in [{0, 1} -> SUBSET Users]
  /\ intents \in [Rooms -> SUBSET ((Users \cup {System}) \X Times)]
  /\ finalIntents \subseteq Rooms

ServiceMessages == [type : {"tickFinished", "runnerConnected"}, time : 0 .. MaxTime + 1]
ProcessorMessages == [type : {"process", "finalize"}, time : Times, wake : 0 .. Everyone]

TypeChannels ==
  /\ serviceChannel \in Seq(ServiceMessages) /\ processorChannel \in Seq(ProcessorMessages)
  /\ runnerChannel \in Seq(Times) /\ abandonNotices \subseteq Times

TypeWorkers ==
  /\ workerPc \in [Workers -> {"idle", "drain", "send", "mark", "decr", "announce", "unwind"}]
  /\ currentTime \in [Workers -> 0 .. MaxTime + 1]
  /\ pendingTime \in [Workers -> Times \cup {Null}]
  /\ held \in [Workers -> SUBSET Rooms] /\ room \in [Workers -> Rooms \cup {Null}]
  /\ unmarked \in [Workers -> SUBSET Rooms]

TypeFinalize ==
  /\ servicePc \in {"listen", "finalize"}
  /\ finalizingTime \in 0 .. MaxTime + 1 /\ finalizedTime \in 0 .. MaxTime + 1
  /\ processed \in [Workers -> SUBSET Rooms] /\ unfinalized \in [Workers -> SUBSET Rooms]
  /\ finalizeCount \in [Workers -> Nat] /\ finalizePc \in [Workers -> {"none", "work", "done"}]

TypeRunner ==
  /\ runnerUp \in BOOLEAN /\ runTime \in 0 .. MaxTime + 1 /\ runOpen \in BOOLEAN
  /\ userPc \in [Users -> {"none", "read", "deactivate", "run", "reset", "notify"}]
  /\ userRooms \in [Users -> SUBSET Rooms] /\ zeroed \in [Users -> SUBSET Rooms]
  /\ negative \in [Users -> SUBSET Rooms]
  /\ crashes \in 0 .. MaxCrashes /\ pushes \in 0 .. MaxPushes

TypeBlobs == users \in [Rooms -> SUBSET Users] /\ answered \subseteq Users

TypeOK ==
  TypeMain /\ TypeStore /\ TypeChannels /\ TypeWorkers /\ TypeFinalize /\ TypeRunner /\ TypeBlobs

Abandoned(time) == timer = "fired" /\ tickTime = time

InHand(w) == held[w] \cup (IF room[w] = Null THEN {} ELSE {room[w]})

\* Rooms of the tick `time` that a worker has still to process.
Unprocessed(time) ==
  ZMembers(processRooms[time]) \cup UNION {InHand(w) : w \in {v \in Workers : currentTime[v] = time}}

\* A queue is used for one tick only: whatever a late message, a lagging runner or an abandon timer
\* does, rooms are queued for no tick but the current one (model.ts processRoomsSetKey).
OneLiveQueue == \A t \in Times : t # QueueTime => Unprocessed(t) = {}

\* roomDidProcess's countdown is exact: it reaches zero when the last room has been processed and
\* never before, and no room is in the hands of two workers.
PendingExact ==
  /\ \A t \in Times : roomsPending[t] # Null => roomsPending[t] = Cardinality(Unprocessed(t))
  /\ \A v, w \in Workers : v # w => InHand(v) \cap InHand(w) = {}
  /\ \A w \in Workers : InHand(w) \cap ZMembers(processRooms[QueueTime]) = {}

\* The barrier between the phases: once finalization of a tick is announced no room of it is queued
\* or being processed, and every room it sent intents to is known to the finalizers.
ProcessBeforeFinalize ==
  \A t \in Times :
    (\/ finalizePending[t] # Null
     \/ servicePc = "finalize" /\ finalizingTime = t
     \/ \E i \in DOMAIN processorChannel : processorChannel[i].type = "finalize" /\ processorChannel[i].time = t)
    => /\ Unprocessed(t) = {}
       /\ \A w \in Workers : currentTime[w] = t => unmarked[w] = {}

\* The barrier between ticks: when main prepares the next tick every room was finalized, every
\* inter-room intent applied, and the tick's keys are gone from the store.
FinalizeBeforeNextTick ==
  mainPc = "next" =>
    /\ Unprocessed(tickTime) = {} /\ finalIntents = {}
    /\ \A w \in Workers : finalizePc[w] # "work"
    /\ processedRooms[tickTime] = {} /\ finalizeExtraRooms[tickTime] = {}
    /\ roomsPending[tickTime] = Null /\ finalizePending[tickTime] = Null

\* Main acts on 'tickFinished' without looking at its time (main.ts:132). It may: there is never
\* more than one, and it is that of the current tick.
TickFinishedIsCurrent ==
  LET finished == {i \in DOMAIN serviceChannel : serviceChannel[i].type = "tickFinished"}
  IN /\ Cardinality(finished) <= 1
     /\ \A i \in finished : serviceChannel[i].time = QueueTime

\* A room's score in the active set is the number of players who may act in it, and a room with
\* players is never asleep.
ActiveCountsPlayers ==
  \A r \in Rooms : IF activeRooms[r] = Null THEN users[r] = {} ELSE activeRooms[r] = Cardinality(users[r])

\* The rendezvous count: a queued room waits for exactly the players who have not answered, until
\* the tick is abandoned.
QueueCountsPlayers ==
  \A r \in Rooms :
    processRooms[QueueTime][r] # Null /\ ~Abandoned(QueueTime)
      => processRooms[QueueTime][r] = Cardinality(users[r] \ answered)

\* No room is processed before all of its players have published, unless the tick was abandoned.
PlayersBeforeRoom ==
  \A w \in Workers : ~Abandoned(currentTime[w]) /\ currentTime[w] = QueueTime
    => \A r \in InHand(w) : users[r] \subseteq answered

\* An intent pushed to a room that may be asleep is never stranded there: the room is queued or
\* held, or its alarm is no later than the next queue but one. (Not always the very next: a push
\* made between shard.time's update and the new queue overwrites an earlier alarm.)
PushedIntentsWake ==
  \A r \in Rooms, t \in Times : <<System, t>> \in intents[r] =>
    \/ r \in ZMembers(processRooms[QueueTime])
    \/ \E w \in Workers : r \in held[w]
    \/ sleepingRooms[r] # Null /\ sleepingRooms[r] <= shardTime + 1

\* A worker that will look at the queue of the current tick before it sleeps.
WillLook(w) ==
  \/ workerPc[w] \notin {"idle", "unwind"} /\ currentTime[w] = QueueTime
  \/ workerPc[w] # "idle" /\ pendingTime[w] = QueueTime

\* No lost wake-up: a room that waits for nobody is never left behind while every worker sleeps
\* and no request to look at the queue is on its way (processor.ts, wakeable-worker.ts). A runner
\* that dies between its publication and its notification does leave one behind: see TickCompletes.
NoLostWake ==
  mainPc = "listen" /\ crashes = 0 /\ Available(tickTime) # {} =>
    \/ \E w \in Workers : WillLook(w)
    \/ \E i \in DOMAIN processorChannel :
          processorChannel[i].type = "process" /\ processorChannel[i].time = tickTime
    \/ \E u \in Users : userPc[u] \in {"reset", "notify"} /\ runTime = tickTime
    \/ tickTime \in abandonNotices

\* Every tick ends, even when the runner hangs in a player's code or dies: the abandon timer
\* releases the rooms (main.ts acquireTimeout).
TickCompletes == mainPc = "run" ~> mainPc = "next"

\* "Mark players active for runner" (model.ts:277): once every service is at rest, a player who may
\* act in some room is in the set the runner is started from.
PlayersStayActive ==
  mainPc \in {"start", "stopped"} /\ runTime = 0 => \A u \in Users : IntentRooms(u) # {} => u \in activeUsers
=============================================================================
