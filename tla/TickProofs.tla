----------------------------- MODULE TickProofs -----------------------------
(***************************************************************************)
(* Theorems about the tick protocol, for every set of rooms, players and   *)
(* workers and every bound: its types and clocks, the players counted for  *)
(* each room, and the barriers of a tick, one inductive invariant about    *)
(* the tick whose rooms are queued, from which the safety properties of    *)
(* Tick about its queue, its counters and its two phases follow.           *)
(***************************************************************************)
EXTENDS Tick, TickRefinement, FiniteSetTheorems, TLAPS

(***************************************************************************)
(* TypeOK is not inductive: that a time is one of the shard's ticks        *)
(* depends on where each loop is.                                          *)
(***************************************************************************)
MainClock ==
  /\ mainPc = "start" => shardTime <= MaxTime
  /\ mainPc \in {"run", "listen", "next"} => tickTime >= 1
  /\ mainPc = "next" /\ "clock" \notin nextTasks => shardTime = tickTime + 1
  /\ timer # "off" => tickTime >= 1

WorkerClock == \A w \in Workers : workerPc[w] # "idle" => currentTime[w] \in Times

FinalizeClock ==
  /\ servicePc = "finalize" => finalizingTime \in Times
  /\ \A w \in Workers : finalizePc[w] = "work" => servicePc = "finalize"

RunClock ==
  /\ runOpen => runTime \in Times
  /\ \A u \in Users : userPc[u] # "none" => runTime \in Times

Clocks == MainClock /\ WorkerClock /\ FinalizeClock /\ RunClock
-----------------------------------------------------------------------------
(***************************************************************************)
(* The store's commands return sorted sets.                                *)
(***************************************************************************)
SortedSet == [Rooms -> Score]

(* adding or lowering a score leaves a sorted set *)
LEMMA AddTypes ==
  ASSUME NEW z \in SortedSet, NEW m \in Rooms, NEW s \in Int
  PROVE  ZAdd(z, m, s) \in SortedSet /\ ZAddLT(z, m, s) \in SortedSet
BY NullAssumption DEF SortedSet, Score, ZAdd, ZAddLT

(* removing members leaves a sorted set *)
LEMMA RemTypes ==
  ASSUME NEW z \in SortedSet, NEW M
  PROVE  ZRem(z, M) \in SortedSet
BY NullAssumption DEF SortedSet, Score, ZRem

(* changing the scores of members that exist leaves a sorted set *)
LEMMA ConditionalTypes ==
  ASSUME NEW z \in SortedSet, NEW M, NEW d \in Int
  PROVE  ZAddXX(z, M, d) \in SortedSet /\ ZIncrXX(z, M, d) \in SortedSet
BY NullAssumption DEF SortedSet, Score, ZAddXX, ZIncrXX

(* the members in a range of scores, and the others, are sorted sets *)
LEMMA RangeTypes ==
  ASSUME NEW z \in SortedSet, NEW lo, NEW hi
  PROVE  ZRangeStore(z, lo, hi) \in SortedSet /\ ZRemRange(z, lo, hi) \in SortedSet
<1>1. ZRangeStore(z, lo, hi) \in SortedSet  BY NullAssumption DEF SortedSet, Score, ZRangeStore
<1>2. ZRemRange(z, lo, hi) \in SortedSet    BY RemTypes DEF ZRemRange
<1> QED BY <1>1, <1>2

(* weighted unions and intersections are sorted sets *)
LEMMA StoreTypes ==
  ASSUME NEW y \in SortedSet, NEW z \in SortedSet, NEW v \in Int, NEW w \in Int
  PROVE  ZUnionStore(y, z, v, w) \in SortedSet /\ ZInterStore(y, w) \in SortedSet
<1>1. ASSUME NEW s \in Score, NEW x \in Int PROVE Weigh(s, x) \in Int  BY <1>1 DEF Weigh, Score
<1>2. ZUnionStore(y, z, v, w) \in SortedSet
  <2>1. ASSUME NEW m \in Rooms PROVE Weigh(y[m], v) + Weigh(z[m], w) \in Int
    <3>1. y[m] \in Score /\ z[m] \in Score       BY DEF SortedSet
    <3>2. Weigh(y[m], v) \in Int /\ Weigh(z[m], w) \in Int  BY <1>1, <3>1
    <3> QED BY <3>2
  <2>2. DOMAIN y = Rooms  BY DEF SortedSet
  <2> QED BY <2>1, <2>2 DEF ZUnionStore, SortedSet, Score
<1>3. ZInterStore(y, w) \in SortedSet        BY <1>1 DEF ZInterStore, SortedSet, Score
<1> QED BY <1>2, <1>3

(* a decremented counter is an integer, also when it was missing *)
LEMMA DecrType == ASSUME NEW c \in Score, NEW n \in Int PROVE DecrBy(c, n) \in Int
BY DEF DecrBy, Score

(* a sorted set of rooms has finitely many members *)
LEMMA CardType == ASSUME NEW z \in SortedSet PROVE ZCard(z) \in Nat
<1>1. ZMembers(z) \subseteq Rooms  BY DEF ZMembers, SortedSet
<1> QED BY <1>1, FS_Subset, FS_CardinalityType, TickAssumption DEF ZCard

(* so has a set of rooms *)
LEMMA RoomsCardType == ASSUME NEW S \in SUBSET Rooms PROVE Cardinality(S) \in Nat
BY FS_Subset, FS_CardinalityType, TickAssumption

(* there are finitely many workers *)
LEMMA EveryoneType == Everyone \in Nat
BY FS_CardinalityType, TickAssumption DEF Everyone

(* the messages the services publish are messages of their channels *)
LEMMA MessageTypes ==
  ASSUME NEW t \in Times
  PROVE  /\ \A n \in 0 .. Everyone : ProcessMessage(t, n) \in ProcessorMessages
         /\ FinalizeMessage(t) \in ProcessorMessages
         /\ TickFinished(t) \in ServiceMessages /\ RunnerConnected \in ServiceMessages
BY EveryoneType, TickAssumption
   DEF Times, ProcessMessage, FinalizeMessage, TickFinished, RunnerConnected, ProcessorMessages, ServiceMessages

(* publishing to and reading from a channel keeps the kind of its messages *)
LEMMA QueueTypes ==
  ASSUME NEW S, NEW q \in Seq(S)
  PROVE  /\ \A m \in S : Append(q, m) \in Seq(S)
         /\ q # <<>> => Head(q) \in S /\ Tail(q) \in Seq(S)
OBVIOUS

(* while a tick runs, and while its timer is armed, its time is a tick's *)
LEMMA TickTimeIsATick ==
  ASSUME TypeMain, MainClock, mainPc \in {"run", "listen", "next"} \/ timer # "off"
  PROVE  tickTime \in Times /\ tickTime + 1 \in Times
BY TickAssumption DEF TypeMain, MainClock, Times

(* begetting the next process queue leaves every key of its kind *)
LEMMA BegetStore == ASSUME TypeOK, MainClock, BegetRoomProcessQueue PROVE TypeStore'
<1> DEFINE time == tickTime + 1
<1> DEFINE waking == ZRangeStore(sleepingRooms, 0, time)
<1> DEFINE queue == ZUnionStore(activeRooms, waking, 1, 0)
<1> DEFINE pending == IF NothingToProcess(ZCard(queue)) THEN Null ELSE ZCard(queue)
<1>1. time \in Times
  BY TickTimeIsATick DEF TypeOK, BegetRoomProcessQueue
<1>2. activeRooms \in SortedSet /\ sleepingRooms \in SortedSet
  BY DEF TypeOK, TypeStore, SortedSet
<1>3. waking \in SortedSet /\ ZRemRange(sleepingRooms, 0, time) \in SortedSet
  BY <1>2, RangeTypes
<1>4. queue \in SortedSet
  BY <1>2, <1>3, StoreTypes
<1>5. ZCard(queue) \in Nat /\ ZMembers(queue) \subseteq Rooms
  BY <1>4, CardType DEF ZMembers, SortedSet
<1> HIDE DEF waking, queue
<1>6. activeRooms' = queue /\ sleepingRooms' = ZRemRange(sleepingRooms, 0, time)
      /\ processRooms' = [processRooms EXCEPT ![time] = queue]
      /\ processedRooms' = [processedRooms EXCEPT ![time] = processedRooms[time] \cup ZMembers(queue)]
      /\ roomsPending' = [roomsPending EXCEPT ![time] = pending]
      /\ UNCHANGED <<finalizePending, finalizeExtraRooms, userSets, lists>>
  BY DEF BegetRoomProcessQueue, waking, queue
<1>7. pending \in Score
  BY <1>5 DEF Score
<1> HIDE DEF pending
<1> QED
  BY <1>1, <1>3, <1>4, <1>5, <1>6, <1>7 DEF TypeOK, TypeStore, SortedSet, userSets, lists

(* finalizing a room leaves the room sets, and its list of players, of their kind *)
LEMMA SettleStore ==
  ASSUME TypeOK, NEW r \in Rooms, NEW asleep \in BOOLEAN, finalizingTime \in Times,
         \E players \in SUBSET Users, wake \in Wakes(finalizingTime) : SettleRoom(r, asleep, players, wake)
  PROVE  /\ activeRooms' \in [Rooms -> Score] /\ sleepingRooms' \in [Rooms -> Score]
         /\ activeUsers' \subseteq Users /\ finalIntents' \subseteq Rooms
         /\ users' \in [Rooms -> SUBSET Users]
<1>1. PICK players \in SUBSET Users, wake \in Wakes(finalizingTime) : SettleRoom(r, asleep, players, wake)
  OBVIOUS
<1> DEFINE counted == IF players = users[r] THEN activeRooms ELSE ZAdd(activeRooms, r, Cardinality(players))
<1> DEFINE woken == IF players = {} /\ asleep /\ wake = finalizingTime + 1 THEN ZAdd(counted, r, 0) ELSE counted
<1>2. activeRooms \in SortedSet /\ sleepingRooms \in SortedSet
  BY DEF TypeOK, TypeStore, SortedSet
<1>3. Cardinality(players) \in Int
  BY FS_Subset, FS_CardinalityType, TickAssumption
<1>4. counted \in SortedSet
  BY <1>2, <1>3, AddTypes
<1>5. woken \in SortedSet
  BY <1>4, AddTypes
<1>6. wake # Null => wake - 1 \in Int
  BY DEF Wakes, Times
<1>7. activeRooms' \in SortedSet
  BY <1>1, <1>5, RemTypes DEF SettleRoom
<1>8. sleepingRooms' \in SortedSet
  BY <1>1, <1>2, <1>6, AddTypes DEF SettleRoom
<1> QED
  BY <1>1, <1>7, <1>8 DEF SettleRoom, TypeOK, TypeStore, TypeBlobs, SortedSet
-----------------------------------------------------------------------------
(***************************************************************************)
(* Every step of every service keeps the types and the clocks.             *)
(***************************************************************************)
(* every step of main and of its abandon timer keeps the types and the clocks *)
LEMMA MainSteps ==
  ASSUME TypeOK, Clocks, Main \/ AbandonIntents \/ \E t \in Times : PublishAbandoned(t)
  PROVE  (TypeOK /\ Clocks)'
<1> USE DEF TypeOK, Clocks
<1>1. CASE StartTick
  <2>1. TypeMain' /\ MainClock'
    BY <1>1, TickAssumption DEF StartTick, TypeMain, MainClock, Times
  <2>2. TypeStore'
    BY <1>1 DEF StartTick, TypeStore, roomSets, tickKeys, lists, Slot
  <2>3. TypeChannels'
    BY <1>1, MessageTypes, QueueTypes, EveryoneType, TickAssumption DEF StartTick, TypeChannels,
        TypeMain, Times
  <2>4. TypeWorkers' /\ WorkerClock' /\ TypeFinalize' /\ FinalizeClock' /\ TypeRunner' /\ RunClock'
      /\ TypeBlobs'
    BY <1>1 DEF StartTick, loopVars, finalizeVars, runnerVars, blobs, TypeWorkers, WorkerClock,
        TypeFinalize, FinalizeClock, TypeRunner, RunClock, TypeBlobs
  <2> QED BY <2>1, <2>2, <2>3, <2>4
<1>2. CASE PublishRun
  <2>1. tickTime \in Times /\ tickTime + 1 \in Times
    BY <1>2, TickTimeIsATick DEF PublishRun
  <2>2. TypeMain' /\ MainClock'
    BY <1>2 DEF PublishRun, TypeMain, MainClock
  <2>3. TypeChannels'
    BY <1>2, <2>1, QueueTypes DEF PublishRun, TypeChannels
  <2>4. TypeStore' /\ TypeWorkers' /\ WorkerClock' /\ TypeFinalize' /\ FinalizeClock' /\ TypeRunner'
      /\ RunClock' /\ TypeBlobs'
    BY <1>2 DEF PublishRun, roomSets, tickKeys, userSets, lists, loopVars, finalizeVars, runnerVars,
        blobs, TypeStore, TypeWorkers, WorkerClock, TypeFinalize, FinalizeClock, TypeRunner,
        RunClock, TypeBlobs
  <2> QED BY <2>1, <2>2, <2>3, <2>4
<1>3. CASE HandleRunnerConnected
  <2>1. tickTime \in Times /\ tickTime + 1 \in Times
    BY <1>3, TickTimeIsATick DEF HandleRunnerConnected
  <2>2. TypeChannels'
    BY <1>3, <2>1, QueueTypes DEF HandleRunnerConnected, TypeChannels
  <2>3. TypeMain' /\ MainClock' /\ TypeStore' /\ TypeWorkers' /\ WorkerClock' /\ TypeFinalize' /\
      FinalizeClock' /\ TypeRunner' /\ RunClock' /\ TypeBlobs'
    BY <1>3 DEF HandleRunnerConnected, mainVars, roomSets, tickKeys, userSets, lists, loopVars,
        finalizeVars, runnerVars, blobs, TypeMain, MainClock, TypeStore, TypeWorkers, WorkerClock,
        TypeFinalize, FinalizeClock, TypeRunner, RunClock, TypeBlobs
  <2> QED BY <2>1, <2>2, <2>3
<1>4. CASE HandleTickFinished
  <2>1. TypeMain' /\ MainClock'
    BY <1>4, TickAssumption DEF HandleTickFinished, TypeMain, MainClock, Times
  <2>2. TypeChannels'
    BY <1>4 DEF HandleTickFinished, TypeChannels
  <2>3. TypeStore' /\ TypeWorkers' /\ WorkerClock' /\ TypeFinalize' /\ FinalizeClock' /\ TypeRunner'
      /\ RunClock' /\ TypeBlobs'
    BY <1>4 DEF HandleTickFinished, roomSets, tickKeys, userSets, lists, loopVars, finalizeVars,
        runnerVars, blobs, TypeStore, TypeWorkers, WorkerClock, TypeFinalize, FinalizeClock,
        TypeRunner, RunClock, TypeBlobs
  <2> QED BY <2>1, <2>2, <2>3
<1>5. CASE BegetRoomProcessQueue
  <2>1. tickTime \in Times /\ tickTime + 1 \in Times
    BY <1>5, TickTimeIsATick DEF BegetRoomProcessQueue
  <2>2. TypeMain' /\ MainClock'
    BY <1>5 DEF BegetRoomProcessQueue, TypeMain, MainClock
  <2>3. TypeStore'
    BY <1>5, BegetStore DEF BegetRoomProcessQueue, TypeStore, userSets, lists
  <2>4. TypeChannels'
    BY <1>5, <2>1, MessageTypes, QueueTypes DEF BegetRoomProcessQueue, TypeChannels
  <2>5. TypeBlobs'
    BY <1>5 DEF BegetRoomProcessQueue, TypeBlobs
  <2>6. TypeWorkers' /\ WorkerClock' /\ TypeFinalize' /\ FinalizeClock' /\ TypeRunner' /\ RunClock'
    BY <1>5 DEF BegetRoomProcessQueue, loopVars, finalizeVars, runnerVars, TypeWorkers, WorkerClock,
        TypeFinalize, FinalizeClock, TypeRunner, RunClock
  <2> QED BY <2>1, <2>2, <2>3, <2>4, <2>5, <2>6
<1>6. CASE AdvanceTime
  <2>1. TypeMain' /\ MainClock'
    BY <1>6, TickAssumption DEF AdvanceTime, TypeMain, MainClock, Times
  <2>2. TypeStore' /\ TypeChannels' /\ TypeWorkers' /\ WorkerClock' /\ TypeFinalize' /\
      FinalizeClock' /\ TypeRunner' /\ RunClock' /\ TypeBlobs'
    BY <1>6 DEF AdvanceTime, roomSets, tickKeys, userSets, lists, channels, loopVars, finalizeVars,
        runnerVars, blobs, TypeStore, TypeChannels, TypeWorkers, WorkerClock, TypeFinalize,
        FinalizeClock, TypeRunner, RunClock, TypeBlobs
  <2> QED BY <2>1, <2>2
<1>7. CASE EndTick
  <2>1. TypeMain' /\ MainClock'
    BY <1>7, TickAssumption DEF EndTick, TypeMain, MainClock, Times
  <2>2. TypeStore' /\ TypeChannels' /\ TypeWorkers' /\ WorkerClock' /\ TypeFinalize' /\
      FinalizeClock' /\ TypeRunner' /\ RunClock' /\ TypeBlobs'
    BY <1>7 DEF EndTick, roomSets, tickKeys, userSets, lists, channels, loopVars, finalizeVars,
        runnerVars, blobs, TypeStore, TypeChannels, TypeWorkers, WorkerClock, TypeFinalize,
        FinalizeClock, TypeRunner, RunClock, TypeBlobs
  <2> QED BY <2>1, <2>2
<1>8. CASE AbandonIntents
  <2>1. tickTime \in Times /\ tickTime + 1 \in Times
    BY <1>8, TickTimeIsATick DEF AbandonIntents
  <2>2. processRooms[tickTime] \in SortedSet
    BY <1>8, <2>1 DEF TypeStore, SortedSet
  <2>3. ZInterStore(processRooms[tickTime], 0) \in SortedSet
    BY <1>8, <2>2, StoreTypes
  <2>4. TypeMain' /\ MainClock'
    BY <1>8 DEF AbandonIntents, TypeMain, MainClock
  <2>5. TypeStore'
    BY <1>8, <2>1, <2>3 DEF AbandonIntents, TypeStore, roomSets, lists, SortedSet, Slot
  <2>6. TypeChannels'
    BY <1>8, <2>1 DEF AbandonIntents, TypeChannels
  <2>7. TypeWorkers' /\ WorkerClock' /\ TypeFinalize' /\ FinalizeClock' /\ TypeRunner' /\ RunClock'
      /\ TypeBlobs'
    BY <1>8 DEF AbandonIntents, loopVars, finalizeVars, runnerVars, blobs, TypeWorkers, WorkerClock,
        TypeFinalize, FinalizeClock, TypeRunner, RunClock, TypeBlobs
  <2> QED BY <2>1, <2>2, <2>3, <2>4, <2>5, <2>6, <2>7
<1>9. ASSUME NEW time \in Times, PublishAbandoned(time) PROVE (TypeOK /\ Clocks)'
  <2>1. TypeChannels'
    BY <1>9, MessageTypes, QueueTypes, EveryoneType DEF PublishAbandoned, TypeChannels
  <2>2. TypeMain' /\ MainClock' /\ TypeStore' /\ TypeWorkers' /\ WorkerClock' /\ TypeFinalize' /\
      FinalizeClock' /\ TypeRunner' /\ RunClock' /\ TypeBlobs'
    BY <1>9 DEF PublishAbandoned, mainVars, roomSets, tickKeys, userSets, lists, loopVars,
        finalizeVars, runnerVars, blobs, TypeMain, MainClock, TypeStore, TypeWorkers, WorkerClock,
        TypeFinalize, FinalizeClock, TypeRunner, RunClock, TypeBlobs
  <2> QED BY <2>1, <2>2
<1> QED BY <1>1, <1>2, <1>3, <1>4, <1>5, <1>6, <1>7, <1>8, <1>9 DEF Main

(* ... of the processor service *)
LEMMA ServiceSteps ==
  ASSUME TypeOK, Clocks, Service
  PROVE  (TypeOK /\ Clocks)'
<1> USE DEF TypeOK, Clocks
<1>1. CASE HandleProcess
  <2>1. Head(processorChannel) \in ProcessorMessages /\ Tail(processorChannel) \in
      Seq(ProcessorMessages)
    BY <1>1, QueueTypes DEF HandleProcess, TypeChannels
  <2>2. Head(processorChannel).time \in Times
    BY <1>1, <2>1 DEF ProcessorMessages
  <2>3. TypeChannels'
    BY <1>1, <2>1 DEF HandleProcess, TypeChannels
  <2>4. TypeWorkers' /\ WorkerClock'
    BY <1>1, <2>2, NullAssumption, TickAssumption DEF HandleProcess, TypeWorkers, WorkerClock, Idle,
        Latch, Times
  <2>5. TypeMain' /\ MainClock' /\ TypeStore' /\ TypeFinalize' /\ FinalizeClock' /\ TypeRunner' /\
      RunClock' /\ TypeBlobs'
    BY <1>1 DEF HandleProcess, mainVars, roomSets, tickKeys, userSets, lists, finalizeVars,
        runnerVars, blobs, TypeMain, MainClock, TypeStore, TypeFinalize, FinalizeClock, TypeRunner,
        RunClock, TypeBlobs
  <2> QED BY <2>1, <2>2, <2>3, <2>4, <2>5
<1>2. CASE HandleFinalize
  <2>1. Head(processorChannel) \in ProcessorMessages /\ Tail(processorChannel) \in
      Seq(ProcessorMessages)
    BY <1>2, QueueTypes DEF HandleFinalize, TypeChannels
  <2>2. Head(processorChannel).time \in Times
    BY <1>2, <2>1 DEF ProcessorMessages
  <2>3. TypeChannels'
    BY <1>2, <2>1 DEF HandleFinalize, TypeChannels
  <2>4. TypeFinalize' /\ FinalizeClock'
    BY <1>2, <2>2, TickAssumption DEF HandleFinalize, TypeFinalize, FinalizeClock, Times
  <2>5. TypeMain' /\ MainClock' /\ TypeStore' /\ TypeWorkers' /\ WorkerClock' /\ TypeRunner' /\
      RunClock' /\ TypeBlobs'
    BY <1>2 DEF HandleFinalize, mainVars, roomSets, tickKeys, userSets, lists, loopVars, runnerVars,
        blobs, TypeMain, MainClock, TypeStore, TypeWorkers, WorkerClock, TypeRunner, RunClock,
        TypeBlobs
  <2> QED BY <2>1, <2>2, <2>3, <2>4, <2>5
<1>3. CASE FinishFinalize
  <2>1. TypeFinalize' /\ FinalizeClock'
    BY <1>3 DEF FinishFinalize, TypeFinalize, FinalizeClock
  <2>2. TypeMain' /\ MainClock' /\ TypeStore' /\ TypeChannels' /\ TypeWorkers' /\ WorkerClock' /\
      TypeRunner' /\ RunClock' /\ TypeBlobs'
    BY <1>3 DEF FinishFinalize, mainVars, roomSets, tickKeys, userSets, lists, channels, loopVars,
        runnerVars, blobs, TypeMain, MainClock, TypeStore, TypeChannels, TypeWorkers, WorkerClock,
        TypeRunner, RunClock, TypeBlobs
  <2> QED BY <2>1, <2>2
<1> QED BY <1>1, <1>2, <1>3 DEF Service

(* ... of a worker draining the process queue *)
LEMMA WorkerSteps ==
  ASSUME TypeOK, Clocks, NEW w \in Workers, Worker(w)
  PROVE  (TypeOK /\ Clocks)'
<1> USE DEF TypeOK, Clocks
<1>1. ASSUME NEW r \in Rooms, PopRoom(w, r) PROVE (TypeOK /\ Clocks)'
  <2>1. currentTime[w] \in Times
    BY <1>1 DEF WorkerClock, PopRoom
  <2>2. ZRem(processRooms[currentTime[w]], {r}) \in SortedSet
    BY <1>1, <2>1, RemTypes DEF TypeStore, SortedSet
  <2>3. TypeStore'
    BY <1>1, <2>1, <2>2 DEF PopRoom, TypeStore, roomSets, userSets, lists, SortedSet
  <2>4. TypeWorkers' /\ WorkerClock'
    BY <1>1 DEF PopRoom, TypeWorkers, WorkerClock
  <2>5. TypeMain' /\ MainClock' /\ TypeChannels' /\ TypeFinalize' /\ FinalizeClock' /\ TypeRunner'
      /\ RunClock' /\ TypeBlobs'
    BY <1>1 DEF PopRoom, mainVars, channels, finalizeVars, runnerVars, blobs, TypeMain, MainClock,
        TypeChannels, TypeFinalize, FinalizeClock, TypeRunner, RunClock, TypeBlobs
  <2> QED BY <2>1, <2>2, <2>3, <2>4, <2>5
<1>2. ASSUME NEW r \in Rooms, StartRoom(w, r) PROVE (TypeOK /\ Clocks)'
  <2>1. currentTime[w] \in Times
    BY <1>2 DEF WorkerClock, StartRoom
  <2>2. TypeStore'
    BY <1>2 DEF StartRoom, TypeStore, roomSets, tickKeys, userSets
  <2>3. TypeWorkers' /\ WorkerClock'
    BY <1>2, <2>1 DEF StartRoom, TypeWorkers, WorkerClock
  <2>4. TypeFinalize' /\ FinalizeClock'
    BY <1>2 DEF StartRoom, TypeFinalize, FinalizeClock
  <2>5. TypeMain' /\ MainClock' /\ TypeChannels' /\ TypeRunner' /\ RunClock' /\ TypeBlobs'
    BY <1>2 DEF StartRoom, mainVars, channels, runnerVars, blobs, TypeMain, MainClock, TypeChannels,
        TypeRunner, RunClock, TypeBlobs
  <2> QED BY <2>1, <2>2, <2>3, <2>4, <2>5
<1>3. ASSUME NEW targets \in SUBSET Rooms, SendIntents(w, targets) PROVE (TypeOK /\ Clocks)'
  <2>1. currentTime[w] \in Times
    BY <1>3 DEF WorkerClock, SendIntents
  <2>2. TypeStore'
    BY <1>3, <2>1 DEF SendIntents, TypeStore, roomSets, userSets
  <2>3. TypeWorkers' /\ WorkerClock'
    BY <1>3, <2>1 DEF SendIntents, TypeWorkers, WorkerClock, FreshTargets
  <2>4. TypeMain' /\ MainClock' /\ TypeChannels' /\ TypeFinalize' /\ FinalizeClock' /\ TypeRunner'
      /\ RunClock' /\ TypeBlobs'
    BY <1>3 DEF SendIntents, mainVars, channels, finalizeVars, runnerVars, blobs, TypeMain,
        MainClock, TypeChannels, TypeFinalize, FinalizeClock, TypeRunner, RunClock, TypeBlobs
  <2> QED BY <2>1, <2>2, <2>3, <2>4
<1>4. CASE MarkExtraRooms(w)
  <2>1. currentTime[w] \in Times
    BY <1>4 DEF WorkerClock, MarkExtraRooms
  <2>2. TypeStore'
    BY <1>4, <2>1 DEF MarkExtraRooms, TypeStore, roomSets, userSets, lists, TypeWorkers
  <2>3. TypeWorkers' /\ WorkerClock'
    BY <1>4, <2>1 DEF MarkExtraRooms, TypeWorkers, WorkerClock
  <2>4. TypeMain' /\ MainClock' /\ TypeChannels' /\ TypeFinalize' /\ FinalizeClock' /\ TypeRunner'
      /\ RunClock' /\ TypeBlobs'
    BY <1>4 DEF MarkExtraRooms, mainVars, channels, finalizeVars, runnerVars, blobs, TypeMain,
        MainClock, TypeChannels, TypeFinalize, FinalizeClock, TypeRunner, RunClock, TypeBlobs
  <2> QED BY <2>1, <2>2, <2>3, <2>4
<1>5. CASE RoomDidProcess(w)
  <2>1. currentTime[w] \in Times
    BY <1>5 DEF WorkerClock, RoomDidProcess
  <2>2. roomsPending[currentTime[w]] \in Score
    BY <1>5, <2>1 DEF TypeStore
  <2>3. DecrBy(roomsPending[currentTime[w]], 1) \in Score
    BY <1>5, <2>2 DEF DecrBy, Score
  <2>4. TypeStore'
    BY <1>5, <2>1, <2>3 DEF RoomDidProcess, TypeStore, roomSets, userSets, lists
  <2>5. TypeWorkers' /\ WorkerClock'
    BY <1>5, <2>1 DEF RoomDidProcess, TypeWorkers, WorkerClock
  <2>6. TypeMain' /\ MainClock' /\ TypeChannels' /\ TypeFinalize' /\ FinalizeClock' /\ TypeRunner'
      /\ RunClock' /\ TypeBlobs'
    BY <1>5 DEF RoomDidProcess, mainVars, channels, finalizeVars, runnerVars, blobs, TypeMain,
        MainClock, TypeChannels, TypeFinalize, FinalizeClock, TypeRunner, RunClock, TypeBlobs
  <2> QED BY <2>1, <2>2, <2>3, <2>4, <2>5, <2>6
<1>6. CASE AnnounceFinalize(w)
  <2>1. currentTime[w] \in Times
    BY <1>6 DEF WorkerClock, AnnounceFinalize
  <2>2. Cardinality(processedRooms[currentTime[w]]) \in Score
    BY <1>6, <2>1, RoomsCardType DEF TypeStore, Score
  <2>3. Null \in Score
    BY <1>6 DEF Score
  <2>4. TypeStore'
    BY <1>6, <2>1, <2>2, <2>3 DEF AnnounceFinalize, TypeStore, roomSets, userSets, lists
  <2>5. TypeChannels'
    BY <1>6, <2>1, MessageTypes, QueueTypes DEF AnnounceFinalize, TypeChannels
  <2>6. TypeWorkers' /\ WorkerClock'
    BY <1>6, <2>1 DEF AnnounceFinalize, TypeWorkers, WorkerClock
  <2>7. TypeMain' /\ MainClock' /\ TypeFinalize' /\ FinalizeClock' /\ TypeRunner' /\ RunClock' /\
      TypeBlobs'
    BY <1>6 DEF AnnounceFinalize, mainVars, finalizeVars, runnerVars, blobs, TypeMain, MainClock,
        TypeFinalize, FinalizeClock, TypeRunner, RunClock, TypeBlobs
  <2> QED BY <2>1, <2>2, <2>3, <2>4, <2>5, <2>6, <2>7
<1>7. CASE DrainEnds(w)
  <2>1. currentTime[w] \in Times
    BY <1>7 DEF WorkerClock, DrainEnds
  <2>2. TypeWorkers' /\ WorkerClock'
    BY <1>7, <2>1 DEF DrainEnds, TypeWorkers, WorkerClock
  <2>3. TypeMain' /\ MainClock' /\ TypeStore' /\ TypeChannels' /\ TypeFinalize' /\ FinalizeClock' /\
      TypeRunner' /\ RunClock' /\ TypeBlobs'
    BY <1>7 DEF DrainEnds, mainVars, roomSets, tickKeys, userSets, lists, channels, finalizeVars,
        runnerVars, blobs, TypeMain, MainClock, TypeStore, TypeChannels, TypeFinalize,
        FinalizeClock, TypeRunner, RunClock, TypeBlobs
  <2> QED BY <2>1, <2>2, <2>3
<1>8. CASE WorkerSleeps(w)
  <2>1. TypeWorkers' /\ WorkerClock'
    BY <1>8, NullAssumption, TickAssumption DEF WorkerSleeps, TypeWorkers, WorkerClock, Times
  <2>2. TypeMain' /\ MainClock' /\ TypeStore' /\ TypeChannels' /\ TypeFinalize' /\ FinalizeClock' /\
      TypeRunner' /\ RunClock' /\ TypeBlobs'
    BY <1>8 DEF WorkerSleeps, mainVars, roomSets, tickKeys, userSets, lists, channels, finalizeVars,
        runnerVars, blobs, TypeMain, MainClock, TypeStore, TypeChannels, TypeFinalize,
        FinalizeClock, TypeRunner, RunClock, TypeBlobs
  <2> QED BY <2>1, <2>2
<1> QED BY <1>1, <1>2, <1>3, <1>4, <1>5, <1>6, <1>7, <1>8 DEF Worker

(* ... of a worker answering a finalize request *)
LEMMA FinalizeSteps ==
  ASSUME TypeOK, Clocks, NEW w \in Workers, Finalize(w)
  PROVE  (TypeOK /\ Clocks)'
<1> USE DEF TypeOK, Clocks
<1>1. ASSUME NEW r \in Rooms, FinalizeRoom(w, r) PROVE (TypeOK /\ Clocks)'
  <2>1. finalizingTime \in Times
    BY <1>1 DEF FinalizeClock, FinalizeRoom
  <2>2. activeRooms' \in [Rooms -> Score] /\ sleepingRooms' \in [Rooms -> Score] /\ activeUsers'
      \subseteq Users /\ finalIntents' \subseteq Rooms /\ users' \in [Rooms -> SUBSET Users]
    BY <1>1, <2>1, SettleStore DEF FinalizeRoom
  <2>3. TypeStore'
    BY <1>1, <2>2 DEF FinalizeRoom, TypeStore, tickKeys
  <2>4. TypeFinalize' /\ FinalizeClock'
    BY <1>1 DEF FinalizeRoom, TypeFinalize, FinalizeClock
  <2>5. TypeBlobs'
    BY <1>1, <2>2 DEF FinalizeRoom, TypeBlobs
  <2>6. TypeMain' /\ MainClock' /\ TypeChannels' /\ TypeWorkers' /\ WorkerClock' /\ TypeRunner' /\
      RunClock'
    BY <1>1 DEF FinalizeRoom, mainVars, channels, loopVars, runnerVars, TypeMain, MainClock,
        TypeChannels, TypeWorkers, WorkerClock, TypeRunner, RunClock
  <2> QED BY <2>1, <2>2, <2>3, <2>4, <2>5, <2>6
<1>2. ASSUME NEW r \in Rooms, FinalizeExtraRoom(w, r) PROVE (TypeOK /\ Clocks)'
  <2>1. finalizingTime \in Times
    BY <1>2 DEF FinalizeClock, FinalizeExtraRoom
  <2>2. activeRooms' \in [Rooms -> Score] /\ sleepingRooms' \in [Rooms -> Score] /\ activeUsers'
      \subseteq Users /\ finalIntents' \subseteq Rooms /\ users' \in [Rooms -> SUBSET Users]
    BY <1>2, <2>1, SettleStore DEF FinalizeExtraRoom
  <2>3. TypeStore'
    BY <1>2, <2>1, <2>2 DEF FinalizeExtraRoom, TypeStore
  <2>4. TypeFinalize' /\ FinalizeClock'
    BY <1>2 DEF FinalizeExtraRoom, TypeFinalize, FinalizeClock
  <2>5. TypeBlobs'
    BY <1>2, <2>2 DEF FinalizeExtraRoom, TypeBlobs
  <2>6. TypeMain' /\ MainClock' /\ TypeChannels' /\ TypeWorkers' /\ WorkerClock' /\ TypeRunner' /\
      RunClock'
    BY <1>2 DEF FinalizeExtraRoom, mainVars, channels, loopVars, runnerVars, TypeMain, MainClock,
        TypeChannels, TypeWorkers, WorkerClock, TypeRunner, RunClock
  <2> QED BY <2>1, <2>2, <2>3, <2>4, <2>5, <2>6
<1>3. CASE RoomsDidFinalize(w)
  <2>1. finalizingTime \in Times
    BY <1>3 DEF FinalizeClock, RoomsDidFinalize
  <2>2. finalizePending[finalizingTime] \in Score /\ finalizeCount[w] \in Int
    BY <1>3, <2>1 DEF TypeStore, TypeFinalize
  <2>3. DecrBy(finalizePending[finalizingTime], finalizeCount[w]) \in Score
    BY <1>3, <2>2, DecrType DEF Score
  <2>4. Null \in Score
    BY <1>3 DEF Score
  <2>5. TypeStore'
    BY <1>3, <2>1, <2>3, <2>4 DEF RoomsDidFinalize, TypeStore, roomSets, userSets, lists
  <2>6. TypeChannels'
    BY <1>3, <2>1, MessageTypes, QueueTypes DEF RoomsDidFinalize, TypeChannels
  <2>7. TypeFinalize' /\ FinalizeClock'
    BY <1>3 DEF RoomsDidFinalize, TypeFinalize, FinalizeClock
  <2>8. TypeMain' /\ MainClock' /\ TypeWorkers' /\ WorkerClock' /\ TypeRunner' /\ RunClock' /\
      TypeBlobs'
    BY <1>3 DEF RoomsDidFinalize, mainVars, loopVars, runnerVars, blobs, TypeMain, MainClock,
        TypeWorkers, WorkerClock, TypeRunner, RunClock, TypeBlobs
  <2> QED BY <2>1, <2>2, <2>3, <2>4, <2>5, <2>6, <2>7, <2>8
<1> QED BY <1>1, <1>2, <1>3 DEF Finalize

(* ... of the runner service *)
LEMMA RunSteps ==
  ASSUME TypeOK, Clocks, Run \/ RunnerCrashes \/ RunnerConnects
  PROVE  (TypeOK /\ Clocks)'
<1> USE DEF TypeOK, Clocks
<1>1. CASE TakeRun
  <2>1. Head(runnerChannel) \in Times /\ Tail(runnerChannel) \in Seq(Times)
    BY <1>1, QueueTypes DEF TakeRun, TypeChannels
  <2>2. TypeChannels'
    BY <1>1, <2>1 DEF TakeRun, TypeChannels
  <2>3. TypeRunner' /\ RunClock'
    BY <1>1, <2>1, TickAssumption DEF TakeRun, TypeRunner, RunClock, Times
  <2>4. TypeMain' /\ MainClock' /\ TypeStore' /\ TypeWorkers' /\ WorkerClock' /\ TypeFinalize' /\
      FinalizeClock' /\ TypeBlobs'
    BY <1>1 DEF TakeRun, mainVars, roomSets, tickKeys, userSets, lists, loopVars, finalizeVars,
        blobs, TypeMain, MainClock, TypeStore, TypeWorkers, WorkerClock, TypeFinalize,
        FinalizeClock, TypeBlobs
  <2> QED BY <2>1, <2>2, <2>3, <2>4
<1>2. CASE RunCloses
  <2>1. TypeRunner' /\ RunClock'
    BY <1>2, TickAssumption DEF RunCloses, TypeRunner, RunClock, Times
  <2>2. TypeMain' /\ MainClock' /\ TypeStore' /\ TypeChannels' /\ TypeWorkers' /\ WorkerClock' /\
      TypeFinalize' /\ FinalizeClock' /\ TypeBlobs'
    BY <1>2 DEF RunCloses, mainVars, roomSets, tickKeys, userSets, lists, channels, loopVars,
        finalizeVars, blobs, TypeMain, MainClock, TypeStore, TypeChannels, TypeWorkers, WorkerClock,
        TypeFinalize, FinalizeClock, TypeBlobs
  <2> QED BY <2>1, <2>2
<1>3. CASE RunEnds
  <2>1. TypeRunner' /\ RunClock'
    BY <1>3, TickAssumption DEF RunEnds, TypeRunner, RunClock, Times
  <2>2. TypeMain' /\ MainClock' /\ TypeStore' /\ TypeChannels' /\ TypeWorkers' /\ WorkerClock' /\
      TypeFinalize' /\ FinalizeClock' /\ TypeBlobs'
    BY <1>3 DEF RunEnds, mainVars, roomSets, tickKeys, userSets, lists, channels, loopVars,
        finalizeVars, blobs, TypeMain, MainClock, TypeStore, TypeChannels, TypeWorkers, WorkerClock,
        TypeFinalize, FinalizeClock, TypeBlobs
  <2> QED BY <2>1, <2>2
<1>4. CASE RunnerCrashes
  <2>1. crashes' \in 0 .. MaxCrashes
    BY <1>4, TickAssumption DEF TypeRunner, RunnerCrashes
  <2>2. \A u \in Users : userPc'[u] = "none"
    BY <1>4 DEF RunnerCrashes
  <2>3. runTime' \in 0 .. MaxTime + 1
    BY <1>4, TickAssumption DEF RunnerCrashes
  <2>4. TypeChannels'
    BY <1>4 DEF RunnerCrashes, TypeChannels
  <2>5. TypeRunner' /\ RunClock'
    BY <1>4, <2>1, <2>2, <2>3 DEF RunnerCrashes, TypeRunner, RunClock
  <2>6. TypeMain' /\ MainClock' /\ TypeStore' /\ TypeWorkers' /\ WorkerClock' /\ TypeFinalize' /\
      FinalizeClock' /\ TypeBlobs'
    BY <1>4 DEF RunnerCrashes, mainVars, roomSets, tickKeys, userSets, lists, loopVars,
        finalizeVars, blobs, TypeMain, MainClock, TypeStore, TypeWorkers, WorkerClock, TypeFinalize,
        FinalizeClock, TypeBlobs
  <2> QED BY <2>1, <2>2, <2>3, <2>4, <2>5, <2>6
<1>5. CASE RunnerConnects
  <2>1. RunnerConnected \in ServiceMessages
    BY <1>5, TickAssumption DEF RunnerConnected, ServiceMessages
  <2>2. TypeChannels'
    BY <1>5, <2>1, QueueTypes DEF RunnerConnects, TypeChannels
  <2>3. TypeRunner' /\ RunClock'
    BY <1>5 DEF RunnerConnects, TypeRunner, RunClock
  <2>4. TypeMain' /\ MainClock' /\ TypeStore' /\ TypeWorkers' /\ WorkerClock' /\ TypeFinalize' /\
      FinalizeClock' /\ TypeBlobs'
    BY <1>5 DEF RunnerConnects, mainVars, roomSets, tickKeys, userSets, lists, loopVars,
        finalizeVars, blobs, TypeMain, MainClock, TypeStore, TypeWorkers, WorkerClock, TypeFinalize,
        FinalizeClock, TypeBlobs
  <2> QED BY <2>1, <2>2, <2>3, <2>4
<1> QED BY <1>1, <1>2, <1>3, <1>4, <1>5 DEF Run

(* ... of a player's turn in the runner *)
LEMMA UserSteps ==
  ASSUME TypeOK, Clocks, NEW u \in Users, RunUser(u)
  PROVE  (TypeOK /\ Clocks)'
<1> USE DEF TypeOK, Clocks
<1>1. CASE TakeUser(u)
  <2>1. runTime \in Times
    BY <1>1 DEF RunClock, TakeUser
  <2>2. TypeStore'
    BY <1>1 DEF TakeUser, TypeStore, roomSets, tickKeys, lists, Slot
  <2>3. TypeRunner' /\ RunClock'
    BY <1>1, <2>1 DEF TakeUser, TypeRunner, RunClock
  <2>4. TypeMain' /\ MainClock' /\ TypeChannels' /\ TypeWorkers' /\ WorkerClock' /\ TypeFinalize' /\
      FinalizeClock' /\ TypeBlobs'
    BY <1>1 DEF TakeUser, mainVars, channels, loopVars, finalizeVars, blobs, TypeMain, MainClock,
        TypeChannels, TypeWorkers, WorkerClock, TypeFinalize, FinalizeClock, TypeBlobs
  <2> QED BY <2>1, <2>2, <2>3, <2>4
<1>2. CASE ReadIntentRooms(u)
  <2>1. TypeRunner' /\ RunClock'
    BY <1>2 DEF ReadIntentRooms, TypeRunner, RunClock, IntentRooms
  <2>2. TypeMain' /\ MainClock' /\ TypeStore' /\ TypeChannels' /\ TypeWorkers' /\ WorkerClock' /\
      TypeFinalize' /\ FinalizeClock' /\ TypeBlobs'
    BY <1>2 DEF ReadIntentRooms, mainVars, roomSets, tickKeys, userSets, lists, channels, loopVars,
        finalizeVars, blobs, TypeMain, MainClock, TypeStore, TypeChannels, TypeWorkers, WorkerClock,
        TypeFinalize, FinalizeClock, TypeBlobs
  <2> QED BY <2>1, <2>2
<1>3. CASE Deactivate(u)
  <2>1. TypeStore'
    BY <1>3 DEF Deactivate, TypeStore, roomSets, tickKeys, lists
  <2>2. TypeRunner' /\ RunClock'
    BY <1>3 DEF Deactivate, TypeRunner, RunClock
  <2>3. TypeMain' /\ MainClock' /\ TypeChannels' /\ TypeWorkers' /\ WorkerClock' /\ TypeFinalize' /\
      FinalizeClock' /\ TypeBlobs'
    BY <1>3 DEF Deactivate, mainVars, channels, loopVars, finalizeVars, blobs, TypeMain, MainClock,
        TypeChannels, TypeWorkers, WorkerClock, TypeFinalize, FinalizeClock, TypeBlobs
  <2> QED BY <2>1, <2>2, <2>3
<1>4. ASSUME NEW success \in BOOLEAN, PublishIntents(u, success) PROVE (TypeOK /\ Clocks)'
  <2>1. runTime \in Times
    BY <1>4 DEF RunClock, PublishIntents
  <2>2. processRooms[runTime] \in SortedSet
    BY <1>4, <2>1 DEF TypeStore, SortedSet
  <2>3. ZIncrXX(processRooms[runTime], userRooms[u], -1) \in SortedSet
    BY <1>4, <2>2, ConditionalTypes
  <2>4. TypeStore'
    BY <1>4, <2>1, <2>3 DEF PublishIntents, TypeStore, roomSets, userSets, SortedSet
  <2>5. TypeRunner' /\ RunClock'
    BY <1>4, <2>1 DEF PublishIntents, TypeRunner, RunClock
  <2>6. TypeBlobs'
    BY <1>4 DEF PublishIntents, TypeBlobs
  <2>7. TypeMain' /\ MainClock' /\ TypeChannels' /\ TypeWorkers' /\ WorkerClock' /\ TypeFinalize' /\
      FinalizeClock'
    BY <1>4 DEF PublishIntents, mainVars, channels, loopVars, finalizeVars, TypeMain, MainClock,
        TypeChannels, TypeWorkers, WorkerClock, TypeFinalize, FinalizeClock
  <2> QED BY <2>1, <2>2, <2>3, <2>4, <2>5, <2>6, <2>7
<1>5. CASE ResetCounts(u)
  <2>1. runTime \in Times
    BY <1>5 DEF RunClock, ResetCounts
  <2>2. processRooms[runTime] \in SortedSet
    BY <1>5, <2>1 DEF TypeStore, SortedSet
  <2>3. ZAddXX(processRooms[runTime], negative[u], 0) \in SortedSet
    BY <1>5, <2>2, ConditionalTypes
  <2>4. TypeStore'
    BY <1>5, <2>1, <2>3 DEF ResetCounts, TypeStore, roomSets, userSets, lists, SortedSet
  <2>5. TypeRunner' /\ RunClock'
    BY <1>5, <2>1 DEF ResetCounts, TypeRunner, RunClock
  <2>6. TypeMain' /\ MainClock' /\ TypeChannels' /\ TypeWorkers' /\ WorkerClock' /\ TypeFinalize' /\
      FinalizeClock' /\ TypeBlobs'
    BY <1>5 DEF ResetCounts, mainVars, channels, loopVars, finalizeVars, blobs, TypeMain, MainClock,
        TypeChannels, TypeWorkers, WorkerClock, TypeFinalize, FinalizeClock, TypeBlobs
  <2> QED BY <2>1, <2>2, <2>3, <2>4, <2>5, <2>6
<1>6. CASE NotifyProcessors(u)
  <2>1. runTime \in Times
    BY <1>6 DEF RunClock, NotifyProcessors
  <2>2. Cardinality(zeroed[u]) \in Nat
    BY <1>6, RoomsCardType DEF TypeRunner
  <2>3. Smaller(Cardinality(zeroed[u]), Everyone) \in 0 .. Everyone
    BY <1>6, <2>2, EveryoneType DEF Smaller
  <2>4. TypeChannels'
    BY <1>6, <2>1, <2>3, MessageTypes, QueueTypes DEF NotifyProcessors, TypeChannels
  <2>5. TypeRunner' /\ RunClock'
    BY <1>6 DEF NotifyProcessors, TypeRunner, RunClock
  <2>6. TypeMain' /\ MainClock' /\ TypeStore' /\ TypeWorkers' /\ WorkerClock' /\ TypeFinalize' /\
      FinalizeClock' /\ TypeBlobs'
    BY <1>6 DEF NotifyProcessors, mainVars, roomSets, tickKeys, userSets, lists, loopVars,
        finalizeVars, blobs, TypeMain, MainClock, TypeStore, TypeWorkers, WorkerClock, TypeFinalize,
        FinalizeClock, TypeBlobs
  <2> QED BY <2>1, <2>2, <2>3, <2>4, <2>5, <2>6
<1> QED BY <1>1, <1>2, <1>3, <1>4, <1>5, <1>6 DEF RunUser

(* ... that pushes an intent from outside *)
LEMMA PushSteps ==
  ASSUME TypeOK, Clocks, NEW r \in Rooms, NEW now \in Times, PushIntentsForRoom(r, now)
  PROVE  (TypeOK /\ Clocks)'
<1> USE DEF TypeOK, Clocks
<1>0. sleepingRooms \in SortedSet /\ now + 1 \in Int
  BY DEF TypeStore, SortedSet, Times
<1>1. ZAdd(sleepingRooms, r, now + 1) \in SortedSet
  <2> HIDE DEF TypeOK, Clocks, SortedSet
  <2> QED BY <1>0, AddTypes
<1>2. TypeStore'
  BY <1>1 DEF PushIntentsForRoom, TypeStore, SortedSet, tickKeys, userSets
<1>3. pushes' \in 0 .. MaxPushes
  BY TickAssumption DEF PushIntentsForRoom, TypeRunner
<1>4. TypeRunner' /\ RunClock'
  BY <1>3 DEF PushIntentsForRoom, TypeRunner, RunClock, runnerVars
<1>5. TypeMain' /\ MainClock' /\ TypeChannels' /\ TypeWorkers' /\ WorkerClock' /\ TypeFinalize'
      /\ FinalizeClock' /\ TypeBlobs'
  BY DEF PushIntentsForRoom, mainVars, channels, loopVars, finalizeVars, blobs, TypeMain, MainClock,
         TypeChannels, TypeWorkers, WorkerClock, TypeFinalize, FinalizeClock, TypeBlobs
<1> QED BY <1>2, <1>4, <1>5

(* ... that changes nothing *)
LEMMA StutterSteps ==
  ASSUME TypeOK, Clocks, UNCHANGED vars
  PROVE  (TypeOK /\ Clocks)'
BY DEF TypeOK, Clocks, vars, mainVars, roomSets, tickKeys, userSets, lists, channels, loopVars, finalizeVars,
       runnerVars, blobs, TypeMain, MainClock, TypeStore, TypeChannels, TypeWorkers, WorkerClock,
       TypeFinalize, FinalizeClock, TypeRunner, RunClock, TypeBlobs

(* the shard starts with every key of its kind *)
LEMMA InitTypes == Init => TypeOK /\ Clocks
<1> SUFFICES ASSUME Init PROVE TypeOK /\ Clocks
  OBVIOUS
<1>1. \A r \in Rooms : Cardinality(users[r]) \in Int
  BY FS_Subset, FS_CardinalityType, TickAssumption DEF Init
<1>2. Cardinality(Rooms) \in Int
  BY RoomsCardType
<1>3. activeRooms \in SortedSet /\ sleepingRooms \in SortedSet
  BY <1>1 DEF Init, SortedSet, Score
<1>4. TypeStore
  <2>1. processRooms \in [Times -> SortedSet]
    BY <1>3 DEF Init
  <2>2. /\ processedRooms \in [Times -> SUBSET Rooms] /\ roomsPending \in [Times -> Score]
        /\ finalizePending \in [Times -> Score] /\ finalizeExtraRooms \in [Times -> SUBSET Rooms]
    BY <1>2 DEF Init, Score
  <2>3. /\ activeUsers \subseteq Users /\ runnerUsers \in [{0, 1} -> SUBSET Users]
        /\ intents \in [Rooms -> SUBSET ((Users \cup {System}) \X Times)] /\ finalIntents \subseteq Rooms
    BY DEF Init
  <2> QED BY <1>3, <2>1, <2>2, <2>3 DEF TypeStore, SortedSet
<1>5. TypeMain /\ MainClock
  BY TickAssumption DEF Init, TypeMain, MainClock, Times
<1>6. TypeChannels /\ TypeWorkers /\ WorkerClock
  BY TickAssumption DEF Init, TypeChannels, TypeWorkers, WorkerClock
<1>7. TypeFinalize /\ FinalizeClock /\ TypeBlobs
  BY TickAssumption DEF Init, TypeFinalize, FinalizeClock, TypeBlobs
<1>8. TypeRunner /\ RunClock
  <2>1. runTime \in 0 .. MaxTime + 1 /\ crashes \in 0 .. MaxCrashes /\ pushes \in 0 .. MaxPushes
    BY TickAssumption DEF Init
  <2>2. \A u \in Users : userPc[u] = "none"
    BY DEF Init
  <2> QED BY <2>1, <2>2 DEF Init, TypeRunner, RunClock
<1> QED BY <1>4, <1>5, <1>6, <1>7, <1>8 DEF TypeOK, Clocks

(* no step breaks the types or the clocks *)
LEMMA NextTypes == TypeOK /\ Clocks /\ [Next]_vars => (TypeOK /\ Clocks)'
<1> SUFFICES ASSUME TypeOK, Clocks, [Next]_vars PROVE (TypeOK /\ Clocks)'
  OBVIOUS
<1>1. CASE Main \/ AbandonIntents \/ \E t \in Times : PublishAbandoned(t)
  BY <1>1, MainSteps
<1>2. CASE Service
  BY <1>2, ServiceSteps
<1>3. ASSUME NEW w \in Workers, Worker(w) PROVE (TypeOK /\ Clocks)'
  BY <1>3, WorkerSteps
<1>4. ASSUME NEW w \in Workers, Finalize(w) PROVE (TypeOK /\ Clocks)'
  BY <1>4, FinalizeSteps
<1>5. CASE Run \/ RunnerCrashes \/ RunnerConnects
  BY <1>5, RunSteps
<1>6. ASSUME NEW u \in Users, RunUser(u) PROVE (TypeOK /\ Clocks)'
  BY <1>6, UserSteps
<1>7. ASSUME NEW r \in Rooms, NEW now \in Times, PushIntentsForRoom(r, now) PROVE (TypeOK /\ Clocks)'
  BY <1>7, PushSteps
<1>8. CASE Terminated \/ UNCHANGED vars
  BY <1>8, StutterSteps DEF Terminated
<1> QED BY <1>1, <1>2, <1>3, <1>4, <1>5, <1>6, <1>7, <1>8 DEF Next

(* Whatever the services do and in whatever order, every key, message and  *)
(* program counter holds a value of its kind: no count is taken of a       *)
(* missing key, no message carries a tick that does not exist, no worker   *)
(* drains the queue of a tick that was never started.                      *)
THEOREM TypeCorrect == Spec => []TypeOK
<1>1. Init => TypeOK /\ Clocks
  BY InitTypes
<1>2. TypeOK /\ Clocks /\ [Next]_vars => (TypeOK /\ Clocks)'
  BY NextTypes
<1> QED BY <1>1, <1>2, PTL DEF Spec
-----------------------------------------------------------------------------
(***************************************************************************)
(* The active set counts players.  Who may act in a room and the room's    *)
(* score change in the same step, when a room is finalized; begetting the  *)
(* next queue adds woken rooms and must not disturb the others' scores.    *)
(***************************************************************************)
(* only finalization changes who may act in a room; the active set changes there and in begetting *)
LEMMA WhoSettles ==
  ASSUME [Next]_vars
  PROVE  \/ UNCHANGED <<activeRooms, users>>
         \/ BegetRoomProcessQueue
         \/ \E w \in Workers, r \in Rooms : FinalizeRoom(w, r) \/ FinalizeExtraRoom(w, r)
<1>1. CASE Main \/ AbandonIntents \/ \E t \in Times : PublishAbandoned(t)
  BY <1>1 DEF Main, StartTick, PublishRun, HandleRunnerConnected, HandleTickFinished, AdvanceTime,
              EndTick, AbandonIntents, PublishAbandoned, roomSets, blobs
<1>2. CASE Service
  BY <1>2 DEF Service, HandleProcess, HandleFinalize, FinishFinalize, roomSets, blobs
<1>3. ASSUME NEW w \in Workers, Worker(w) PROVE UNCHANGED <<activeRooms, users>>
  BY <1>3 DEF Worker, PopRoom, StartRoom, SendIntents, MarkExtraRooms, RoomDidProcess, AnnounceFinalize,
              DrainEnds, WorkerSleeps, roomSets, blobs
<1>4. CASE \E w \in Workers : Finalize(w)
  BY <1>4 DEF Finalize, RoomsDidFinalize, roomSets, blobs
<1>5. CASE Run \/ RunnerCrashes \/ RunnerConnects
  BY <1>5 DEF Run, TakeRun, RunCloses, RunEnds, RunnerCrashes, RunnerConnects, roomSets, blobs
<1>6. ASSUME NEW u \in Users, RunUser(u) PROVE UNCHANGED <<activeRooms, users>>
  BY <1>6 DEF RunUser, TakeUser, ReadIntentRooms, Deactivate, PublishIntents, ResetCounts, NotifyProcessors,
              roomSets, blobs
<1>7. CASE \E r \in Rooms, now \in Times : PushIntentsForRoom(r, now)
  BY <1>7 DEF PushIntentsForRoom, blobs
<1>8. CASE Terminated \/ UNCHANGED vars
  BY <1>8 DEF Terminated, vars, roomSets, blobs
<1> QED BY <1>1, <1>2, <1>3, <1>4, <1>5, <1>6, <1>7, <1>8 DEF Next

(* waking rooms join the active set with nobody to wait for: the union weighs them zero *)
LEMMA BegetCounts ==
  ASSUME TypeOK, ActiveCountsPlayers, BegetRoomProcessQueue
  PROVE  ActiveCountsPlayers'
<1> DEFINE waking == ZRangeStore(sleepingRooms, 0, tickTime + 1)
<1>1. activeRooms \in SortedSet /\ waking \in SortedSet
  BY RangeTypes DEF TypeOK, TypeStore, SortedSet
<1>2. activeRooms' = ZUnionStore(activeRooms, waking, 1, 0) /\ users' = users
  BY DEF BegetRoomProcessQueue
<1> HIDE DEF waking
<1> SUFFICES ASSUME NEW r \in Rooms
             PROVE  IF activeRooms'[r] = Null THEN users[r] = {}
                                              ELSE activeRooms'[r] = Cardinality(users[r])
  BY <1>2 DEF ActiveCountsPlayers
<1>3. activeRooms[r] \in Score /\ waking[r] \in Score /\ DOMAIN activeRooms = Rooms
  BY <1>1 DEF SortedSet
<1>4. Weigh(waking[r], 0) = 0
  BY <1>3 DEF Weigh, Score
<1>5. activeRooms'[r] = IF activeRooms[r] = Null /\ waking[r] = Null THEN Null
                        ELSE Weigh(activeRooms[r], 1) + 0
  BY <1>2, <1>3, <1>4 DEF ZUnionStore
<1>6. CASE activeRooms[r] = Null
  <2>1. users[r] = {} /\ Cardinality(users[r]) = 0
    BY <1>6, FS_EmptySet DEF ActiveCountsPlayers
  <2>2. activeRooms'[r] = Null \/ activeRooms'[r] = 0
    BY <1>5, <1>6 DEF Weigh
  <2> QED BY <2>1, <2>2, NullAssumption
<1>7. CASE activeRooms[r] # Null
  <2>1. Weigh(activeRooms[r], 1) + 0 = activeRooms[r]
    BY <1>3, <1>7 DEF Weigh, Score
  <2> QED BY <1>5, <1>7, <2>1 DEF ActiveCountsPlayers
<1> QED BY <1>6, <1>7

(* a finalized room is recounted, put to sleep when nobody may act in it, or kept awake with zero *)
LEMMA SettleCounts ==
  ASSUME TypeOK, ActiveCountsPlayers, NEW r \in Rooms, NEW asleep \in BOOLEAN,
         NEW players \in SUBSET Users, NEW wake, SettleRoom(r, asleep, players, wake)
  PROVE  ActiveCountsPlayers'
<1> DEFINE counted == IF players = users[r] THEN activeRooms ELSE ZAdd(activeRooms, r, Cardinality(players))
<1> DEFINE woken == IF players = {} /\ asleep /\ wake = finalizingTime + 1 THEN ZAdd(counted, r, 0) ELSE counted
<1> DEFINE sleeps == players = {} /\ wake # finalizingTime + 1
<1>1. /\ activeRooms' = IF sleeps THEN ZRem(woken, {r}) ELSE woken
      /\ users' = [users EXCEPT ![r] = players]
  BY DEF SettleRoom
<1>2. DOMAIN activeRooms = Rooms /\ DOMAIN users = Rooms
  BY DEF TypeOK, TypeStore, TypeBlobs
<1>3. DOMAIN counted = Rooms /\ \A q \in Rooms \ {r} : counted[q] = activeRooms[q]
  BY <1>2 DEF ZAdd
<1>4. DOMAIN woken = Rooms /\ \A q \in Rooms \ {r} : woken[q] = activeRooms[q]
  BY <1>3 DEF ZAdd
<1>5. Cardinality(players) # Null
  BY FS_Subset, FS_CardinalityType, TickAssumption, NullAssumption
<1>6. ~sleeps => IF woken[r] = Null THEN players = {} ELSE woken[r] = Cardinality(players)
  <2>1. IF counted[r] = Null THEN players = {} ELSE counted[r] = Cardinality(players)
    BY <1>2, <1>5 DEF ZAdd, ActiveCountsPlayers
  <2>2. CASE woken = counted
    BY <2>1, <2>2
  <2>3. CASE players = {} /\ woken = ZAdd(counted, r, 0)
    BY <1>3, <2>3, FS_EmptySet, NullAssumption DEF ZAdd
  <2> QED BY <2>2, <2>3
<1> HIDE DEF counted, woken
<1>7. ASSUME NEW q \in Rooms
      PROVE  IF activeRooms'[q] = Null THEN users'[q] = {} ELSE activeRooms'[q] = Cardinality(users'[q])
  <2>1. CASE q # r
    BY <1>1, <1>2, <1>4, <2>1 DEF ZRem, ActiveCountsPlayers
  <2>2. CASE q = r
    BY <1>1, <1>2, <1>4, <1>6, <2>2 DEF ZRem
  <2> QED BY <2>1, <2>2
<1> QED BY <1>7 DEF ActiveCountsPlayers

(* The score a room has in the active set is the number of players who may *)
(* act in it, for any number of rooms, players, workers, ticks and runner  *)
(* crashes: the runner is never waited for on behalf of a player who left, *)
(* and a room with players never falls asleep (model.ts 239-296).          *)
THEOREM ActiveCounts == Spec => []ActiveCountsPlayers
<1>1. Init => ActiveCountsPlayers
  <2> SUFFICES ASSUME Init, NEW r \in Rooms
               PROVE  activeRooms[r] # Null /\ activeRooms[r] = Cardinality(users[r])
    BY DEF ActiveCountsPlayers
  <2>1. Cardinality(users[r]) \in Int
    BY FS_Subset, FS_CardinalityType, TickAssumption DEF Init
  <2> QED BY <2>1, NullAssumption DEF Init
<1>2. TypeOK /\ ActiveCountsPlayers /\ [Next]_vars => ActiveCountsPlayers'
  <2> SUFFICES ASSUME TypeOK, ActiveCountsPlayers, [Next]_vars PROVE ActiveCountsPlayers'
    OBVIOUS
  <2>1. CASE UNCHANGED <<activeRooms, users>>
    BY <2>1 DEF ActiveCountsPlayers
  <2>2. CASE BegetRoomProcessQueue
    BY <2>2, BegetCounts
  <2>3. ASSUME NEW w \in Workers, NEW r \in Rooms, FinalizeRoom(w, r) \/ FinalizeExtraRoom(w, r)
        PROVE  ActiveCountsPlayers'
    <3>1. \E asleep \in BOOLEAN, players \in SUBSET Users, wake \in Wakes(finalizingTime) :
             SettleRoom(r, asleep, players, wake)
      BY <2>3 DEF FinalizeRoom, FinalizeExtraRoom
    <3> QED BY <3>1, SettleCounts
  <2> QED BY <2>1, <2>2, <2>3, WhoSettles
<1> QED BY <1>1, <1>2, TypeCorrect, PTL DEF Spec
-----------------------------------------------------------------------------
(***************************************************************************)
(* The barriers of a tick.                                                 *)
(***************************************************************************)
\* the keys of the tick whose rooms are queued
Queue == ZMembers(processRooms[QueueTime])
Pending == roomsPending[QueueTime]
Remaining == finalizePending[QueueTime]
TickRooms == processedRooms[QueueTime]
Extra == finalizeExtraRooms[QueueTime]

\* the messages of one kind in a channel, and that it has at most one of them, of the tick `time`
OfKind(q, kind) == {i \in DOMAIN q : q[i].type = kind}
Sole(q, kind, time) == \A i, j \in OfKind(q, kind) : i = j /\ q[i].time = time

Finished == OfKind(serviceChannel, "tickFinished")
Announced == OfKind(processorChannel, "finalize")

\* the rooms a worker has started in this tick and not finalized
Kept(w) == IF servicePc = "listen" THEN processed[w] ELSE unfinalized[w]

\* the rooms of the tick that are not processed yet
Undone == {r \in Rooms : r \in Queue \/ \E w \in Workers : r \in InHand(w)}

\* all rooms of the tick that a worker accounts for
Mine(w) == held[w] \cup Kept(w) \cup unmarked[w]

(***************************************************************************)
(* Where main is, and that nobody is ahead of it.                          *)
(***************************************************************************)
MainStages ==
  /\ mainPc = "start" => shardTime = tickTime + 1
  /\ mainPc \in {"start", "run", "stopped"} => timer = "off"
  /\ nextTasks # {} => mainPc = "next"
  /\ shardTime \in {tickTime, tickTime + 1}

NobodyAhead ==
  /\ runTime <= tickTime /\ finalizingTime <= tickTime /\ finalizedTime <= tickTime
  /\ \A i \in DOMAIN runnerChannel : runnerChannel[i] <= tickTime
  /\ \A i \in DOMAIN processorChannel : processorChannel[i].time <= tickTime
  /\ \A t \in abandonNotices : t <= tickTime
  /\ \A w \in Workers : currentTime[w] <= tickTime /\ (pendingTime[w] # Null => pendingTime[w] <= tickTime)

(***************************************************************************)
(* Only the queued tick has keys in the store.                             *)
(***************************************************************************)
OthersQuiet ==
  \A t \in Times : t # QueueTime =>
    /\ ZMembers(processRooms[t]) = {} /\ processedRooms[t] = {} /\ finalizeExtraRooms[t] = {}
    /\ roomsPending[t] = Null /\ finalizePending[t] = Null

(***************************************************************************)
(* What a worker holds at each point of its loop.                          *)
(***************************************************************************)
WorkerShape ==
  \A w \in Workers :
    /\ room[w] # Null <=> workerPc[w] \in {"send", "mark", "decr"}
    /\ unmarked[w] # {} => workerPc[w] = "mark"
    /\ held[w] # {} => workerPc[w] \notin {"idle", "unwind"}
    /\ held[w] # {} \/ workerPc[w] \in {"send", "mark", "decr", "announce"} => currentTime[w] = QueueTime

(***************************************************************************)
(* The countdown of the first phase.                                       *)
(***************************************************************************)
Countdown ==
  /\ Pending # Null => Pending = Cardinality(Undone)
  /\ Pending = Null => Undone = {}
  /\ \A w \in Workers : workerPc[w] = "announce" => Pending = 0
  /\ \A v, w \in Workers : workerPc[v] = "announce" /\ workerPc[w] = "announce" => v = w

(***************************************************************************)
(* A tick is in one phase: being processed, being finalized (announced or  *)
(* at work), finished with main not knowing, or finished.                  *)
(***************************************************************************)
OnePhase ==
  /\ Sole(serviceChannel, "tickFinished", QueueTime)
  /\ Remaining # Null => Pending = Null
  /\ Finished # {} \/ "beget" \in nextTasks => Pending = Null /\ Remaining = Null
  /\ Finished # {} => "beget" \notin nextTasks

AnnouncedOnce ==
  /\ Sole(processorChannel, "finalize", QueueTime)
  /\ Announced # {} => Remaining # Null /\ servicePc = "listen"

\* a service that still is in the finalization of an earlier tick has read nothing about this one
FinalizeLoop ==
  /\ servicePc = "finalize" => finalizingTime < QueueTime \/ Pending = Null
  /\ servicePc = "finalize" => \A w \in Workers :
       currentTime[w] <= finalizingTime /\ (pendingTime[w] # Null => pendingTime[w] <= finalizingTime)
  /\ \A w \in Workers :
       /\ finalizePc[w] = "none" <=> servicePc = "listen"
       /\ finalizePc[w] = "work" => finalizingTime = QueueTime /\ Remaining # Null
       /\ finalizePc[w] = "done" => unfinalized[w] = {}
  /\ Pending # Null => finalizedTime < QueueTime

Phases == OnePhase /\ AnnouncedOnce /\ FinalizeLoop

(***************************************************************************)
(* Every room of the tick is in one place.                                 *)
(***************************************************************************)
Apart ==
  /\ Queue \cap Extra = {}
  /\ \A w \in Workers :
       /\ Mine(w) \cap Queue = {} /\ Mine(w) \cap Extra = {}
       /\ held[w] \cap Kept(w) = {} /\ held[w] \cap unmarked[w] = {} /\ Kept(w) \cap unmarked[w] = {}
       /\ room[w] # Null => room[w] \in Kept(w)
  /\ \A v, w \in Workers : v # w => Mine(v) \cap Mine(w) = {}

Accounted ==
  /\ Pending # Null =>
       /\ TickRooms = {r \in Rooms : r \in Queue \/ r \in Extra \/ \E w \in Workers : r \in Mine(w)}
       /\ finalIntents \subseteq TickRooms
  /\ Pending = Null => TickRooms = {} /\ finalIntents \subseteq Unfinalized
  /\ Pending = Null /\ Remaining = Null => Unfinalized = {}
  /\ QueueTime # tickTime => finalIntents = {}

\* F[w]: the rooms that worker w has finalized and not yet reported
Tally(F) ==
  /\ \A w \in Workers :
       /\ finalizePc[w] = "work" => Cardinality(F[w]) = finalizeCount[w] /\ F[w] \cup Kept(w) # {}
       /\ finalizePc[w] # "work" => F[w] = {}
       /\ F[w] \cap Unfinalized = {}
  /\ \A v, w \in Workers : v # w => F[v] \cap F[w] = {}
  /\ Remaining = Cardinality(Unfinalized \cup UNION {F[w] : w \in Workers})

Tallied == Remaining # Null => \E F \in [Workers -> SUBSET Rooms] : Tally(F)

Barriers ==
  /\ MainStages /\ NobodyAhead /\ OthersQuiet /\ WorkerShape
  /\ Countdown /\ Phases /\ Apart /\ Accounted /\ Tallied

-----------------------------------------------------------------------------
(***************************************************************************)
(* Facts about the store's commands and the channels.                      *)
(***************************************************************************)
(* removing members removes them, and nothing else *)
LEMMA RemMembers ==
  ASSUME NEW z \in SortedSet, NEW M
  PROVE  ZMembers(ZRem(z, M)) = ZMembers(z) \ M
BY DEF ZMembers, ZRem, SortedSet

(* changing the scores of members that exist neither adds nor removes one *)
LEMMA ConditionalMembers ==
  ASSUME NEW z \in SortedSet, NEW M, NEW d \in Int
  PROVE  /\ ZMembers(ZAddXX(z, M, d)) = ZMembers(z) /\ ZMembers(ZIncrXX(z, M, d)) = ZMembers(z)
         /\ ZMembers(ZInterStore(z, d)) = ZMembers(z)
<1>1. ZMembers(ZAddXX(z, M, d)) = ZMembers(z)
  BY NullAssumption DEF ZMembers, ZAddXX, SortedSet, Score
<1>2. ZMembers(ZIncrXX(z, M, d)) = ZMembers(z)
  BY NullAssumption DEF ZMembers, ZIncrXX, SortedSet, Score
<1>3. \A m \in Rooms : Weigh(z[m], d) # Null
  BY NullAssumption DEF Weigh, SortedSet, Score
<1>4. ZMembers(ZInterStore(z, d)) = ZMembers(z)
  BY <1>3 DEF ZMembers, ZInterStore, SortedSet
<1> QED BY <1>1, <1>2, <1>4

(* what is in a channel after a message was published to it *)
LEMMA AppendMessages ==
  ASSUME NEW S, NEW q \in Seq(S), NEW m \in S
  PROVE  /\ \A i \in DOMAIN q : i \in DOMAIN Append(q, m) /\ Append(q, m)[i] = q[i]
         /\ \A i \in DOMAIN Append(q, m) :
              \/ i \in DOMAIN q /\ Append(q, m)[i] = q[i]
              \/ i = Len(q) + 1 /\ Append(q, m)[i] = m
         /\ Len(q) + 1 \in DOMAIN Append(q, m) /\ Append(q, m)[Len(q) + 1] = m
         /\ Len(q) + 1 \notin DOMAIN q
OBVIOUS

(* ... and after its first message was read *)
LEMMA TailMessages ==
  ASSUME NEW S, NEW q \in Seq(S), q # <<>>
  PROVE  /\ 1 \in DOMAIN q /\ Head(q) = q[1]
         /\ \A i \in DOMAIN q : i # 1 => i - 1 \in DOMAIN Tail(q) /\ Tail(q)[i - 1] = q[i]
         /\ \A i \in DOMAIN Tail(q) : i + 1 \in DOMAIN q /\ Tail(q)[i] = q[i + 1] /\ i # 0
         /\ DOMAIN Tail(q) \subseteq Int
OBVIOUS

(* a message of another kind leaves the sole message of its kind alone, ... *)
LEMMA SoleAppend ==
  ASSUME NEW S, NEW q \in Seq(S), NEW m \in S, NEW k, NEW t
  PROVE  /\ m.type # k /\ Sole(q, k, t) => Sole(Append(q, m), k, t)
         /\ m.type # k => (OfKind(Append(q, m), k) = {} <=> OfKind(q, k) = {})
         /\ m.type = k /\ m.time = t /\ OfKind(q, k) = {} => Sole(Append(q, m), k, t)
<1>1. /\ \A i \in DOMAIN q : i \in DOMAIN Append(q, m) /\ Append(q, m)[i] = q[i]
      /\ \A i \in DOMAIN Append(q, m) :
           \/ i \in DOMAIN q /\ Append(q, m)[i] = q[i]
           \/ i = Len(q) + 1 /\ Append(q, m)[i] = m
  BY AppendMessages
<1> DEFINE next == Append(q, m)
<1>2. /\ \A i \in DOMAIN q : i \in DOMAIN next /\ next[i] = q[i]
      /\ \A i \in DOMAIN next : (i \in DOMAIN q /\ next[i] = q[i]) \/ (i = Len(q) + 1 /\ next[i] = m)
  BY <1>1
<1> HIDE DEF next
<1>3. m.type # k => OfKind(next, k) = OfKind(q, k) /\ \A i \in OfKind(q, k) : next[i] = q[i]
  BY <1>2 DEF OfKind
<1>4. OfKind(q, k) = {} => \A i \in OfKind(next, k) : i = Len(q) + 1 /\ next[i] = m
  BY <1>2 DEF OfKind
<1>5. m.type = k /\ m.time = t /\ OfKind(q, k) = {} => Sole(next, k, t)
  BY <1>4 DEF Sole
<1>6. m.type # k /\ Sole(q, k, t) => Sole(next, k, t)
  BY <1>3 DEF Sole
<1> QED BY <1>3, <1>5, <1>6 DEF next

(* ... and so does reading one; reading the sole message leaves none *)
LEMMA SoleTail ==
  ASSUME NEW S, NEW q \in Seq(S), q # <<>>, NEW k, NEW t
  PROVE  /\ Sole(q, k, t) => Sole(Tail(q), k, t)
         /\ OfKind(q, k) = {} => OfKind(Tail(q), k) = {}
         /\ Sole(q, k, t) /\ Head(q).type = k => OfKind(Tail(q), k) = {}
         /\ Head(q).type = k => OfKind(q, k) # {}
<1> DEFINE next == Tail(q)
<1>1. /\ 1 \in DOMAIN q /\ Head(q) = q[1] /\ DOMAIN next \subseteq Int
      /\ \A i \in DOMAIN next : i + 1 \in DOMAIN q /\ next[i] = q[i + 1] /\ i # 0
  BY TailMessages
<1> HIDE DEF next
<1>2. \A i \in OfKind(next, k) : i \in Int /\ i # 0 /\ i + 1 \in OfKind(q, k) /\ next[i] = q[i + 1]
  BY <1>1 DEF OfKind
<1>3. Sole(q, k, t) => Sole(next, k, t)
  BY <1>2 DEF Sole
<1>4. OfKind(q, k) = {} => OfKind(next, k) = {}
  BY <1>2
<1>5. Head(q).type = k => 1 \in OfKind(q, k)
  BY <1>1 DEF OfKind
<1>6. Sole(q, k, t) /\ Head(q).type = k => OfKind(next, k) = {}
  BY <1>2, <1>5 DEF Sole
<1> QED BY <1>3, <1>4, <1>5, <1>6 DEF next

(* a message in a channel is one of the channel's messages *)
LEMMA ChannelTypes ==
  ASSUME TypeOK
  PROVE  /\ \A i \in DOMAIN processorChannel :
              /\ processorChannel[i] \in ProcessorMessages
              /\ processorChannel[i].time \in Times /\ processorChannel[i].time \in Int
         /\ \A i \in DOMAIN serviceChannel : serviceChannel[i] \in ServiceMessages
         /\ \A i \in DOMAIN runnerChannel : runnerChannel[i] \in Times /\ runnerChannel[i] \in Int
<1>1. \A S : \A q \in Seq(S) : \A i \in DOMAIN q : q[i] \in S
  OBVIOUS
<1>2. \A m \in ProcessorMessages : m.time \in Times
  BY DEF ProcessorMessages
<1>3. /\ processorChannel \in Seq(ProcessorMessages) /\ serviceChannel \in Seq(ServiceMessages)
      /\ runnerChannel \in Seq(Times)
  BY DEF TypeOK, TypeChannels
<1>4. Times \subseteq Int
  BY DEF Times
<1>5. \A i \in DOMAIN processorChannel : processorChannel[i] \in ProcessorMessages
  BY <1>1, <1>3
<1>6. \A i \in DOMAIN serviceChannel : serviceChannel[i] \in ServiceMessages
  BY <1>1, <1>3
<1>7. \A i \in DOMAIN runnerChannel : runnerChannel[i] \in Times
  BY <1>1, <1>3
<1> QED BY <1>2, <1>4, <1>5, <1>6, <1>7

(* the queued tick is the one main started last or the one it starts next *)
LEMMA QueueTimeType ==
  ASSUME TypeOK, Clocks, MainStages
  PROVE  /\ QueueTime \in Times /\ tickTime \in Int /\ QueueTime \in Int
         /\ QueueTime = tickTime \/ QueueTime = tickTime + 1
         /\ QueueTime = tickTime => mainPc \in {"run", "listen", "next"}
BY TickAssumption DEF TypeOK, TypeMain, Clocks, MainClock, MainStages, QueueTime, Times
-----------------------------------------------------------------------------
(***************************************************************************)
(* The steps in groups, and what each group leaves alone.                  *)
(***************************************************************************)
MainSide == Main \/ AbandonIntents \/ \E t \in Times : PublishAbandoned(t)

ProcessorSide == Service \/ \E w \in Workers : Worker(w) \/ Finalize(w)

RunnerSide ==
  \/ Run \/ RunnerCrashes \/ RunnerConnects \/ \E u \in Users : RunUser(u)
  \/ \E r \in Rooms, now \in Times : PushIntentsForRoom(r, now)
  \/ Terminated \/ UNCHANGED vars

(* a step is main's, the processors', or the runners' *)
LEMMA Sides == [Next]_vars => MainSide \/ ProcessorSide \/ RunnerSide
BY DEF Next, MainSide, ProcessorSide, RunnerSide

(* main touches no worker, no finalization and no runner *)
LEMMA MainFrame ==
  ASSUME MainSide
  PROVE  UNCHANGED <<loopVars, finalizeVars, runnerVars, finalizePending, finalizeExtraRooms, lists, users>>
BY DEF MainSide, Main, StartTick, PublishRun, HandleRunnerConnected, HandleTickFinished, BegetRoomProcessQueue,
       AdvanceTime, EndTick, AbandonIntents, PublishAbandoned, lists, tickKeys, blobs

(* the processors touch neither main nor the runners *)
LEMMA ProcessorFrame ==
  ASSUME ProcessorSide
  PROVE  UNCHANGED <<mainVars, runnerVars, runnerChannel, abandonNotices, runnerUsers, answered>>
<1>1. CASE Service
  BY <1>1 DEF Service, HandleProcess, HandleFinalize, FinishFinalize, userSets, channels, blobs
<1>2. ASSUME NEW w \in Workers, Worker(w)
      PROVE  UNCHANGED <<mainVars, runnerVars, runnerChannel, abandonNotices, runnerUsers, answered>>
  BY <1>2 DEF Worker, PopRoom, StartRoom, SendIntents, MarkExtraRooms, RoomDidProcess, AnnounceFinalize,
              DrainEnds, WorkerSleeps, userSets, channels, blobs
<1>3. ASSUME NEW w \in Workers, Finalize(w)
      PROVE  UNCHANGED <<mainVars, runnerVars, runnerChannel, abandonNotices, runnerUsers, answered>>
  BY <1>3 DEF Finalize, FinalizeRoom, FinalizeExtraRoom, RoomsDidFinalize, userSets, channels, blobs
<1> QED BY <1>1, <1>2, <1>3 DEF ProcessorSide

(* the runners touch neither main nor a worker, and of the tick's keys only the queue's scores *)
LEMMA RunnerFrame ==
  ASSUME RunnerSide
  PROVE  UNCHANGED <<mainVars, loopVars, finalizeVars, activeRooms, processedRooms, roomsPending,
                     finalizePending, finalizeExtraRooms, finalIntents, abandonNotices, users>>
<1> USE DEF roomSets, tickKeys, lists, channels, blobs
<1>1. CASE Run \/ RunnerCrashes \/ RunnerConnects
  BY <1>1 DEF Run, TakeRun, RunCloses, RunEnds, RunnerCrashes, RunnerConnects
<1>2. CASE \E u \in Users : RunUser(u)
  BY <1>2 DEF RunUser, TakeUser, ReadIntentRooms, Deactivate, PublishIntents, ResetCounts, NotifyProcessors
<1>3. CASE \E r \in Rooms, now \in Times : PushIntentsForRoom(r, now)
  BY <1>3 DEF PushIntentsForRoom
<1>4. CASE Terminated \/ UNCHANGED vars
  BY <1>4 DEF Terminated, vars
<1> QED BY <1>1, <1>2, <1>3, <1>4 DEF RunnerSide

(* main's loop keeps its stages *)
LEMMA MainStagesStep ==
  ASSUME TypeOK, Clocks, MainStages, [Next]_vars
  PROVE  MainStages'
<1>1. CASE UNCHANGED mainVars
  BY <1>1 DEF MainStages, mainVars
<1>2. CASE MainSide
  BY <1>2, TickAssumption
     DEF MainSide, Main, StartTick, PublishRun, HandleRunnerConnected, HandleTickFinished,
         BegetRoomProcessQueue, AdvanceTime, EndTick, AbandonIntents, PublishAbandoned, mainVars,
         MainStages, TypeOK, TypeMain, Clocks, MainClock, Times
<1> QED BY <1>1, <1>2, Sides, ProcessorFrame, RunnerFrame

(* only begetting the next process queue changes which tick is queued *)
LEMMA QueueTimeStep ==
  ASSUME TypeOK, Clocks, MainStages, [Next]_vars
  PROVE  \/ QueueTime' = QueueTime
         \/ BegetRoomProcessQueue /\ QueueTime = tickTime /\ QueueTime' = tickTime + 1
<1>1. CASE UNCHANGED mainVars
  BY <1>1 DEF QueueTime, mainVars
<1>2. CASE MainSide
  BY <1>2, TickAssumption
     DEF MainSide, Main, StartTick, PublishRun, HandleRunnerConnected, HandleTickFinished,
         BegetRoomProcessQueue, AdvanceTime, EndTick, AbandonIntents, PublishAbandoned, mainVars,
         MainStages, TypeOK, TypeMain, Clocks, MainClock, QueueTime
<1> QED BY <1>1, <1>2, Sides, ProcessorFrame, RunnerFrame
-----------------------------------------------------------------------------
(***************************************************************************)
(* Nobody is ahead of main.                                                *)
(***************************************************************************)
(* main moves forward, and what it publishes is of its own tick *)
LEMMA NobodyAheadOfMain ==
  ASSUME TypeOK, Clocks, MainStages, NobodyAhead, MainSide
  PROVE  NobodyAhead'
<1> DEFINE q == processorChannel
<1>1. /\ tickTime \in Int /\ tickTime' \in Int /\ tickTime <= tickTime'
      /\ shardTime \in Times /\ (mainPc = "start" => tickTime' \in {tickTime, shardTime})
  BY TickAssumption
     DEF MainSide, Main, StartTick, PublishRun, HandleRunnerConnected, HandleTickFinished, BegetRoomProcessQueue,
         AdvanceTime, EndTick, AbandonIntents, PublishAbandoned, mainVars, TypeOK, TypeMain, MainStages, Times
<1>2. /\ runTime \in Int /\ finalizingTime \in Int /\ finalizedTime \in Int
      /\ runnerChannel \in Seq(Times) /\ processorChannel \in Seq(ProcessorMessages) /\ abandonNotices \subseteq Times
      /\ Times \subseteq Int
      /\ currentTime \in [Workers -> Int] /\ pendingTime \in [Workers -> Times \cup {Null}]
  BY DEF TypeOK, TypeRunner, TypeFinalize, TypeChannels, TypeWorkers, Times
<1>3. /\ runTime' <= tickTime' /\ finalizingTime' <= tickTime' /\ finalizedTime' <= tickTime'
      /\ \A w \in Workers : currentTime'[w] <= tickTime' /\ (pendingTime'[w] # Null => pendingTime'[w] <= tickTime')
  <2>1. UNCHANGED <<runTime, finalizingTime, finalizedTime, currentTime, pendingTime>>
    BY MainFrame DEF runnerVars, finalizeVars, loopVars
  <2>2. \A x \in Int : x <= tickTime => x <= tickTime'
    BY <1>1
  <2>3. \A w \in Workers : currentTime[w] \in Int /\ (pendingTime[w] # Null => pendingTime[w] \in Int)
    BY <1>2
  <2> QED BY <1>2, <2>1, <2>2, <2>3 DEF NobodyAhead
<1>4. \A t \in abandonNotices' : t <= tickTime'
  <2>1. abandonNotices' \subseteq abandonNotices \cup {tickTime'}
    BY DEF MainSide, Main, StartTick, PublishRun, HandleRunnerConnected, HandleTickFinished,
           BegetRoomProcessQueue, AdvanceTime, EndTick, AbandonIntents, PublishAbandoned, channels
  <2> QED BY <1>1, <1>2, <2>1 DEF NobodyAhead
<1>5. \A i \in DOMAIN runnerChannel' : runnerChannel'[i] <= tickTime'
  <2>1. CASE UNCHANGED runnerChannel
    BY <1>1, <1>2, <2>1 DEF NobodyAhead
  <2>2. CASE tickTime' = tickTime /\ tickTime \in Times /\ runnerChannel' = Append(runnerChannel, tickTime)
    BY <1>1, <1>2, <2>2, AppendMessages DEF NobodyAhead
  <2>3. PublishRun \/ HandleRunnerConnected => tickTime \in Times
    BY TickTimeIsATick DEF PublishRun, HandleRunnerConnected, TypeOK, Clocks
  <2> QED
    BY <2>1, <2>2, <2>3
       DEF MainSide, Main, StartTick, PublishRun, HandleRunnerConnected, HandleTickFinished,
           BegetRoomProcessQueue, AdvanceTime, EndTick, AbandonIntents, PublishAbandoned, channels, mainVars
<1>6. \A i \in DOMAIN processorChannel' : processorChannel'[i].time <= tickTime'
  <2>1. \A i \in DOMAIN q : q[i].time \in Int
    BY ChannelTypes
  <2>2. CASE UNCHANGED processorChannel
    BY <1>1, <2>1, <2>2 DEF NobodyAhead
  <2>3. ASSUME NEW t \in Times, t <= tickTime', processorChannel' = Append(processorChannel, ProcessMessage(t, Everyone))
        PROVE  \A i \in DOMAIN processorChannel' : processorChannel'[i].time <= tickTime'
    <3>1. ProcessMessage(t, Everyone) \in ProcessorMessages /\ ProcessMessage(t, Everyone).time = t
      BY MessageTypes, EveryoneType DEF ProcessMessage
    <3> QED BY <1>1, <1>2, <2>1, <2>3, <3>1, AppendMessages DEF NobodyAhead
  <2>4. \/ UNCHANGED processorChannel
        \/ \E t \in Times : t <= tickTime' /\ processorChannel' = Append(processorChannel, ProcessMessage(t, Everyone))
    <3>1. CASE StartTick
      BY <1>1, <1>2, <3>1 DEF StartTick
    <3>2. ASSUME NEW t \in Times, PublishAbandoned(t)
          PROVE  t <= tickTime' /\ processorChannel' = Append(processorChannel, ProcessMessage(t, Everyone))
      BY <3>2 DEF PublishAbandoned, mainVars, NobodyAhead
    <3> QED BY <3>1, <3>2 DEF MainSide, Main, PublishRun, HandleRunnerConnected, HandleTickFinished,
             BegetRoomProcessQueue, AdvanceTime, EndTick, AbandonIntents, channels
  <2> QED BY <2>2, <2>3, <2>4
<1> QED BY <1>3, <1>4, <1>5, <1>6 DEF NobodyAhead

(* a processor takes its times from messages and passes on its own *)
LEMMA NobodyAheadOfMessages ==
  ASSUME TypeOK, Clocks, NobodyAhead, ProcessorSide
  PROVE  NobodyAhead'
<1> DEFINE q == processorChannel
<1> DEFINE Late(c, p) == \A w \in Workers : c[w] <= tickTime /\ (p[w] # Null => p[w] <= tickTime)
<1> DEFINE Read(s) == \A i \in DOMAIN s : s[i].time <= tickTime
<1>1. UNCHANGED <<tickTime, runTime, runnerChannel, abandonNotices>>
  BY ProcessorFrame DEF mainVars, runnerVars
<1>2. q \in Seq(ProcessorMessages) /\ Read(q) /\ Late(currentTime, pendingTime)
  BY DEF TypeOK, TypeChannels, NobodyAhead
<1>3. q # <<>> => Read(Tail(q)) /\ Head(q).time <= tickTime
  BY <1>2, TailMessages
<1>4. finalizingTime <= tickTime /\ finalizedTime <= tickTime
  BY DEF NobodyAhead
<1> SUFFICES /\ Read(q') /\ Late(currentTime', pendingTime')
             /\ finalizingTime' <= tickTime /\ finalizedTime' <= tickTime
  BY <1>1 DEF NobodyAhead
<1>5. CASE HandleProcess
  <2>1. Read(q') /\ UNCHANGED finalizeVars
    BY <1>3, <1>5 DEF HandleProcess
  <2>2. \A w \in Workers : currentTime'[w] \in {currentTime[w], Head(q).time}
    BY <1>5 DEF HandleProcess
  <2>3. \A w \in Workers : pendingTime'[w] \in {pendingTime[w], Head(q).time, Null}
    BY <1>5 DEF HandleProcess, Latch
  <2>4. Late(currentTime', pendingTime')
    BY <1>2, <1>3, <1>5, <2>2, <2>3 DEF HandleProcess
  <2> QED BY <1>4, <2>1, <2>4 DEF finalizeVars
<1>6. CASE HandleFinalize
  BY <1>2, <1>3, <1>4, <1>6 DEF HandleFinalize, loopVars
<1>7. CASE FinishFinalize
  BY <1>2, <1>4, <1>7 DEF FinishFinalize, loopVars, channels
<1>8. ASSUME NEW w \in Workers, Worker(w)
      PROVE  Read(q') /\ Late(currentTime', pendingTime') /\ UNCHANGED <<finalizingTime, finalizedTime>>
  <2>1. CASE AnnounceFinalize(w)
    <3>1. currentTime[w] \in Times /\ currentTime[w] <= tickTime
      BY <2>1 DEF AnnounceFinalize, Clocks, WorkerClock, NobodyAhead
    <3>2. FinalizeMessage(currentTime[w]) \in ProcessorMessages /\ FinalizeMessage(currentTime[w]).time <= tickTime
      BY <3>1, MessageTypes DEF FinalizeMessage
    <3>3. Read(Append(q, FinalizeMessage(currentTime[w])))
      <4> HIDE DEF q
      <4> QED BY <1>2, <3>2, AppendMessages
    <3> QED BY <1>2, <2>1, <3>3 DEF AnnounceFinalize, finalizeVars
  <2>2. CASE WorkerSleeps(w)
    <3>1. \A v \in Workers :
            /\ currentTime'[v] # currentTime[v] => pendingTime[v] # Null /\ currentTime'[v] = pendingTime[v]
            /\ pendingTime'[v] # pendingTime[v] => pendingTime'[v] = Null
      BY <2>2 DEF WorkerSleeps, TypeOK, TypeWorkers
    <3> QED BY <1>2, <2>2, <3>1 DEF WorkerSleeps, finalizeVars, channels
  <2>3. CASE UNCHANGED <<processorChannel, currentTime, pendingTime, finalizingTime, finalizedTime>>
    BY <1>2, <2>3
  <2> QED BY <1>8, <2>1, <2>2, <2>3
             DEF Worker, PopRoom, StartRoom, SendIntents, MarkExtraRooms, RoomDidProcess, DrainEnds,
                 channels, finalizeVars
<1>9. ASSUME NEW w \in Workers, Finalize(w)
      PROVE  UNCHANGED <<processorChannel, currentTime, pendingTime, finalizingTime, finalizedTime>>
  BY <1>9 DEF Finalize, FinalizeRoom, FinalizeExtraRoom, RoomsDidFinalize, channels, loopVars
<1> QED BY <1>2, <1>4, <1>5, <1>6, <1>7, <1>8, <1>9 DEF ProcessorSide, Service

(* a run's time is a message's too, and what the runner publishes is of its run *)
LEMMA NobodyAheadOfRuns ==
  ASSUME TypeOK, Clocks, NobodyAhead, RunnerSide
  PROVE  NobodyAhead'
<1> DEFINE q == processorChannel
<1> DEFINE Read(s) == \A i \in DOMAIN s : s[i].time <= tickTime
<1> DEFINE Asked(s) == \A i \in DOMAIN s : s[i] <= tickTime
<1>1. UNCHANGED <<tickTime, currentTime, pendingTime, finalizingTime, finalizedTime, abandonNotices>>
  BY RunnerFrame DEF mainVars, loopVars, finalizeVars
<1>2. /\ runnerChannel \in Seq(Times) /\ Asked(runnerChannel)
      /\ q \in Seq(ProcessorMessages) /\ Read(q)
  BY DEF TypeOK, TypeChannels, NobodyAhead
<1>3. 0 <= tickTime
  BY DEF TypeOK, TypeMain
<1> SUFFICES Read(q') /\ Asked(runnerChannel') /\ runTime' <= tickTime
  BY <1>1 DEF NobodyAhead
<1>4. CASE UNCHANGED <<processorChannel, runnerChannel, runTime>>
  BY <1>2, <1>4 DEF NobodyAhead
<1>5. CASE TakeRun
  <2>1. Head(runnerChannel) <= tickTime /\ Asked(Tail(runnerChannel))
    BY <1>2, <1>5, TailMessages DEF TakeRun
  <2> QED BY <1>2, <1>5, <2>1 DEF TakeRun
<1>6. CASE RunEnds \/ RunnerCrashes
  BY <1>2, <1>3, <1>6 DEF RunEnds, RunnerCrashes, channels
<1>7. ASSUME NEW u \in Users, NotifyProcessors(u)
      PROVE  Read(q') /\ Asked(runnerChannel') /\ runTime' <= tickTime
  <2> DEFINE m == ProcessMessage(runTime, Smaller(Cardinality(zeroed[u]), Everyone))
  <2>1. runTime \in Times /\ runTime <= tickTime
    BY <1>7 DEF NotifyProcessors, Clocks, RunClock, NobodyAhead
  <2>2. Smaller(Cardinality(zeroed[u]), Everyone) \in 0 .. Everyone
    BY RoomsCardType, EveryoneType DEF Smaller, TypeOK, TypeRunner
  <2>3. m \in ProcessorMessages /\ m.time <= tickTime
    BY <2>1, <2>2, MessageTypes DEF ProcessMessage
  <2>4. q' = Append(q, m) /\ UNCHANGED <<runnerChannel, runTime>>
    BY <1>7 DEF NotifyProcessors
  <2> HIDE DEF m, q
  <2>5. Read(Append(q, m))
    BY <1>2, <2>3, AppendMessages
  <2> QED BY <1>2, <2>1, <2>4, <2>5
<1> QED
  BY <1>4, <1>5, <1>6, <1>7
     DEF RunnerSide, Run, RunCloses, RunnerConnects, RunUser, TakeUser, ReadIntentRooms, Deactivate,
         PublishIntents, ResetCounts, PushIntentsForRoom, Terminated, vars, channels, runnerVars

(* no step puts anybody ahead of main *)
LEMMA NobodyAheadStep ==
  ASSUME TypeOK, Clocks, MainStages, NobodyAhead, [Next]_vars
  PROVE  NobodyAhead'
BY Sides, NobodyAheadOfMain, NobodyAheadOfMessages, NobodyAheadOfRuns
-----------------------------------------------------------------------------
(***************************************************************************)
(* What the steps do to the keys of the queued tick, and that they leave   *)
(* those of the other ticks empty.                                         *)
(***************************************************************************)
keyView == <<QueueTime, Queue, Pending, Remaining, TickRooms, Extra>>

(* the keys of one tick are what a step leaves when it touches no tick's keys *)
LEMMA SameKeys ==
  ASSUME OthersQuiet, QueueTime \in Times, QueueTime' = QueueTime,
         \A t \in Times : ZMembers(processRooms'[t]) = ZMembers(processRooms[t]),
         UNCHANGED <<processedRooms, roomsPending, finalizePending, finalizeExtraRooms>>
  PROVE  UNCHANGED keyView /\ OthersQuiet'
BY DEF OthersQuiet, keyView, Queue, Pending, Remaining, TickRooms, Extra

(* publishing intents and resetting counts change scores only *)
LEMMA RunnerKeys ==
  ASSUME TypeOK, Clocks, MainStages, OthersQuiet, RunnerSide
  PROVE  UNCHANGED keyView /\ OthersQuiet'
<1>1. UNCHANGED <<processedRooms, roomsPending, finalizePending, finalizeExtraRooms>>
  BY RunnerFrame
<1>2. QueueTime \in Times /\ QueueTime' = QueueTime
  BY QueueTimeType, RunnerFrame DEF mainVars, QueueTime
<1>3. \A t \in Times : processRooms[t] \in SortedSet
  BY DEF TypeOK, TypeStore, SortedSet
<1>4. \A t \in Times : ZMembers(processRooms'[t]) = ZMembers(processRooms[t])
  <2>1. CASE UNCHANGED processRooms
    BY <2>1
  <2>2. ASSUME NEW u \in Users, NEW success \in BOOLEAN, PublishIntents(u, success)
        PROVE  \A t \in Times : ZMembers(processRooms'[t]) = ZMembers(processRooms[t])
    <3>1. processRooms' = [processRooms EXCEPT ![runTime] = ZIncrXX(processRooms[runTime], userRooms[u], -1)]
      BY <2>2 DEF PublishIntents
    <3>2. runTime \in Times
      BY <2>2 DEF PublishIntents, Clocks, RunClock
    <3>3. ZMembers(ZIncrXX(processRooms[runTime], userRooms[u], -1)) = ZMembers(processRooms[runTime])
      BY <1>3, <3>2, ConditionalMembers
    <3> QED BY <3>1, <3>2, <3>3 DEF TypeOK, TypeStore
  <2>3. ASSUME NEW u \in Users, ResetCounts(u)
        PROVE  \A t \in Times : ZMembers(processRooms'[t]) = ZMembers(processRooms[t])
    <3>1. processRooms' = [processRooms EXCEPT ![runTime] = ZAddXX(processRooms[runTime], negative[u], 0)]
      BY <2>3 DEF ResetCounts
    <3>2. runTime \in Times
      BY <2>3 DEF ResetCounts, Clocks, RunClock
    <3>3. ZMembers(ZAddXX(processRooms[runTime], negative[u], 0)) = ZMembers(processRooms[runTime])
      BY <1>3, <3>2, ConditionalMembers
    <3> QED BY <3>1, <3>2, <3>3 DEF TypeOK, TypeStore
  <2> QED
    BY <2>1, <2>2, <2>3
       DEF RunnerSide, Run, TakeRun, RunCloses, RunEnds, RunnerCrashes, RunnerConnects, RunUser, TakeUser,
           ReadIntentRooms, Deactivate, NotifyProcessors, PushIntentsForRoom, Terminated, vars, tickKeys
<1> QED BY <1>1, <1>2, <1>4, SameKeys

(* abandoning a tick changes scores only, and main makes no other change before the next queue *)
LEMMA MainKeys ==
  ASSUME TypeOK, Clocks, MainStages, OthersQuiet, MainSide
  PROVE  BegetRoomProcessQueue \/ (UNCHANGED keyView /\ OthersQuiet')
<1> SUFFICES ASSUME ~BegetRoomProcessQueue PROVE UNCHANGED keyView /\ OthersQuiet'
  OBVIOUS
<1>1. UNCHANGED <<processedRooms, roomsPending, finalizePending, finalizeExtraRooms>>
  BY DEF MainSide, Main, StartTick, PublishRun, HandleRunnerConnected, HandleTickFinished,
         AdvanceTime, EndTick, AbandonIntents, PublishAbandoned, tickKeys
<1>2. QueueTime \in Times /\ QueueTime' = QueueTime
  <2>1. [Next]_vars
    BY DEF Next, MainSide
  <2> QED BY <2>1, QueueTimeType, QueueTimeStep
<1>3. \A t \in Times : ZMembers(processRooms'[t]) = ZMembers(processRooms[t])
  <2>1. CASE UNCHANGED processRooms
    BY <2>1
  <2>2. CASE AbandonIntents
    <3>1. processRooms' = [processRooms EXCEPT ![tickTime] = ZInterStore(processRooms[tickTime], 0)]
      BY <2>2 DEF AbandonIntents
    <3>2. tickTime \in Times
      BY <2>2, TickTimeIsATick DEF AbandonIntents, TypeOK, Clocks
    <3>3. processRooms[tickTime] \in SortedSet
      BY <3>2 DEF TypeOK, TypeStore, SortedSet
    <3>4. ZMembers(ZInterStore(processRooms[tickTime], 0)) = ZMembers(processRooms[tickTime])
      BY <3>3, ConditionalMembers
    <3> QED BY <3>1, <3>2, <3>4 DEF TypeOK, TypeStore
  <2> QED
    BY <2>1, <2>2 DEF MainSide, Main, StartTick, PublishRun, HandleRunnerConnected, HandleTickFinished,
         AdvanceTime, EndTick, PublishAbandoned, tickKeys
<1> QED BY <1>1, <1>2, <1>3, SameKeys

(* a worker's steps on the keys of its tick, by the keys they touch *)
LEMMA ProcessorKeys ==
  ASSUME TypeOK, Clocks, MainStages, OthersQuiet, ProcessorSide
  PROVE  \/ UNCHANGED keyView /\ OthersQuiet'
         \/ \E w \in Workers :
              \/ \E r \in Rooms : PopRoom(w, r) \/ FinalizeExtraRoom(w, r)
              \/ \E targets \in SUBSET Rooms : SendIntents(w, targets)
              \/ MarkExtraRooms(w) \/ RoomDidProcess(w) \/ AnnounceFinalize(w) \/ RoomsDidFinalize(w)
<1>1. QueueTime \in Times /\ QueueTime' = QueueTime
  BY QueueTimeType, ProcessorFrame DEF mainVars, QueueTime
<1>2. UNCHANGED tickKeys => UNCHANGED keyView /\ OthersQuiet'
  BY <1>1, SameKeys DEF tickKeys
<1>3. Service => UNCHANGED tickKeys
  BY DEF Service, HandleProcess, HandleFinalize, FinishFinalize
<1>4. ASSUME NEW w \in Workers
      PROVE  /\ DrainEnds(w) \/ WorkerSleeps(w) => UNCHANGED tickKeys
             /\ \A r \in Rooms : StartRoom(w, r) \/ FinalizeRoom(w, r) => UNCHANGED tickKeys
  BY DEF DrainEnds, WorkerSleeps, StartRoom, FinalizeRoom
<1> QED BY <1>2, <1>3, <1>4 DEF ProcessorSide, Worker, Finalize

(* a room is popped from the queued tick *)
LEMMA PopRoomKeys ==
  ASSUME TypeOK, Clocks, MainStages, OthersQuiet, NEW w \in Workers, NEW r \in Rooms, PopRoom(w, r)
  PROVE  /\ currentTime[w] = QueueTime /\ r \in Queue /\ Queue' = Queue \ {r}
         /\ processRooms' = [processRooms EXCEPT ![QueueTime] = ZRem(processRooms[QueueTime], {r})]
         /\ UNCHANGED <<QueueTime, Pending, Remaining, TickRooms, Extra>> /\ OthersQuiet'
<1>1. QueueTime \in Times /\ QueueTime' = QueueTime
  BY QueueTimeType DEF PopRoom, mainVars, QueueTime
<1>2. currentTime[w] \in Times /\ r \in ZMembers(processRooms[currentTime[w]])
  BY DEF PopRoom, Clocks, WorkerClock, Available, ZByScore
<1>3. currentTime[w] = QueueTime
  BY <1>2 DEF OthersQuiet
<1>4. processRooms' = [processRooms EXCEPT ![QueueTime] = ZRem(processRooms[QueueTime], {r})]
  BY <1>3 DEF PopRoom
<1>5. processRooms[QueueTime] \in SortedSet /\ DOMAIN processRooms = Times
  BY <1>1 DEF TypeOK, TypeStore, SortedSet
<1>6. UNCHANGED <<processedRooms, roomsPending, finalizePending, finalizeExtraRooms>>
  BY DEF PopRoom
<1> QED
  BY <1>1, <1>2, <1>3, <1>4, <1>5, <1>6, RemMembers
     DEF OthersQuiet, Queue, Pending, Remaining, TickRooms, Extra

(* intents are sent for the queued tick *)
LEMMA SendIntentsKeys ==
  ASSUME TypeOK, Clocks, MainStages, OthersQuiet, WorkerShape,
         NEW w \in Workers, NEW targets \in SUBSET Rooms, SendIntents(w, targets)
  PROVE  /\ TickRooms' = TickRooms \cup targets
         /\ unmarked' = [unmarked EXCEPT ![w] = targets \ TickRooms]
         /\ workerPc' = [workerPc EXCEPT ![w] = IF targets \ TickRooms = {} THEN "decr" ELSE "mark"]
         /\ UNCHANGED <<QueueTime, Queue, Pending, Remaining, Extra>> /\ OthersQuiet'
<1>1. QueueTime \in Times /\ QueueTime' = QueueTime
  BY QueueTimeType DEF SendIntents, mainVars, QueueTime
<1>2. currentTime[w] = QueueTime /\ DOMAIN processedRooms = Times
  BY DEF SendIntents, WorkerShape, TypeOK, TypeStore
<1> QED
  BY <1>1, <1>2 DEF SendIntents, FreshTargets, OthersQuiet, Queue, Pending, Remaining, TickRooms, Extra

(* rooms outside the tick that were sent intents become its extra rooms *)
LEMMA MarkExtraRoomsKeys ==
  ASSUME TypeOK, Clocks, MainStages, OthersQuiet, WorkerShape, NEW w \in Workers, MarkExtraRooms(w)
  PROVE  /\ Extra' = Extra \cup unmarked[w]
         /\ UNCHANGED <<QueueTime, Queue, Pending, Remaining, TickRooms>> /\ OthersQuiet'
<1>1. QueueTime \in Times /\ QueueTime' = QueueTime
  BY QueueTimeType DEF MarkExtraRooms, mainVars, QueueTime
<1>2. currentTime[w] = QueueTime /\ DOMAIN finalizeExtraRooms = Times
  BY DEF MarkExtraRooms, WorkerShape, TypeOK, TypeStore
<1> QED
  BY <1>1, <1>2 DEF MarkExtraRooms, OthersQuiet, Queue, Pending, Remaining, TickRooms, Extra

(* a room that was processed is counted for the queued tick *)
LEMMA RoomDidProcessKeys ==
  ASSUME TypeOK, Clocks, MainStages, OthersQuiet, WorkerShape, NEW w \in Workers, RoomDidProcess(w)
  PROVE  /\ Pending' = DecrBy(Pending, 1)
         /\ workerPc' = [workerPc EXCEPT ![w] = IF Pending' = 0 THEN "announce" ELSE "drain"]
         /\ UNCHANGED <<QueueTime, Queue, Remaining, TickRooms, Extra>> /\ OthersQuiet'
<1>1. QueueTime \in Times /\ QueueTime' = QueueTime
  BY QueueTimeType DEF RoomDidProcess, mainVars, QueueTime
<1>2. currentTime[w] = QueueTime /\ DOMAIN roomsPending = Times
  BY DEF RoomDidProcess, WorkerShape, TypeOK, TypeStore
<1> QED
  BY <1>1, <1>2 DEF RoomDidProcess, LastRoom, OthersQuiet, Queue, Pending, Remaining, TickRooms, Extra

(* the finalization that is announced is that of the queued tick *)
LEMMA AnnounceFinalizeKeys ==
  ASSUME TypeOK, Clocks, MainStages, OthersQuiet, WorkerShape, NEW w \in Workers, AnnounceFinalize(w)
  PROVE  /\ Remaining' = Cardinality(TickRooms) /\ TickRooms' = {} /\ Pending' = Null
         /\ processorChannel' = Append(processorChannel, FinalizeMessage(QueueTime))
         /\ UNCHANGED <<QueueTime, Queue, Extra>> /\ OthersQuiet'
<1>1. QueueTime \in Times /\ QueueTime' = QueueTime
  BY QueueTimeType DEF AnnounceFinalize, mainVars, QueueTime
<1>2. /\ currentTime[w] = QueueTime
      /\ DOMAIN roomsPending = Times /\ DOMAIN finalizePending = Times /\ DOMAIN processedRooms = Times
  BY DEF AnnounceFinalize, WorkerShape, TypeOK, TypeStore
<1> QED
  BY <1>1, <1>2 DEF AnnounceFinalize, OthersQuiet, Queue, Pending, Remaining, TickRooms, Extra

(* an extra room is finalized in the queued tick *)
LEMMA FinalizeExtraRoomKeys ==
  ASSUME TypeOK, Clocks, MainStages, OthersQuiet, NEW w \in Workers, NEW r \in Rooms, FinalizeExtraRoom(w, r)
  PROVE  /\ r \in Extra /\ Extra' = Extra \ {r}
         /\ UNCHANGED <<QueueTime, Queue, Pending, Remaining, TickRooms>> /\ OthersQuiet'
<1>1. QueueTime \in Times /\ QueueTime' = QueueTime
  BY QueueTimeType DEF FinalizeExtraRoom, mainVars, QueueTime
<1>2. finalizingTime \in Times /\ DOMAIN finalizeExtraRooms = Times
  BY DEF FinalizeExtraRoom, Clocks, FinalizeClock, TypeOK, TypeStore
<1>3. finalizingTime = QueueTime
  BY <1>2 DEF FinalizeExtraRoom, OthersQuiet
<1> QED
  BY <1>1, <1>2, <1>3 DEF FinalizeExtraRoom, OthersQuiet, Queue, Pending, Remaining, TickRooms, Extra

(* a worker reports to the queued tick what it has finalized *)
LEMMA RoomsDidFinalizeKeys ==
  ASSUME TypeOK, Clocks, MainStages, OthersQuiet, Phases, NEW w \in Workers, RoomsDidFinalize(w)
  PROVE  LET left == DecrBy(Remaining, finalizeCount[w])
         IN /\ Extra = {} /\ Remaining' = IF left = 0 THEN Null ELSE left
            /\ serviceChannel' = IF left = 0 THEN Append(serviceChannel, TickFinished(QueueTime)) ELSE serviceChannel
            /\ UNCHANGED <<QueueTime, Queue, Pending, TickRooms, Extra>> /\ OthersQuiet'
<1>1. QueueTime \in Times /\ QueueTime' = QueueTime
  BY QueueTimeType DEF RoomsDidFinalize, mainVars, QueueTime
<1>2. finalizingTime = QueueTime /\ DOMAIN finalizePending = Times
  BY DEF RoomsDidFinalize, Phases, FinalizeLoop, TypeOK, TypeStore
<1> QED
  BY <1>1, <1>2 DEF RoomsDidFinalize, LastFinalized, OthersQuiet, Queue, Pending, Remaining, TickRooms, Extra

(* when the next queue is begotten the tick that is queued has nothing left *)
LEMMA BegetAfterTick ==
  ASSUME TypeOK, Clocks, Barriers, BegetRoomProcessQueue
  PROVE  /\ QueueTime = tickTime /\ QueueTime' = tickTime + 1 /\ tickTime + 1 \in Times /\ tickTime \in Int
         /\ Pending = Null /\ Remaining = Null /\ Queue = {} /\ TickRooms = {} /\ Extra = {}
         /\ Unfinalized = {} /\ finalIntents = {} /\ Finished = {}
         /\ \A w \in Workers : held[w] = {} /\ room[w] = Null /\ unmarked[w] = {} /\ Kept(w) = {}
<1>1. QueueTime = tickTime /\ QueueTime' = tickTime + 1 /\ tickTime + 1 \in Times /\ tickTime \in Int
  <2>1. tickTime \in Times /\ tickTime + 1 \in Times
    BY TickTimeIsATick DEF BegetRoomProcessQueue, TypeOK, Clocks
  <2>2. tickTime # tickTime + 1
    BY <2>1 DEF Times
  <2> QED BY <2>1, <2>2 DEF BegetRoomProcessQueue, QueueTime, Barriers, MainStages, Times
<1>2. Pending = Null /\ Remaining = Null /\ Finished = {}
  BY DEF BegetRoomProcessQueue, Barriers, Phases, OnePhase
<1>3. TickRooms = {} /\ Unfinalized = {} /\ finalIntents = {} /\ Undone = {}
  BY <1>2 DEF Barriers, Accounted, Countdown
<1>4. Extra = {} /\ \A w \in Workers : Kept(w) = {}
  BY <1>3 DEF Unfinalized, Extra, Kept
<1>5. Queue = {}
  <2>1. processRooms[QueueTime] \in SortedSet
    BY QueueTimeType DEF TypeOK, TypeStore, SortedSet, Barriers
  <2>2. Queue \subseteq Rooms
    BY <2>1 DEF Queue, ZMembers, SortedSet
  <2> QED BY <1>3, <2>2 DEF Undone
<1>6. ASSUME NEW w \in Workers PROVE held[w] = {} /\ room[w] = Null /\ unmarked[w] = {}
  <2>1. held[w] \subseteq Rooms /\ room[w] \in Rooms \cup {Null}
    BY DEF TypeOK, TypeWorkers
  <2>2. held[w] = {} /\ room[w] = Null
    BY <1>3, <2>1 DEF Undone, InHand
  <2> QED BY <2>2 DEF Barriers, WorkerShape
<1> QED BY <1>1, <1>2, <1>3, <1>4, <1>5, <1>6

(* ... and the tick that becomes the queued one has the rooms of its queue and nothing else *)
LEMMA BegetKeys ==
  ASSUME TypeOK, Clocks, Barriers, BegetRoomProcessQueue
  PROVE  /\ processRooms'[QueueTime'] = activeRooms' /\ Queue' = ZMembers(activeRooms')
         /\ TickRooms' = Queue' /\ Extra' = {} /\ Remaining' = Null
         /\ Pending' = IF Queue' = {} THEN Null ELSE Cardinality(Queue')
         /\ serviceChannel' = IF Queue' = {} THEN Append(serviceChannel, TickFinished(QueueTime')) ELSE serviceChannel
         /\ Queue' \subseteq Rooms /\ OthersQuiet'
<1> DEFINE time == tickTime + 1
<1> DEFINE members == ZMembers(activeRooms')
<1>1. /\ QueueTime = tickTime /\ QueueTime' = time /\ time \in Times /\ time # tickTime
      /\ Pending = Null /\ Remaining = Null /\ Queue = {} /\ TickRooms = {} /\ Extra = {}
  BY BegetAfterTick
<1>2. OthersQuiet
  BY DEF Barriers
<1>3. members \subseteq Rooms /\ Cardinality(members) \in Nat
      /\ (Cardinality(members) = 0 <=> members = {})
  <2>1. activeRooms' \in SortedSet
    BY BegetStore DEF TypeStore, SortedSet, Clocks
  <2>2. members \subseteq Rooms
    BY <2>1 DEF ZMembers, SortedSet
  <2> QED BY <2>2, FS_Subset, FS_CardinalityType, FS_EmptySet, TickAssumption
<1>4. /\ DOMAIN processRooms = Times /\ DOMAIN processedRooms = Times /\ DOMAIN roomsPending = Times
  BY DEF TypeOK, TypeStore
<1>5. /\ processRooms' = [processRooms EXCEPT ![time] = activeRooms']
      /\ processedRooms' = [processedRooms EXCEPT ![time] = processedRooms[time] \cup members]
      /\ roomsPending' = [roomsPending EXCEPT ![time] = IF Cardinality(members) = 0 THEN Null ELSE Cardinality(members)]
      /\ serviceChannel' = IF Cardinality(members) = 0
                           THEN Append(serviceChannel, TickFinished(time)) ELSE serviceChannel
      /\ UNCHANGED <<finalizePending, finalizeExtraRooms>>
  BY DEF BegetRoomProcessQueue, NothingToProcess, ZCard
<1> HIDE DEF members, time
<1>6. /\ processedRooms[time] = {} /\ finalizeExtraRooms[time] = {} /\ finalizePending[time] = Null
  BY <1>1, <1>2 DEF OthersQuiet
<1>7. processRooms'[QueueTime'] = activeRooms' /\ Queue' = members
  BY <1>1, <1>4, <1>5 DEF Queue, members
<1>8. /\ TickRooms' = members /\ Extra' = {} /\ Remaining' = Null
      /\ Pending' = IF members = {} THEN Null ELSE Cardinality(members)
  BY <1>1, <1>3, <1>4, <1>5, <1>6 DEF TickRooms, Extra, Remaining, Pending
<1>9. OthersQuiet'
  <2> SUFFICES ASSUME NEW t \in Times, t # time
               PROVE  /\ ZMembers(processRooms'[t]) = {} /\ processedRooms'[t] = {} /\ finalizeExtraRooms'[t] = {}
                      /\ roomsPending'[t] = Null /\ finalizePending'[t] = Null
    BY <1>1 DEF OthersQuiet
  <2>1. CASE t = tickTime
    BY <1>1, <1>4, <1>5, <2>1 DEF Queue, TickRooms, Extra, Pending, Remaining
  <2>2. CASE t # tickTime
    BY <1>1, <1>2, <1>4, <1>5, <2>2 DEF OthersQuiet
  <2> QED BY <2>1, <2>2
<1> QED BY <1>1, <1>3, <1>5, <1>7, <1>8, <1>9 DEF members

(* no step leaves keys behind in a tick that is not queued *)
LEMMA OthersQuietStep ==
  ASSUME TypeOK, Clocks, Barriers, [Next]_vars
  PROVE  OthersQuiet'
<1> USE DEF Barriers
<1>1. CASE MainSide
  BY <1>1, MainKeys, BegetKeys
<1>2. CASE ProcessorSide
  BY <1>2, ProcessorKeys, PopRoomKeys, SendIntentsKeys, MarkExtraRoomsKeys, RoomDidProcessKeys,
     AnnounceFinalizeKeys, FinalizeExtraRoomKeys, RoomsDidFinalizeKeys
<1>3. CASE RunnerSide
  BY <1>3, RunnerKeys
<1> QED BY <1>1, <1>2, <1>3, Sides
-----------------------------------------------------------------------------
(***************************************************************************)
(* What a worker holds, and the countdown.                                 *)
(***************************************************************************)
(* what one worker holds *)
Shape(w) ==
  /\ room[w] # Null <=> workerPc[w] \in {"send", "mark", "decr"}
  /\ unmarked[w] # {} => workerPc[w] = "mark"
  /\ held[w] # {} => workerPc[w] \notin {"idle", "unwind"}
  /\ held[w] # {} \/ workerPc[w] \in {"send", "mark", "decr", "announce"} => currentTime[w] = QueueTime

(* a worker's own steps keep its shape *)
LEMMA WorkerShapeOfWorkers ==
  ASSUME TypeOK, Clocks, Barriers, NEW w \in Workers, Worker(w)
  PROVE  WorkerShape'
<1>1. QueueTime' = QueueTime
  BY ProcessorFrame DEF ProcessorSide, QueueTime, mainVars
<1>2. TypeWorkers /\ \A v \in Workers : Shape(v)
  BY DEF TypeOK, Barriers, WorkerShape, Shape
<1>3. Shape(w)'
  <2>1. ASSUME NEW r \in Rooms, PopRoom(w, r) PROVE Shape(w)'
    BY <1>1, <1>2, <2>1, PopRoomKeys DEF PopRoom, Shape, TypeWorkers, Barriers
  <2>2. ASSUME NEW r \in Rooms, StartRoom(w, r) PROVE Shape(w)'
    BY <1>1, <1>2, <2>2, TickAssumption DEF StartRoom, Shape, TypeWorkers
  <2>3. ASSUME NEW targets \in SUBSET Rooms, SendIntents(w, targets) PROVE Shape(w)'
    BY <1>1, <1>2, <2>3 DEF SendIntents, Shape, TypeWorkers
  <2>4. CASE MarkExtraRooms(w) \/ RoomDidProcess(w)
    BY <1>1, <1>2, <2>4 DEF MarkExtraRooms, RoomDidProcess, Shape, TypeWorkers
  <2>5. CASE AnnounceFinalize(w) \/ DrainEnds(w)
    BY <1>1, <1>2, <2>5 DEF AnnounceFinalize, DrainEnds, Shape, TypeWorkers
  <2>6. CASE WorkerSleeps(w)
    BY <1>1, <1>2, <2>6 DEF WorkerSleeps, Shape, TypeWorkers
  <2> QED BY <2>1, <2>2, <2>3, <2>4, <2>5, <2>6 DEF Worker
<1>4. ASSUME NEW v \in Workers, v # w PROVE Shape(v)'
  <2>1. /\ workerPc'[v] = workerPc[v] /\ currentTime'[v] = currentTime[v] /\ held'[v] = held[v]
        /\ room'[v] = room[v] /\ unmarked'[v] = unmarked[v]
    <3>1. CASE WorkerSleeps(w)
      BY <1>2, <1>4, <3>1 DEF WorkerSleeps, TypeWorkers
    <3>2. CASE DrainEnds(w) \/ AnnounceFinalize(w) \/ RoomDidProcess(w) \/ MarkExtraRooms(w)
      BY <1>2, <1>4, <3>2 DEF DrainEnds, AnnounceFinalize, RoomDidProcess, MarkExtraRooms, TypeWorkers
    <3>3. CASE \E r \in Rooms : PopRoom(w, r) \/ StartRoom(w, r)
      BY <1>2, <1>4, <3>3 DEF PopRoom, StartRoom, TypeWorkers
    <3>4. CASE \E targets \in SUBSET Rooms : SendIntents(w, targets)
      BY <1>2, <1>4, <3>4 DEF SendIntents, TypeWorkers
    <3> QED BY <3>1, <3>2, <3>3, <3>4 DEF Worker
  <2> QED BY <1>1, <1>2, <2>1 DEF Shape
<1> QED BY <1>3, <1>4 DEF WorkerShape, Shape

(* workers keep their shape *)
LEMMA WorkerShapeStep ==
  ASSUME TypeOK, Clocks, Barriers, [Next]_vars
  PROVE  WorkerShape'
<1>1. \A w \in Workers : Shape(w)
  BY DEF Barriers, WorkerShape, Shape
<1>2. CASE UNCHANGED <<loopVars, QueueTime>>
  BY <1>2 DEF Barriers, WorkerShape, loopVars
<1>3. CASE BegetRoomProcessQueue
  <2>1. Pending = Null /\ \A w \in Workers : held[w] = {} /\ room[w] = Null /\ unmarked[w] = {}
    BY <1>3, BegetAfterTick
  <2>2. \A w \in Workers : workerPc[w] \notin {"send", "mark", "decr", "announce"}
    BY <1>1, <2>1, NullAssumption DEF Shape, Barriers, Countdown
  <2> QED BY <1>3, <2>1, <2>2 DEF BegetRoomProcessQueue, WorkerShape, loopVars
<1>4. CASE HandleProcess
  <2>1. QueueTime' = QueueTime
    BY <1>4, ProcessorFrame DEF ProcessorSide, Service, QueueTime, mainVars
  <2>2. \A w \in Workers :
          \/ workerPc'[w] = workerPc[w] /\ currentTime'[w] = currentTime[w]
          \/ workerPc[w] = "idle" /\ workerPc'[w] = "drain"
    BY <1>4 DEF HandleProcess, Idle
  <2> QED BY <1>1, <1>4, <2>1, <2>2 DEF HandleProcess, WorkerShape, Shape
<1>5. CASE \E w \in Workers : Worker(w)
  BY <1>5, WorkerShapeOfWorkers
<1>6. HandleFinalize \/ FinishFinalize \/ (\E w \in Workers : Finalize(w)) => UNCHANGED loopVars
  BY DEF HandleFinalize, FinishFinalize, Finalize, FinalizeRoom, FinalizeExtraRoom, RoomsDidFinalize
<1>7. MainSide \/ RunnerSide => UNCHANGED loopVars
  BY MainFrame, RunnerFrame
<1> QED BY <1>2, <1>3, <1>4, <1>5, <1>6, <1>7, Sides, QueueTimeStep DEF ProcessorSide, Service, Barriers

(* rooms not processed yet are rooms *)
LEMMA UndoneType ==
  ASSUME TypeOK
  PROVE  /\ IsFiniteSet(Undone) /\ Cardinality(Undone) \in Nat
         /\ Cardinality(Undone) = 0 <=> Undone = {}
<1>1. Undone \subseteq Rooms
  BY DEF Undone
<1> QED BY <1>1, FS_Subset, FS_CardinalityType, FS_EmptySet, TickAssumption

(* a worker's own steps keep the countdown exact *)
LEMMA CountdownOfWorkers ==
  ASSUME TypeOK, Clocks, Barriers, NEW w \in Workers, Worker(w)
  PROVE  Countdown'
<1>1. /\ TypeWorkers /\ WorkerShape /\ Countdown /\ Apart
      /\ OthersQuiet /\ MainStages
  BY DEF TypeOK, Barriers
<1>2. ASSUME Undone' = Undone, Pending' = Pending,
             \A v \in Workers : workerPc'[v] = "announce" => workerPc[v] = "announce"
      PROVE  Countdown'
  BY <1>1, <1>2 DEF Countdown
<1>3. ASSUME NEW r \in Rooms, PopRoom(w, r) PROVE Countdown'
  <2>1. r \in Queue /\ Queue' = Queue \ {r} /\ Pending' = Pending
    BY <1>1, <1>3, PopRoomKeys
  <2>2. held' = [held EXCEPT ![w] = held[w] \cup {r}] /\ UNCHANGED <<room, workerPc>>
    BY <1>3 DEF PopRoom
  <2>3. Undone' = Undone
    BY <1>1, <2>1, <2>2 DEF Undone, InHand, TypeWorkers
  <2> QED BY <1>2, <2>1, <2>2, <2>3
<1>4. ASSUME NEW r \in Rooms, StartRoom(w, r) PROVE Countdown'
  <2>1. UNCHANGED <<Queue, Pending>>
    BY <1>4 DEF StartRoom, tickKeys, mainVars, QueueTime, Queue, Pending
  <2>2. /\ r \in held[w] /\ room[w] = Null /\ r # Null
        /\ held' = [held EXCEPT ![w] = held[w] \ {r}] /\ room' = [room EXCEPT ![w] = r]
        /\ workerPc' = [workerPc EXCEPT ![w] = "send"]
    BY <1>1, <1>4, TickAssumption DEF StartRoom, WorkerShape
  <2>3. \A v \in Workers : InHand(v)' = InHand(v)
    BY <1>1, <2>2 DEF InHand, TypeWorkers
  <2>4. Undone' = Undone
    BY <2>1, <2>3 DEF Undone
  <2> QED BY <1>1, <1>2, <2>1, <2>2, <2>4 DEF TypeWorkers
<1>5. ASSUME NEW targets \in SUBSET Rooms, SendIntents(w, targets) PROVE Countdown'
  <2>1. UNCHANGED <<Queue, Pending, held, room>>
    BY <1>1, <1>5, SendIntentsKeys DEF SendIntents
  <2>2. Undone' = Undone
    BY <2>1 DEF Undone, InHand
  <2> QED BY <1>1, <1>2, <1>5, <2>1, <2>2 DEF SendIntents, TypeWorkers
<1>6. CASE MarkExtraRooms(w)
  <2>1. UNCHANGED <<Queue, Pending, held, room>>
    BY <1>1, <1>6, MarkExtraRoomsKeys DEF MarkExtraRooms
  <2>2. Undone' = Undone
    BY <2>1 DEF Undone, InHand
  <2> QED BY <1>1, <1>2, <1>6, <2>1, <2>2 DEF MarkExtraRooms, TypeWorkers
<1>7. CASE RoomDidProcess(w)
  <2> DEFINE r == room[w]
  <2>1. /\ Pending' = DecrBy(Pending, 1) /\ Queue' = Queue /\ held' = held
        /\ room' = [room EXCEPT ![w] = Null]
        /\ workerPc' = [workerPc EXCEPT ![w] = IF Pending' = 0 THEN "announce" ELSE "drain"]
    BY <1>1, <1>7, RoomDidProcessKeys DEF RoomDidProcess
  <2>2. r \in Rooms /\ r # Null /\ r \in Kept(w)
    BY <1>1, <1>7 DEF RoomDidProcess, WorkerShape, Apart, TypeWorkers
  <2>3. r \notin Queue /\ \A v \in Workers : r \notin held[v] /\ (v # w => r # room[v])
    BY <1>1, <2>2 DEF Apart, Mine
  <2>4. r \in Undone
    BY <2>2 DEF Undone, InHand
  <2>5. Undone' = Undone \ {r}
    BY <1>1, <2>1, <2>2, <2>3 DEF Undone, InHand, TypeWorkers
  <2>6. Pending = Cardinality(Undone) /\ Pending # 0
    BY <1>1, <2>4, UndoneType DEF Countdown
  <2>7. Pending' = Cardinality(Undone') /\ Pending' # Null
    <3>1. Cardinality(Undone') = Cardinality(Undone) - 1
      BY <2>4, <2>5, UndoneType, FS_RemoveElement
    <3> QED BY <2>1, <2>6, <3>1, UndoneType, NullAssumption DEF DecrBy
  <2>8. \A v \in Workers : workerPc'[v] = "announce" => v = w /\ Pending' = 0
    BY <1>1, <2>1, <2>6 DEF Countdown, TypeWorkers
  <2> QED BY <2>7, <2>8 DEF Countdown
<1>8. CASE AnnounceFinalize(w)
  <2>1. Pending' = Null /\ Queue' = Queue
    BY <1>1, <1>8, AnnounceFinalizeKeys
  <2>2. Undone = {}
    BY <1>1, <1>8, UndoneType, NullAssumption DEF AnnounceFinalize, Countdown
  <2>3. Undone' = Undone
    BY <1>8, <2>1 DEF AnnounceFinalize, Undone, InHand
  <2>4. \A v \in Workers : workerPc'[v] # "announce"
    BY <1>1, <1>8 DEF AnnounceFinalize, Countdown, TypeWorkers
  <2> QED BY <2>1, <2>2, <2>3, <2>4 DEF Countdown
<1>9. CASE DrainEnds(w) \/ WorkerSleeps(w)
  <2>1. UNCHANGED <<Queue, Pending, held, room>>
    BY <1>9 DEF DrainEnds, WorkerSleeps, tickKeys, mainVars, QueueTime, Queue, Pending
  <2>2. Undone' = Undone
    BY <2>1 DEF Undone, InHand
  <2> QED BY <1>1, <1>2, <1>9, <2>1, <2>2 DEF DrainEnds, WorkerSleeps, TypeWorkers
<1> QED BY <1>3, <1>4, <1>5, <1>6, <1>7, <1>8, <1>9 DEF Worker

(* the countdown stays exact *)
LEMMA CountdownStep ==
  ASSUME TypeOK, Clocks, Barriers, [Next]_vars
  PROVE  Countdown'
<1>1. Countdown /\ OthersQuiet /\ MainStages
  BY DEF Barriers
<1>2. ASSUME UNCHANGED <<keyView, held, room>>,
             \A w \in Workers : workerPc'[w] = "announce" => workerPc[w] = "announce"
      PROVE  Countdown'
  BY <1>1, <1>2 DEF Countdown, Undone, InHand, keyView
<1>3. CASE BegetRoomProcessQueue
  <2>1. /\ Pending' = IF Queue' = {} THEN Null ELSE Cardinality(Queue')
        /\ Queue' \subseteq Rooms
    BY <1>3, BegetKeys
  <2>2. Pending = Null /\ \A w \in Workers : held[w] = {} /\ room[w] = Null
    BY <1>3, BegetAfterTick
  <2>3. UNCHANGED <<held, room, workerPc>>
    BY <1>3 DEF BegetRoomProcessQueue, loopVars
  <2>4. Undone' = Queue'
    BY <2>1, <2>2, <2>3 DEF Undone, InHand
  <2>5. ASSUME NEW w \in Workers PROVE workerPc'[w] # "announce"
    <3>1. workerPc[w] = "announce" => Pending = 0
      BY <1>1 DEF Countdown
    <3> QED BY <2>2, <2>3, <3>1, NullAssumption
  <2>6. Cardinality(Queue') # Null
    BY <2>1, RoomsCardType, NullAssumption
  <2> QED BY <2>1, <2>4, <2>5, <2>6 DEF Countdown
<1>4. CASE MainSide
  BY <1>1, <1>2, <1>3, <1>4, MainKeys, MainFrame DEF loopVars
<1>5. CASE RunnerSide
  BY <1>1, <1>2, <1>5, RunnerKeys, RunnerFrame DEF loopVars
<1>6. CASE \E w \in Workers : Worker(w)
  BY <1>6, CountdownOfWorkers
<1>7. CASE Service
  <2>1. UNCHANGED <<tickKeys, mainVars, held, room>>
    BY <1>7 DEF Service, HandleProcess, HandleFinalize, FinishFinalize, loopVars
  <2>2. UNCHANGED keyView
    BY <2>1 DEF tickKeys, mainVars, keyView, QueueTime, Queue, Pending, Remaining, TickRooms, Extra
  <2>3. \A w \in Workers : workerPc'[w] = "announce" => workerPc[w] = "announce"
    BY <1>7 DEF Service, HandleProcess, HandleFinalize, FinishFinalize, loopVars
  <2> QED BY <1>2, <2>1, <2>2, <2>3
<1>8. ASSUME NEW w \in Workers, Finalize(w) PROVE Countdown'
  <2>1. UNCHANGED <<processRooms, roomsPending, mainVars, loopVars>>
    BY <1>8 DEF Finalize, FinalizeRoom, FinalizeExtraRoom, RoomsDidFinalize, tickKeys
  <2> QED BY <1>1, <2>1 DEF Countdown, Undone, InHand, Queue, Pending, QueueTime, mainVars, loopVars
<1> QED BY <1>4, <1>5, <1>6, <1>7, <1>8, Sides DEF ProcessorSide
-----------------------------------------------------------------------------
(***************************************************************************)
(* A tick is in one phase.                                                 *)
(***************************************************************************)
(* main and the runners ask the processors to look at a queue, and for nothing else *)
LEMMA ProcessorChannelSteps ==
  ASSUME TypeOK, Clocks, MainSide \/ RunnerSide
  PROVE  \/ UNCHANGED processorChannel
         \/ \E m \in ProcessorMessages : m.type = "process" /\ processorChannel' = Append(processorChannel, m)
<1>1. \A t \in Times, n \in 0 .. Everyone :
        ProcessMessage(t, n) \in ProcessorMessages /\ ProcessMessage(t, n).type = "process"
  BY MessageTypes DEF ProcessMessage
<1>2. Everyone \in 0 .. Everyone
  BY EveryoneType
<1>3. CASE StartTick
  BY <1>1, <1>2, <1>3 DEF StartTick, TypeOK, TypeMain
<1>4. ASSUME NEW t \in Times, PublishAbandoned(t)
      PROVE  \E m \in ProcessorMessages : m.type = "process" /\ processorChannel' = Append(processorChannel, m)
  BY <1>1, <1>2, <1>4 DEF PublishAbandoned
<1>5. ASSUME NEW u \in Users, NotifyProcessors(u)
      PROVE  \E m \in ProcessorMessages : m.type = "process" /\ processorChannel' = Append(processorChannel, m)
  <2>1. runTime \in Times
    BY <1>5 DEF NotifyProcessors, Clocks, RunClock
  <2>2. Smaller(Cardinality(zeroed[u]), Everyone) \in 0 .. Everyone
    BY RoomsCardType, EveryoneType DEF Smaller, TypeOK, TypeRunner
  <2> QED BY <1>1, <1>5, <2>1, <2>2 DEF NotifyProcessors
<1>6. CASE MainSide
  BY <1>3, <1>4, <1>6 DEF MainSide, Main, PublishRun, HandleRunnerConnected, HandleTickFinished,
        BegetRoomProcessQueue, AdvanceTime, EndTick, AbandonIntents, channels
<1>7. CASE RunnerSide
  BY <1>5, <1>7 DEF RunnerSide, Run, TakeRun, RunCloses, RunEnds, RunnerCrashes, RunnerConnects, RunUser,
        TakeUser, ReadIntentRooms, Deactivate, PublishIntents, ResetCounts, PushIntentsForRoom, Terminated,
        vars, channels
<1> QED BY <1>6, <1>7

(* of the processors only the worker that ends the tick writes to main's channel *)
LEMMA ProcessorServiceChannel ==
  ASSUME ProcessorSide
  PROVE  UNCHANGED serviceChannel \/ \E w \in Workers : RoomsDidFinalize(w)
<1> USE DEF channels
<1>1. CASE Service
  BY <1>1 DEF Service, HandleProcess, HandleFinalize, FinishFinalize
<1>2. ASSUME NEW w \in Workers, Worker(w) PROVE UNCHANGED serviceChannel
  BY <1>2 DEF Worker, PopRoom, StartRoom, SendIntents, MarkExtraRooms, RoomDidProcess, AnnounceFinalize,
              DrainEnds, WorkerSleeps
<1>3. CASE \E w \in Workers : Finalize(w)
  BY <1>3 DEF Finalize, FinalizeRoom, FinalizeExtraRoom
<1> QED BY <1>1, <1>2, <1>3 DEF ProcessorSide

(* who writes to main's channel, and who reads it *)
LEMMA ServiceChannelSteps ==
  ASSUME [Next]_vars
  PROVE  \/ UNCHANGED serviceChannel
         \/ serviceChannel' = Append(serviceChannel, RunnerConnected)
         \/ HandleRunnerConnected \/ HandleTickFinished \/ BegetRoomProcessQueue
         \/ \E w \in Workers : RoomsDidFinalize(w)
<1> USE DEF channels
<1>1. CASE MainSide
  BY <1>1 DEF MainSide, Main, StartTick, PublishRun, AdvanceTime, EndTick, AbandonIntents, PublishAbandoned
<1>2. CASE ProcessorSide
  BY <1>2, ProcessorServiceChannel
<1>3. CASE RunnerSide
  BY <1>3 DEF RunnerSide, Run, TakeRun, RunCloses, RunEnds, RunnerCrashes, RunnerConnects, RunUser,
        TakeUser, ReadIntentRooms, Deactivate, PublishIntents, ResetCounts, NotifyProcessors,
        PushIntentsForRoom, Terminated, vars
<1> QED BY <1>1, <1>2, <1>3, Sides

(* a step that leaves the counters alone and publishes no end of a tick *)
LEMMA OnePhaseFrame ==
  ASSUME OnePhase, UNCHANGED <<QueueTime, Pending, Remaining>>,
         "beget" \in nextTasks' => "beget" \in nextTasks,
         Sole(serviceChannel', "tickFinished", QueueTime), Finished' # {} => Finished # {}
  PROVE  OnePhase'
BY DEF OnePhase, Finished

(* main and the runners: a tick ends for main when it reads that it has finished *)
LEMMA OnePhaseOfMain ==
  ASSUME TypeOK, Clocks, Barriers, [Next]_vars, MainSide \/ RunnerSide
  PROVE  OnePhase'
<1> DEFINE q == serviceChannel
<1> DEFINE kind == "tickFinished"
<1>1. OnePhase /\ MainStages /\ OthersQuiet /\ q \in Seq(ServiceMessages)
  BY DEF Barriers, Phases, TypeOK, TypeChannels
<1>2. CASE BegetRoomProcessQueue
  <2>1. Finished = {}
    BY <1>2, BegetAfterTick
  <2>2. /\ Pending' = IF Queue' = {} THEN Null ELSE Cardinality(Queue')
        /\ Remaining' = Null
        /\ q' = IF Queue' = {} THEN Append(q, TickFinished(QueueTime')) ELSE q
    BY <1>2, BegetKeys
  <2>3. nextTasks' = nextTasks \ {"beget"}
    BY <1>2 DEF BegetRoomProcessQueue
  <2>4. QueueTime' \in Times
    BY <1>2, BegetAfterTick
  <2>5. TickFinished(QueueTime') \in ServiceMessages /\ TickFinished(QueueTime').type = kind
        /\ TickFinished(QueueTime').time = QueueTime'
    BY <2>4, MessageTypes DEF TickFinished
  <2> HIDE DEF q, kind
  <2>6. Sole(Append(q, TickFinished(QueueTime')), kind, QueueTime')
    BY <1>1, <2>1, <2>5, SoleAppend DEF Finished, q, kind
  <2>7. OfKind(q, kind) = {} => Sole(q, kind, QueueTime')
    BY DEF Sole
  <2> QED BY <2>1, <2>2, <2>3, <2>6, <2>7 DEF OnePhase, Finished, q, kind
<1>3. ASSUME ~BegetRoomProcessQueue PROVE UNCHANGED <<QueueTime, Pending, Remaining>>
  BY <1>1, <1>3, MainKeys, RunnerKeys DEF keyView
<1>4. CASE HandleTickFinished
  <2>1. q # <<>> /\ Head(q).type = kind /\ q' = Tail(q) /\ mainPc = "listen"
    BY <1>4 DEF HandleTickFinished
  <2>2. Finished' = {} /\ Finished # {}
    BY <1>1, <2>1, SoleTail DEF OnePhase, Finished
  <2>3. ~BegetRoomProcessQueue
    BY <2>1 DEF BegetRoomProcessQueue
  <2>4. Sole(serviceChannel', "tickFinished", QueueTime')
    BY <2>2 DEF Sole, Finished
  <2> QED BY <1>1, <1>3, <2>2, <2>3, <2>4 DEF OnePhase
<1>5. ASSUME ~HandleTickFinished, "beget" \in nextTasks' PROVE "beget" \in nextTasks
  BY <1>5, RunnerFrame
     DEF MainSide, Main, StartTick, PublishRun, HandleRunnerConnected, BegetRoomProcessQueue, AdvanceTime,
         EndTick, AbandonIntents, PublishAbandoned, mainVars
<1>6. CASE HandleRunnerConnected
  <2>1. q # <<>> /\ q' = Tail(q) /\ mainPc = "listen"
    BY <1>6 DEF HandleRunnerConnected
  <2>2. ~BegetRoomProcessQueue
    BY <2>1 DEF BegetRoomProcessQueue
  <2>3. Sole(q', kind, QueueTime) /\ (Finished' # {} => Finished # {})
    BY <1>1, <2>1, SoleTail DEF OnePhase, Finished
  <2>4. "beget" \in nextTasks' => "beget" \in nextTasks
    BY <1>6 DEF HandleRunnerConnected, mainVars
  <2> QED BY <1>1, <1>3, <2>2, <2>3, <2>4, OnePhaseFrame
<1>7. CASE q' = Append(q, RunnerConnected) /\ ~BegetRoomProcessQueue /\ ~HandleTickFinished
  <2>1. RunnerConnected \in ServiceMessages /\ RunnerConnected.type # kind
    BY TickAssumption DEF RunnerConnected, ServiceMessages
  <2>2. Sole(q', kind, QueueTime) /\ (Finished' # {} => Finished # {})
    BY <1>1, <1>7, <2>1, SoleAppend DEF OnePhase, Finished
  <2> QED BY <1>1, <1>3, <1>5, <1>7, <2>2, OnePhaseFrame
<1>8. CASE q' = q /\ ~BegetRoomProcessQueue /\ ~HandleTickFinished
  <2>1. Sole(q', kind, QueueTime) /\ Finished' = Finished
    BY <1>1, <1>8 DEF OnePhase, Finished
  <2> QED BY <1>1, <1>3, <1>5, <1>8, <2>1, OnePhaseFrame
<1>9. \A w \in Workers : ~RoomsDidFinalize(w)
  <2>1. UNCHANGED finalizePc
    BY MainFrame, RunnerFrame DEF finalizeVars
  <2>2. \A w \in Workers : RoomsDidFinalize(w) => finalizePc'[w] # finalizePc[w]
    BY DEF RoomsDidFinalize, TypeOK, TypeFinalize
  <2> QED BY <2>1, <2>2
<1> QED BY <1>2, <1>4, <1>6, <1>7, <1>8, <1>9, ServiceChannelSteps

(* the processors: the worker that counts the last room begins finalization, the one that *)
(* accounts for the last room ends the tick *)
LEMMA OnePhaseOfProcessors ==
  ASSUME TypeOK, Clocks, Barriers, [Next]_vars, ProcessorSide
  PROVE  OnePhase'
<1> DEFINE q == serviceChannel
<1> DEFINE kind == "tickFinished"
<1>1. OnePhase /\ MainStages /\ OthersQuiet /\ WorkerShape /\ Phases /\ q \in Seq(ServiceMessages)
  BY DEF Barriers, Phases, TypeOK, TypeChannels
<1>2. UNCHANGED <<nextTasks, QueueTime>>
  BY ProcessorFrame DEF mainVars, QueueTime
<1>3. ASSUME NEW w \in Workers, RoomsDidFinalize(w) PROVE OnePhase'
  <2> DEFINE left == DecrBy(Remaining, finalizeCount[w])
  <2>1. /\ Remaining' = IF left = 0 THEN Null ELSE left
        /\ q' = IF left = 0 THEN Append(q, TickFinished(QueueTime)) ELSE q
        /\ Pending' = Pending
    BY <1>1, <1>3, RoomsDidFinalizeKeys
  <2> HIDE DEF left
  <2>2. Remaining # Null
    BY <1>3 DEF RoomsDidFinalize, Barriers, Phases, FinalizeLoop
  <2>3. Pending = Null /\ Finished = {} /\ "beget" \notin nextTasks
    BY <1>1, <2>2 DEF OnePhase
  <2>4. TickFinished(QueueTime) \in ServiceMessages /\ TickFinished(QueueTime).type = kind
        /\ TickFinished(QueueTime).time = QueueTime
    BY <1>1, QueueTimeType, MessageTypes DEF TickFinished
  <2>5. Sole(Append(q, TickFinished(QueueTime)), kind, QueueTime)
    BY <1>1, <2>3, <2>4, SoleAppend DEF Finished
  <2> QED BY <1>1, <1>2, <2>1, <2>3, <2>5 DEF OnePhase, Finished
<1>4. ASSUME UNCHANGED serviceChannel PROVE Sole(q', kind, QueueTime') /\ Finished' = Finished
  BY <1>1, <1>2, <1>4 DEF OnePhase, Finished
<1>5. ASSUME NEW w \in Workers, RoomDidProcess(w) PROVE OnePhase'
  <2>1. Remaining' = Remaining
    BY <1>1, <1>5, RoomDidProcessKeys
  <2>2. Undone # {}
    BY <1>1, <1>5 DEF RoomDidProcess, WorkerShape, Undone, InHand, TypeOK, TypeWorkers
  <2>3. Pending # Null
    BY <2>2 DEF Barriers, Countdown
  <2>4. UNCHANGED serviceChannel
    BY <1>5 DEF RoomDidProcess, channels
  <2> QED BY <1>1, <1>2, <1>4, <2>1, <2>3, <2>4 DEF OnePhase
<1>6. ASSUME NEW w \in Workers, AnnounceFinalize(w) PROVE OnePhase'
  <2>1. Pending' = Null
    BY <1>1, <1>6, AnnounceFinalizeKeys
  <2>2. Pending # Null
    BY <1>6, NullAssumption DEF AnnounceFinalize, Barriers, Countdown
  <2>3. UNCHANGED serviceChannel
    BY <1>6 DEF AnnounceFinalize
  <2> QED BY <1>1, <1>2, <1>4, <2>1, <2>2, <2>3 DEF OnePhase
<1>7. CASE UNCHANGED <<QueueTime, Pending, Remaining, serviceChannel>>
  BY <1>1, <1>2, <1>4, <1>7, OnePhaseFrame
<1>8. ASSUME NEW w \in Workers
      PROVE  /\ \A r \in Rooms : PopRoom(w, r) \/ FinalizeExtraRoom(w, r)
                                   => UNCHANGED <<QueueTime, Pending, Remaining, serviceChannel>>
             /\ \A targets \in SUBSET Rooms : SendIntents(w, targets)
                                   => UNCHANGED <<QueueTime, Pending, Remaining, serviceChannel>>
             /\ MarkExtraRooms(w) => UNCHANGED <<QueueTime, Pending, Remaining, serviceChannel>>
  <2>1. ASSUME NEW r \in Rooms, PopRoom(w, r) PROVE UNCHANGED <<QueueTime, Pending, Remaining, serviceChannel>>
    BY <1>1, <2>1, PopRoomKeys DEF PopRoom, channels
  <2>2. ASSUME NEW r \in Rooms, FinalizeExtraRoom(w, r)
        PROVE  UNCHANGED <<QueueTime, Pending, Remaining, serviceChannel>>
    BY <1>1, <2>2, FinalizeExtraRoomKeys DEF FinalizeExtraRoom, channels
  <2>3. ASSUME NEW targets \in SUBSET Rooms, SendIntents(w, targets)
        PROVE  UNCHANGED <<QueueTime, Pending, Remaining, serviceChannel>>
    BY <1>1, <2>3, SendIntentsKeys DEF SendIntents, channels
  <2>4. CASE MarkExtraRooms(w)
    BY <1>1, <2>4, MarkExtraRoomsKeys DEF MarkExtraRooms, channels
  <2> QED BY <2>1, <2>2, <2>3, <2>4
<1>9. ASSUME UNCHANGED keyView PROVE OnePhase'
  <2>1. UNCHANGED <<QueueTime, Pending, Remaining>>
    BY <1>9 DEF keyView
  <2> QED BY <1>3, <1>7, <2>1, ProcessorServiceChannel
<1> QED BY <1>1, <1>3, <1>5, <1>6, <1>7, <1>8, <1>9, ProcessorKeys

(* the finalization of the queued tick is announced once *)
LEMMA AnnouncedOnceStep ==
  ASSUME TypeOK, Clocks, Barriers, [Next]_vars
  PROVE  AnnouncedOnce'
<1> DEFINE q == processorChannel
<1> DEFINE kind == "finalize"
<1>1. /\ AnnouncedOnce /\ MainStages /\ OthersQuiet /\ WorkerShape /\ Phases
      /\ q \in Seq(ProcessorMessages)
  BY DEF Barriers, Phases, TypeOK, TypeChannels
<1>2. ASSUME UNCHANGED <<QueueTime, Remaining, servicePc>>, Sole(q', kind, QueueTime), Announced' # {} => Announced # {}
      PROVE  AnnouncedOnce'
  BY <1>1, <1>2 DEF AnnouncedOnce, Announced
<1>3. CASE UNCHANGED <<QueueTime, Remaining, servicePc, processorChannel>>
  BY <1>1, <1>2, <1>3 DEF AnnouncedOnce, Announced
<1>4. CASE MainSide \/ RunnerSide
  <2>1. UNCHANGED servicePc
    BY <1>4, MainFrame, RunnerFrame DEF finalizeVars
  <2>2. Announced' # {} => Announced # {}
    <3>1. CASE UNCHANGED processorChannel
      BY <3>1 DEF Announced
    <3>2. ASSUME NEW m \in ProcessorMessages, m.type = "process", q' = Append(q, m)
          PROVE  Announced' # {} => Announced # {}
      <4>1. m.type # kind
        BY <3>2
      <4>2. OfKind(Append(q, m), kind) = {} <=> OfKind(q, kind) = {}
        <5> HIDE DEF q, kind
        <5> QED BY <1>1, <4>1, SoleAppend
      <4> QED BY <3>2, <4>2 DEF Announced
    <3> QED BY <1>4, <3>1, <3>2, ProcessorChannelSteps
  <2>3. CASE BegetRoomProcessQueue
    <3>1. Announced = {}
      BY <1>1, <2>3, BegetAfterTick DEF AnnouncedOnce
    <3> QED BY <2>2, <3>1 DEF AnnouncedOnce, Announced, Sole
  <2>4. CASE ~BegetRoomProcessQueue
    <3>1. UNCHANGED <<QueueTime, Remaining>>
      BY <1>1, <1>4, <2>4, MainKeys, RunnerKeys DEF keyView
    <3>2. Sole(q', kind, QueueTime)
      BY <1>1, <1>4, ProcessorChannelSteps, SoleAppend DEF AnnouncedOnce
    <3> QED BY <1>2, <2>1, <2>2, <3>1, <3>2
  <2> QED BY <2>3, <2>4
<1>5. CASE HandleProcess
  <2>1. q # <<>> /\ q' = Tail(q)
    BY <1>5 DEF HandleProcess
  <2>2. UNCHANGED <<QueueTime, Remaining, servicePc>>
    BY <1>5 DEF HandleProcess, QueueTime, Remaining, mainVars, tickKeys, finalizeVars
  <2> QED BY <1>1, <1>2, <2>1, <2>2, SoleTail DEF AnnouncedOnce, Announced
<1>6. CASE HandleFinalize
  <2>1. q # <<>> /\ q' = Tail(q) /\ Head(q).type = kind
    BY <1>6 DEF HandleFinalize
  <2>2. Announced' = {}
    BY <1>1, <2>1, SoleTail DEF AnnouncedOnce, Announced
  <2> QED BY <2>2 DEF AnnouncedOnce, Announced, Sole
<1>7. CASE FinishFinalize
  <2>1. servicePc = "finalize" /\ UNCHANGED processorChannel
    BY <1>7 DEF FinishFinalize, channels
  <2>2. Announced' = {}
    BY <1>1, <2>1 DEF AnnouncedOnce, Announced
  <2> QED BY <2>2 DEF AnnouncedOnce, Announced, Sole
<1>8. ASSUME NEW w \in Workers, AnnounceFinalize(w) PROVE AnnouncedOnce'
  <2>1. /\ Remaining' = Cardinality(TickRooms) /\ QueueTime' = QueueTime
        /\ q' = Append(q, FinalizeMessage(QueueTime)) /\ UNCHANGED servicePc
    BY <1>1, <1>8, AnnounceFinalizeKeys DEF AnnounceFinalize, finalizeVars
  <2>2. QueueTime \in Times
    BY <1>1, QueueTimeType
  <2>3. Cardinality(TickRooms) # Null
    BY <2>2, RoomsCardType, NullAssumption DEF TickRooms, TypeOK, TypeStore
  <2>4. Pending # Null /\ currentTime[w] = QueueTime
    BY <1>1, <1>8, NullAssumption DEF AnnounceFinalize, Barriers, Countdown, WorkerShape
  <2>5. Announced = {}
    BY <1>1, <2>4 DEF AnnouncedOnce, Phases, OnePhase
  <2>6. servicePc = "listen"
    <3>1. servicePc = "finalize" => finalizingTime < QueueTime /\ QueueTime <= finalizingTime
      BY <1>1, <2>4 DEF Phases, FinalizeLoop
    <3>2. finalizingTime \in Int /\ QueueTime \in Int
      BY <1>1, QueueTimeType DEF TypeOK, TypeFinalize
    <3> QED BY <3>1, <3>2 DEF TypeOK, TypeFinalize
  <2>7. /\ FinalizeMessage(QueueTime) \in ProcessorMessages
        /\ FinalizeMessage(QueueTime).type = kind /\ FinalizeMessage(QueueTime).time = QueueTime
    BY <2>2, MessageTypes DEF FinalizeMessage
  <2>8. Sole(q', kind, QueueTime)
    BY <1>1, <2>1, <2>5, <2>7, SoleAppend DEF Announced
  <2> QED BY <2>1, <2>3, <2>6, <2>8 DEF AnnouncedOnce
<1>9. ASSUME NEW w \in Workers, RoomsDidFinalize(w) PROVE AnnouncedOnce'
  <2>1. servicePc = "finalize" /\ UNCHANGED processorChannel
    BY <1>9 DEF RoomsDidFinalize, Clocks, FinalizeClock
  <2>2. Announced' = {}
    BY <1>1, <2>1 DEF AnnouncedOnce, Announced
  <2> QED BY <2>2 DEF AnnouncedOnce, Announced, Sole
<1>10. ASSUME NEW w \in Workers, Worker(w), ~AnnounceFinalize(w) PROVE AnnouncedOnce'
  <2>1. UNCHANGED <<mainVars, finalizePending, servicePc, processorChannel>>
    BY <1>10 DEF Worker, PopRoom, StartRoom, SendIntents, MarkExtraRooms, RoomDidProcess, DrainEnds,
           WorkerSleeps, tickKeys, finalizeVars, channels
  <2> QED BY <1>3, <2>1 DEF QueueTime, Remaining, mainVars
<1>11. ASSUME NEW w \in Workers, Finalize(w), ~RoomsDidFinalize(w) PROVE AnnouncedOnce'
  <2>1. UNCHANGED <<mainVars, finalizePending, servicePc, processorChannel>>
    BY <1>11 DEF Finalize, FinalizeRoom, FinalizeExtraRoom, tickKeys, channels
  <2> QED BY <1>3, <2>1 DEF QueueTime, Remaining, mainVars
<1> QED BY <1>4, <1>5, <1>6, <1>7, <1>8, <1>9, <1>10, <1>11, Sides DEF ProcessorSide, Service

(* the size of a finite set without some of its members *)
LEMMA DifferenceCard ==
  ASSUME NEW S, IsFiniteSet(S), NEW T \in SUBSET S
  PROVE  Cardinality(S \ T) = Cardinality(S) - Cardinality(T)
<1>1. IsFiniteSet(T) /\ IsFiniteSet(S \ T)
  BY FS_Subset
<1>2. (S \ T) \cup T = S /\ (S \ T) \cap T = {}
  OBVIOUS
<1>3. Cardinality(S) = Cardinality(S \ T) + Cardinality(T) - Cardinality({})
  BY <1>1, <1>2, FS_Union
<1> QED BY <1>1, <1>3, FS_EmptySet, FS_CardinalityType

(* What a report leaves to be finalized is the number it writes back: zero only when every other *)
(* worker has reported.                                                                          *)
LEMMA ReportTally ==
  ASSUME TypeOK, Clocks, Barriers, NEW w \in Workers, RoomsDidFinalize(w)
  PROVE  \E G \in [Workers -> SUBSET Rooms] :
           /\ \A v \in Workers :
                /\ v # w /\ finalizePc[v] = "work" => Cardinality(G[v]) = finalizeCount[v] /\ G[v] \cup Kept(v) # {}
                /\ v = w \/ finalizePc[v] # "work" => G[v] = {}
                /\ G[v] \cap Unfinalized = {}
           /\ \A u, v \in Workers : u # v => G[u] \cap G[v] = {}
           /\ DecrBy(Remaining, finalizeCount[w]) = Cardinality(Unfinalized \cup UNION {G[v] : v \in Workers})
           /\ DecrBy(Remaining, finalizeCount[w]) = 0 =>
                Unfinalized = {} /\ \A v \in Workers : v # w => finalizePc[v] # "work"
<1>1. finalizePc[w] = "work" /\ Remaining # Null
  BY DEF RoomsDidFinalize, Barriers, Phases, FinalizeLoop
<1>2. PICK F \in [Workers -> SUBSET Rooms] : Tally(F)
  BY <1>1 DEF Barriers, Tallied
<1> DEFINE G == [F EXCEPT ![w] = {}]
<1> DEFINE U == Unfinalized \cup UNION {F[v] : v \in Workers}
<1> DEFINE V == Unfinalized \cup UNION {G[v] : v \in Workers}
<1>3. G \in [Workers -> SUBSET Rooms] /\ G[w] = {} /\ \A v \in Workers : v # w => G[v] = F[v]
  OBVIOUS
<1>4. Unfinalized \subseteq Rooms
  <2>1. QueueTime \in Times
    BY QueueTimeType DEF Barriers
  <2> QED BY <2>1 DEF Unfinalized, TypeOK, TypeStore, TypeFinalize
<1>5. IsFiniteSet(U) /\ F[w] \subseteq U
  <2>1. U \subseteq Rooms
    BY <1>4
  <2> QED BY <2>1, FS_Subset, TickAssumption
<1>6. V = U \ F[w]
  <2>1. \A x : x \in V <=> x \in Unfinalized \/ \E v \in Workers : v # w /\ x \in F[v]
    BY <1>3
  <2>2. \A x : x \in U <=> x \in Unfinalized \/ \E v \in Workers : x \in F[v]
    OBVIOUS
  <2>3. \A x \in F[w] : x \notin Unfinalized /\ \A v \in Workers : v # w => x \notin F[v]
    BY <1>2 DEF Tally
  <2> HIDE DEF U, V
  <2> QED BY <2>1, <2>2, <2>3
<1>7. Remaining = Cardinality(U) /\ finalizeCount[w] = Cardinality(F[w])
  BY <1>1, <1>2 DEF Tally
<1> HIDE DEF U, V, G
<1>8. DecrBy(Remaining, finalizeCount[w]) = Cardinality(V)
  <2>1. Cardinality(V) = Cardinality(U) - Cardinality(F[w])
    BY <1>5, <1>6, DifferenceCard
  <2> QED BY <1>1, <1>7, <2>1 DEF DecrBy
<1>9. DecrBy(Remaining, finalizeCount[w]) = 0 => V = {}
  BY <1>5, <1>6, <1>8, FS_Subset, FS_EmptySet
<1>10. V = {} => Unfinalized = {} /\ \A v \in Workers : v # w => G[v] = {} /\ Kept(v) = {}
  BY <1>3 DEF V, Unfinalized, Kept
<1>11. \A v \in Workers : v # w /\ finalizePc[v] = "work" => Cardinality(G[v]) = finalizeCount[v] /\ G[v] \cup Kept(v) # {}
  BY <1>2, <1>3 DEF Tally
<1>12. \A v \in Workers : (v = w \/ finalizePc[v] # "work" => G[v] = {}) /\ G[v] \cap Unfinalized = {}
  BY <1>2, <1>3 DEF Tally
<1>13. \A u, v \in Workers : u # v => G[u] \cap G[v] = {}
  BY <1>2, <1>3 DEF Tally
<1> QED BY <1>3, <1>8, <1>9, <1>10, <1>11, <1>12, <1>13 DEF V

(* the finalization a service begins is that of the queued tick *)
LEMMA FinalizeIsCurrent ==
  ASSUME TypeOK, Clocks, Barriers, HandleFinalize
  PROVE  /\ finalizingTime' = QueueTime /\ QueueTime' = QueueTime
         /\ Remaining # Null /\ Pending = Null /\ UNCHANGED <<Pending, Remaining>>
<1> DEFINE q == processorChannel
<1>1. q \in Seq(ProcessorMessages) /\ q # <<>> /\ Head(q).type = "finalize"
  BY DEF HandleFinalize, TypeOK, TypeChannels
<1>2. 1 \in DOMAIN q /\ Head(q) = q[1]
  BY <1>1, TailMessages
<1>3. 1 \in Announced
  BY <1>1, <1>2 DEF Announced, OfKind
<1>4. q[1].time = QueueTime
  BY <1>3 DEF Barriers, Phases, AnnouncedOnce, Sole, Announced
<1>5. finalizingTime' = QueueTime
  BY <1>2, <1>4 DEF HandleFinalize
<1>6. Remaining # Null /\ Pending = Null
  BY <1>3 DEF Barriers, Phases, AnnouncedOnce, OnePhase
<1>7. UNCHANGED <<QueueTime, Pending, Remaining>>
  BY DEF HandleFinalize, mainVars, tickKeys, QueueTime, Pending, Remaining
<1> QED BY <1>5, <1>6, <1>7

(* a worker's own steps neither reopen the countdown nor close the finalization *)
LEMMA WorkerCounters ==
  ASSUME TypeOK, Clocks, Barriers, NEW w \in Workers, Worker(w)
  PROVE  /\ QueueTime' = QueueTime
         /\ Pending' # Null => Pending # Null
         /\ Remaining # Null => Remaining' # Null
         /\ UNCHANGED <<servicePc, finalizingTime, finalizedTime, unfinalized, finalizeCount, finalizePc>>
<1>1. WorkerShape /\ OthersQuiet /\ MainStages
  BY DEF Barriers
<1>2. UNCHANGED <<servicePc, finalizingTime, finalizedTime, unfinalized, finalizeCount, finalizePc, mainVars>>
  BY DEF Worker, PopRoom, StartRoom, SendIntents, MarkExtraRooms, RoomDidProcess, AnnounceFinalize, DrainEnds,
         WorkerSleeps, finalizeVars
<1>3. QueueTime' = QueueTime
  BY <1>2 DEF mainVars, QueueTime
<1>4. CASE RoomDidProcess(w)
  <2>1. Undone # {}
    BY <1>1, <1>4 DEF RoomDidProcess, WorkerShape, Undone, InHand, TypeOK, TypeWorkers
  <2>2. Pending # Null
    BY <2>1 DEF Barriers, Countdown
  <2>3. Remaining' = Remaining
    BY <1>1, <1>4, RoomDidProcessKeys
  <2> QED BY <1>2, <1>3, <2>2, <2>3
<1>5. CASE AnnounceFinalize(w)
  <2>1. Pending' = Null /\ Remaining' = Cardinality(TickRooms)
    BY <1>1, <1>5, AnnounceFinalizeKeys
  <2>2. QueueTime \in Times
    BY <1>1, QueueTimeType
  <2>3. Cardinality(TickRooms) # Null
    BY <2>2, RoomsCardType, NullAssumption DEF TickRooms, TypeOK, TypeStore
  <2> QED BY <1>2, <1>3, <2>1, <2>3
<1>6. CASE ~RoomDidProcess(w) /\ ~AnnounceFinalize(w)
  <2>1. UNCHANGED <<roomsPending, finalizePending>>
    BY <1>6 DEF Worker, PopRoom, StartRoom, SendIntents, MarkExtraRooms, DrainEnds, WorkerSleeps, tickKeys
  <2> QED BY <1>2, <1>3, <2>1 DEF Pending, Remaining
<1> QED BY <1>4, <1>5, <1>6

(* a worker goes on only to the tick whose wake it has latched *)
LEMMA WorkerTimes ==
  ASSUME TypeOK, NEW w \in Workers, Worker(w), NEW v \in Workers
  PROVE  /\ currentTime'[v] # currentTime[v] => pendingTime[v] # Null /\ currentTime'[v] = pendingTime[v]
         /\ pendingTime'[v] # pendingTime[v] => pendingTime'[v] = Null
<1>1. CASE WorkerSleeps(w)
  BY <1>1 DEF WorkerSleeps, TypeOK, TypeWorkers
<1>2. CASE ~WorkerSleeps(w)
  BY <1>2 DEF Worker, PopRoom, StartRoom, SendIntents, MarkExtraRooms, RoomDidProcess, AnnounceFinalize, DrainEnds
<1> QED BY <1>1, <1>2

(* the service is never ahead in its finalizations, nor behind when rooms are counted *)
LEMMA FinalizeLoopStep ==
  ASSUME TypeOK, Clocks, Barriers, [Next]_vars
  PROVE  FinalizeLoop'
<1> DEFINE Behind(c, p) ==
      \A w \in Workers : c[w] <= finalizingTime /\ (p[w] # Null => p[w] <= finalizingTime)
<1>1. FinalizeLoop /\ NobodyAhead /\ MainStages /\ OthersQuiet /\ WorkerShape /\ Phases
  BY DEF Barriers, Phases
<1>2. /\ finalizingTime \in Int /\ finalizedTime \in Int /\ tickTime \in Int /\ QueueTime \in Int
      /\ tickTime <= QueueTime /\ servicePc \in {"listen", "finalize"}
      /\ finalizePc \in [Workers -> {"none", "work", "done"}] /\ unfinalized \in [Workers -> SUBSET Rooms]
  BY <1>1, QueueTimeType DEF TypeOK, TypeFinalize, TypeMain
<1>3. \A w \in Workers : currentTime[w] \in Int /\ (pendingTime[w] # Null => pendingTime[w] \in Int)
  BY DEF TypeOK, TypeWorkers, Times
<1>4. CASE UNCHANGED <<keyView, loopVars, finalizeVars>>
  BY <1>1, <1>4 DEF FinalizeLoop, keyView, loopVars, finalizeVars
<1>5. CASE BegetRoomProcessQueue
  <2>1. QueueTime' = tickTime + 1 /\ Remaining = Null
    BY <1>5, BegetAfterTick
  <2>2. UNCHANGED <<loopVars, finalizeVars>>
    BY <1>5 DEF BegetRoomProcessQueue
  <2>3. finalizingTime < QueueTime' /\ finalizedTime < QueueTime'
    BY <1>1, <1>2, <2>1 DEF NobodyAhead
  <2>4. \A w \in Workers : finalizePc[w] # "work"
    BY <1>1, <2>1 DEF FinalizeLoop
  <2> QED BY <1>1, <2>2, <2>3, <2>4 DEF FinalizeLoop, loopVars, finalizeVars
<1>6. CASE MainSide \/ RunnerSide
  <2>1. UNCHANGED <<loopVars, finalizeVars>>
    BY <1>6, MainFrame, RunnerFrame
  <2>2. BegetRoomProcessQueue \/ UNCHANGED keyView
    BY <1>1, <1>6, MainKeys, RunnerKeys
  <2> QED BY <1>4, <1>5, <2>1, <2>2
<1>7. CASE HandleProcess
  <2>1. servicePc = "listen" /\ UNCHANGED <<finalizeVars, QueueTime, Pending, Remaining>>
    BY <1>7 DEF HandleProcess, mainVars, tickKeys, QueueTime, Pending, Remaining
  <2> QED BY <1>1, <2>1 DEF FinalizeLoop, finalizeVars
<1>8. CASE HandleFinalize
  <2>1. /\ finalizingTime' = QueueTime /\ QueueTime' = QueueTime
        /\ Remaining # Null /\ Pending = Null /\ UNCHANGED <<Pending, Remaining>>
    BY <1>8, FinalizeIsCurrent
  <2>2. /\ servicePc' = "finalize" /\ unfinalized' = processed /\ UNCHANGED loopVars
        /\ finalizePc' = [w \in Workers |-> IF processed[w] # {} THEN "work" ELSE "done"]
    BY <1>8 DEF HandleFinalize
  <2>3. \A w \in Workers :
          currentTime'[w] <= finalizingTime' /\ (pendingTime'[w] # Null => pendingTime'[w] <= finalizingTime')
    BY <1>1, <1>2, <1>3, <2>1, <2>2 DEF NobodyAhead, loopVars
  <2>4. \A w \in Workers : finalizePc'[w] # "none" /\ (finalizePc'[w] = "done" => unfinalized'[w] = {})
    BY <2>2
  <2> QED BY <2>1, <2>2, <2>3, <2>4 DEF FinalizeLoop
<1>9. CASE FinishFinalize
  <2>1. UNCHANGED <<QueueTime, Pending, Remaining, finalizingTime>>
    BY <1>9 DEF FinishFinalize, mainVars, tickKeys, QueueTime, Pending, Remaining
  <2>2. /\ servicePc = "finalize" /\ servicePc' = "listen" /\ finalizedTime' \in {finalizingTime, finalizedTime}
        /\ finalizePc' = [w \in Workers |-> "none"]
    BY <1>9 DEF FinishFinalize
  <2> QED BY <1>1, <2>1, <2>2 DEF FinalizeLoop
<1>10. ASSUME NEW w \in Workers, Worker(w) PROVE FinalizeLoop'
  <2>1. /\ QueueTime' = QueueTime /\ (Pending' # Null => Pending # Null) /\ (Remaining # Null => Remaining' # Null)
        /\ UNCHANGED <<servicePc, finalizingTime, finalizedTime, unfinalized, finalizePc>>
    BY <1>10, WorkerCounters
  <2>2. ASSUME servicePc = "finalize" PROVE Behind(currentTime', pendingTime')
    <3>1. Behind(currentTime, pendingTime)
      BY <1>1, <2>2 DEF FinalizeLoop
    <3> QED BY <1>10, <3>1, WorkerTimes
  <2> QED BY <1>1, <2>1, <2>2 DEF FinalizeLoop
<1>11. ASSUME NEW w \in Workers, NEW r \in Rooms, FinalizeRoom(w, r) \/ FinalizeExtraRoom(w, r) PROVE FinalizeLoop'
  <2>1. /\ finalizePc[w] = "work" /\ \A v \in Workers : v # w => unfinalized'[v] = unfinalized[v]
        /\ UNCHANGED <<mainVars, roomsPending, finalizePending, loopVars, servicePc, finalizingTime, finalizedTime, finalizePc>>
    BY <1>2, <1>11 DEF FinalizeRoom, FinalizeExtraRoom, tickKeys
  <2>2. UNCHANGED <<QueueTime, Pending, Remaining, currentTime, pendingTime>>
    BY <2>1 DEF mainVars, QueueTime, Pending, Remaining, loopVars
  <2> QED BY <1>1, <2>1, <2>2 DEF FinalizeLoop
<1>12. ASSUME NEW w \in Workers, RoomsDidFinalize(w) PROVE FinalizeLoop'
  <2> DEFINE left == DecrBy(Remaining, finalizeCount[w])
  <2>1. /\ Remaining' = (IF left = 0 THEN Null ELSE left) /\ UNCHANGED <<QueueTime, Pending>>
    BY <1>1, <1>12, RoomsDidFinalizeKeys
  <2>2. left = 0 => \A v \in Workers : v # w => finalizePc[v] # "work"
    BY <1>12, ReportTally
  <2>3. left # Null
    <3>1. finalizeCount[w] \in Int /\ QueueTime \in Times
      BY <1>1, QueueTimeType DEF TypeOK, TypeFinalize
    <3>2. Remaining \in Score
      BY <3>1 DEF Remaining, TypeOK, TypeStore
    <3> QED BY <3>1, <3>2, DecrType, NullAssumption
  <2>4. /\ finalizePc' = [finalizePc EXCEPT ![w] = "done"] /\ finalizePc[w] = "work" /\ unfinalized[w] = {}
        /\ UNCHANGED <<loopVars, servicePc, finalizingTime, finalizedTime, unfinalized>>
    BY <1>12 DEF RoomsDidFinalize
  <2> HIDE DEF left
  <2>5. \A v \in Workers : finalizePc'[v] = "work" => v # w /\ finalizePc[v] = "work" /\ Remaining' # Null
    BY <1>2, <2>1, <2>2, <2>3, <2>4
  <2> QED BY <1>1, <1>2, <2>1, <2>4, <2>5 DEF FinalizeLoop, loopVars
<1> QED BY <1>6, <1>7, <1>8, <1>9, <1>10, <1>11, <1>12, Sides DEF ProcessorSide, Service, Finalize
-----------------------------------------------------------------------------
(***************************************************************************)
(* Where the rooms of the tick are.                                        *)
(***************************************************************************)
(* once every room is processed no worker holds one *)
LEMMA NoneInHand ==
  ASSUME TypeOK, Clocks, Barriers, Undone = {}
  PROVE  Queue = {} /\ \A w \in Workers : held[w] = {} /\ room[w] = Null /\ unmarked[w] = {}
<1>1. QueueTime \in Times
  BY QueueTimeType DEF Barriers
<1>2. Queue \subseteq Rooms
  BY <1>1 DEF Queue, ZMembers, TypeOK, TypeStore
<1>3. \A w \in Workers : held[w] \subseteq Rooms /\ room[w] \in Rooms \cup {Null}
  BY DEF TypeOK, TypeWorkers
<1>4. \A w \in Workers : held[w] = {} /\ room[w] = Null
  BY <1>3 DEF Undone, InHand
<1> QED BY <1>2, <1>4 DEF Undone, Barriers, WorkerShape

(* while a worker holds a room of the tick nobody finalizes, nor has its finalization begun *)
LEMMA ListensInTick ==
  ASSUME TypeOK, Clocks, Barriers, NEW w \in Workers, InHand(w) # {}
  PROVE  Pending # Null /\ Remaining = Null /\ servicePc = "listen" /\ QueueTime = tickTime /\ currentTime[w] = QueueTime
<1>1. Undone # {}
  BY DEF InHand, Undone, TypeOK, TypeWorkers
<1>2. Pending # Null /\ Remaining = Null
  BY <1>1 DEF Barriers, Countdown, Phases, OnePhase
<1>3. currentTime[w] = QueueTime
  BY DEF InHand, Barriers, WorkerShape
<1>4. servicePc = "finalize" => finalizingTime < QueueTime /\ QueueTime <= finalizingTime
  BY <1>2, <1>3 DEF Barriers, Phases, FinalizeLoop
<1>5. finalizingTime \in Int /\ QueueTime \in Int /\ tickTime \in Int /\ QueueTime \in {tickTime, tickTime + 1}
  BY QueueTimeType DEF Barriers, TypeOK, TypeFinalize
<1>6. servicePc = "listen"
  BY <1>4, <1>5 DEF TypeOK, TypeFinalize
<1>7. QueueTime <= tickTime
  BY <1>3 DEF Barriers, NobodyAhead
<1> QED BY <1>2, <1>3, <1>5, <1>6, <1>7

(* a room is being finalized, or it waits for it, exactly when it is an extra room or kept by a worker *)
LEMMA UnfinalizedMembers ==
  \A x : x \in Unfinalized <=> x \in Extra \/ \E w \in Workers : x \in Kept(w)
BY DEF Unfinalized, Extra, Kept

(* of the workers' steps apart, none changes what is kept: a finalization begins with the rooms *)
(* that were recorded and ends with none                                                        *)
LEMMA KeptSame ==
  ASSUME TypeOK, Clocks, Barriers, MainSide \/ RunnerSide \/ Service
  PROVE  \A v \in Workers : Kept(v)' = Kept(v)
<1>1. CASE UNCHANGED <<servicePc, processed, unfinalized>>
  BY <1>1 DEF Kept
<1>2. CASE HandleFinalize
  BY <1>2 DEF HandleFinalize, Kept
<1>3. CASE FinishFinalize
  <2>1. \A v \in Workers : finalizePc[v] = "done" => unfinalized[v] = {}
    BY DEF Barriers, Phases, FinalizeLoop
  <2> QED BY <1>3, <2>1 DEF FinishFinalize, Kept
<1>4. HandleProcess => UNCHANGED <<servicePc, processed, unfinalized>>
  BY DEF HandleProcess, finalizeVars
<1>5. MainSide \/ RunnerSide => UNCHANGED <<servicePc, processed, unfinalized>>
  BY MainFrame, RunnerFrame DEF finalizeVars
<1> QED BY <1>1, <1>2, <1>3, <1>4, <1>5 DEF Service

(* to finalize a room is to take it out of the one place it is in *)
LEMMA FinalizeTakes ==
  ASSUME TypeOK, Clocks, Barriers, NEW w \in Workers, NEW r \in Rooms, FinalizeRoom(w, r) \/ FinalizeExtraRoom(w, r)
  PROVE  /\ finalizePc[w] = "work" /\ servicePc = "finalize" /\ Pending = Null /\ Remaining # Null /\ Undone = {}
         /\ r \in Unfinalized /\ (r \in Kept(w) \/ (r \in Extra /\ Kept(w) = {}))
         /\ Extra' = Extra \ {r} /\ \A v \in Workers : Kept(v)' = Kept(v) \ {r}
         /\ Unfinalized' = Unfinalized \ {r} /\ finalIntents' = finalIntents \ {r}
         /\ finalizeCount' = [finalizeCount EXCEPT ![w] = finalizeCount[w] + 1]
         /\ UNCHANGED <<mainVars, QueueTime, Queue, Pending, Remaining, TickRooms, loopVars, finalizePc, servicePc>>
<1>1. OthersQuiet /\ MainStages /\ Apart /\ TypeFinalize
  BY DEF Barriers, TypeOK
<1>2. finalizePc[w] = "work" /\ servicePc = "finalize" /\ Remaining # Null
  BY DEF FinalizeRoom, FinalizeExtraRoom, Clocks, FinalizeClock, Barriers, Phases, FinalizeLoop
<1>3. Pending = Null
  BY <1>2 DEF Barriers, Phases, OnePhase
<1>4. Undone = {}
  BY <1>3 DEF Barriers, Countdown
<1>5. UNCHANGED <<mainVars, QueueTime, loopVars, finalizePc, servicePc>>
  BY DEF FinalizeRoom, FinalizeExtraRoom, mainVars, QueueTime
<1>6. finalIntents' = finalIntents \ {r} /\ finalizeCount' = [finalizeCount EXCEPT ![w] = finalizeCount[w] + 1]
  BY DEF FinalizeRoom, FinalizeExtraRoom, SettleRoom
<1>7. \A v \in Workers : Kept(v) = unfinalized[v]
  BY <1>2 DEF Kept
<1>8. ASSUME FinalizeRoom(w, r)
      PROVE  /\ (r \in Kept(w) \/ (r \in Extra /\ Kept(w) = {}))
             /\ Extra' = Extra \ {r} /\ \A v \in Workers : Kept(v)' = Kept(v) \ {r}
             /\ UNCHANGED <<Queue, Pending, Remaining, TickRooms>>
  <2>1. r \in Kept(w)
    BY <1>7, <1>8 DEF FinalizeRoom
  <2>2. r \notin Extra /\ \A v \in Workers : v # w => r \notin Kept(v)
    BY <1>1, <2>1 DEF Apart, Mine
  <2>3. UNCHANGED <<Queue, Pending, Remaining, TickRooms, Extra>>
    BY <1>5, <1>8 DEF FinalizeRoom, tickKeys, Queue, Pending, Remaining, TickRooms, Extra
  <2>4. \A v \in Workers : Kept(v)' = Kept(v) \ {r}
    BY <1>1, <1>2, <1>5, <1>8, <2>2 DEF FinalizeRoom, TypeFinalize, Kept
  <2> QED BY <2>1, <2>2, <2>3, <2>4
<1>9. ASSUME FinalizeExtraRoom(w, r)
      PROVE  /\ (r \in Kept(w) \/ (r \in Extra /\ Kept(w) = {}))
             /\ Extra' = Extra \ {r} /\ \A v \in Workers : Kept(v)' = Kept(v) \ {r}
             /\ UNCHANGED <<Queue, Pending, Remaining, TickRooms>>
  <2>1. r \in Extra /\ Extra' = Extra \ {r} /\ UNCHANGED <<Queue, Pending, Remaining, TickRooms>>
    BY <1>1, <1>9, FinalizeExtraRoomKeys
  <2>2. \A v \in Workers : r \notin Kept(v)
    BY <1>1, <2>1 DEF Apart, Mine
  <2>3. \A v \in Workers : Kept(v)' = Kept(v) \ {r}
    BY <1>2, <1>5, <1>9, <2>2 DEF FinalizeExtraRoom, Kept
  <2>4. Kept(w) = {}
    BY <1>7, <1>9 DEF FinalizeExtraRoom
  <2> QED BY <2>1, <2>3, <2>4
<1>10. /\ r \in Unfinalized /\ (r \in Kept(w) \/ (r \in Extra /\ Kept(w) = {}))
       /\ Extra' = Extra \ {r} /\ \A v \in Workers : Kept(v)' = Kept(v) \ {r}
       /\ UNCHANGED <<Queue, Pending, Remaining, TickRooms>>
  BY <1>8, <1>9, UnfinalizedMembers
<1>11. Unfinalized' = Unfinalized \ {r}
  <2>1. \A x : x \in Unfinalized' <=> x \in Extra' \/ \E v \in Workers : x \in Kept(v)'
    BY DEF Unfinalized, Extra, Kept
  <2> QED BY <1>10, <2>1, UnfinalizedMembers
<1> QED BY <1>2, <1>3, <1>4, <1>5, <1>6, <1>10, <1>11

(* a step that moves no room *)
LEMMA ApartFrame ==
  ASSUME Apart, UNCHANGED <<Queue, Extra, held, unmarked>>, \A v \in Workers : Kept(v)' = Kept(v),
         \A v \in Workers : room'[v] \in {room[v], Null}
  PROVE  Apart'
BY DEF Apart, Mine

(* a worker's own steps move rooms from one place to the next *)
LEMMA ApartOfWorkers ==
  ASSUME TypeOK, Clocks, Barriers, [Next]_vars, NEW w \in Workers, Worker(w)
  PROVE  Apart'
<1>1. Apart /\ TypeWorkers /\ TypeFinalize /\ OthersQuiet /\ MainStages /\ WorkerShape
  BY DEF TypeOK, Barriers
<1>2. \A v \in Workers : held[v] \subseteq Rooms /\ unmarked[v] \subseteq Rooms /\ Kept(v) \subseteq Rooms
  BY <1>1 DEF TypeWorkers, TypeFinalize, Kept
<1>3. ASSUME NEW r \in Rooms, PopRoom(w, r) PROVE Apart'
  <2>1. r \in Queue /\ Queue' = Queue \ {r} /\ Extra' = Extra
    BY <1>1, <1>3, PopRoomKeys
  <2>2. held' = [held EXCEPT ![w] = held[w] \cup {r}] /\ UNCHANGED <<room, unmarked, finalizeVars>>
    BY <1>3 DEF PopRoom
  <2>3. \A v \in Workers : Kept(v)' = Kept(v)
    BY <2>2 DEF Kept, finalizeVars
  <2>4. \A v \in Workers : held'[v] = IF v = w THEN held[v] \cup {r} ELSE held[v]
    BY <1>1, <2>2 DEF TypeWorkers
  <2> QED BY <1>1, <2>1, <2>2, <2>3, <2>4 DEF Apart, Mine
<1>4. ASSUME NEW r \in Rooms, StartRoom(w, r) PROVE Apart'
  <2>1. /\ r \in held[w] /\ UNCHANGED <<unmarked, servicePc, mainVars, tickKeys>>
        /\ held' = [held EXCEPT ![w] = held[w] \ {r}] /\ room' = [room EXCEPT ![w] = r]
        /\ processed' = [processed EXCEPT ![w] = processed[w] \cup {r}]
    BY <1>4 DEF StartRoom
  <2>2. servicePc = "listen"
    BY <2>1, ListensInTick DEF InHand
  <2>3. UNCHANGED <<Queue, Extra>>
    BY <2>1 DEF mainVars, tickKeys, QueueTime, Queue, Extra
  <2>4. held'[w] = held[w] \ {r} /\ room'[w] = r /\ Kept(w)' = Kept(w) \cup {r} /\ unmarked'[w] = unmarked[w]
    BY <1>1, <2>1, <2>2 DEF TypeWorkers, TypeFinalize, Kept
  <2>5. \A v \in Workers : v # w =>
          held'[v] = held[v] /\ room'[v] = room[v] /\ Kept(v)' = Kept(v) /\ unmarked'[v] = unmarked[v]
    BY <1>1, <2>1, <2>2 DEF TypeWorkers, TypeFinalize, Kept
  <2>6. Mine(w)' = Mine(w)
    BY <2>1, <2>4 DEF Mine
  <2>7. \A v \in Workers : v # w => Mine(v)' = Mine(v)
    BY <2>5 DEF Mine
  <2>8. /\ held'[w] \cap Kept(w)' = {} /\ held'[w] \cap unmarked'[w] = {} /\ Kept(w)' \cap unmarked'[w] = {}
        /\ room'[w] # Null => room'[w] \in Kept(w)'
    BY <1>1, <2>1, <2>4 DEF Apart
  <2>9. \A v \in Workers :
          /\ held'[v] \cap Kept(v)' = {} /\ held'[v] \cap unmarked'[v] = {} /\ Kept(v)' \cap unmarked'[v] = {}
          /\ room'[v] # Null => room'[v] \in Kept(v)'
    BY <1>1, <2>5, <2>8 DEF Apart
  <2>10. \A v \in Workers : Mine(v)' = Mine(v)
    BY <2>6, <2>7
  <2> QED BY <1>1, <2>3, <2>9, <2>10 DEF Apart
<1>5. ASSUME NEW targets \in SUBSET Rooms, SendIntents(w, targets) PROVE Apart'
  <2> DEFINE fresh == targets \ TickRooms
  <2>1. unmarked' = [unmarked EXCEPT ![w] = fresh] /\ UNCHANGED <<Queue, Extra>>
    BY <1>1, <1>5, SendIntentsKeys
  <2>2. UNCHANGED <<held, room, finalizeVars>> /\ workerPc[w] = "send"
    BY <1>5 DEF SendIntents
  <2>3. Pending # Null
    <3>1. InHand(w) # {}
      BY <1>1, <2>2 DEF WorkerShape, InHand
    <3> QED BY <3>1, ListensInTick
  <2>4. fresh \cap Queue = {} /\ fresh \cap Extra = {} /\ \A v \in Workers : fresh \cap Mine(v) = {}
    BY <2>3 DEF Barriers, Accounted
  <2>5. \A v \in Workers : Kept(v)' = Kept(v)
    BY <2>2 DEF Kept, finalizeVars
  <2> HIDE DEF fresh
  <2>6. \A v \in Workers : unmarked'[v] = IF v = w THEN fresh ELSE unmarked[v]
    BY <1>1, <2>1 DEF TypeWorkers
  <2> QED BY <1>1, <2>1, <2>2, <2>4, <2>5, <2>6 DEF Apart, Mine
<1>6. CASE MarkExtraRooms(w)
  <2>1. Extra' = Extra \cup unmarked[w] /\ Queue' = Queue
    BY <1>1, <1>6, MarkExtraRoomsKeys
  <2>2. unmarked' = [unmarked EXCEPT ![w] = {}] /\ UNCHANGED <<held, room, finalizeVars>>
    BY <1>6 DEF MarkExtraRooms
  <2>3. \A v \in Workers : Kept(v)' = Kept(v)
    BY <2>2 DEF Kept, finalizeVars
  <2>4. \A v \in Workers : unmarked'[v] = IF v = w THEN {} ELSE unmarked[v]
    BY <1>1, <2>2 DEF TypeWorkers
  <2> QED BY <1>1, <2>1, <2>2, <2>3, <2>4 DEF Apart, Mine
<1>7. CASE RoomDidProcess(w) \/ AnnounceFinalize(w)
  <2>1. UNCHANGED <<Queue, Extra>>
    BY <1>1, <1>7, RoomDidProcessKeys, AnnounceFinalizeKeys
  <2>2. UNCHANGED <<held, unmarked, finalizeVars>> /\ \A v \in Workers : room'[v] \in {room[v], Null}
    BY <1>1, <1>7 DEF RoomDidProcess, AnnounceFinalize, TypeWorkers
  <2>3. \A v \in Workers : Kept(v)' = Kept(v)
    BY <2>2 DEF Kept, finalizeVars
  <2> QED BY <1>1, <2>1, <2>2, <2>3, ApartFrame
<1>8. CASE DrainEnds(w) \/ WorkerSleeps(w)
  <2>1. UNCHANGED <<held, room, unmarked, finalizeVars, mainVars, tickKeys>>
    BY <1>8 DEF DrainEnds, WorkerSleeps
  <2>2. \A v \in Workers : Kept(v)' = Kept(v)
    BY <2>1 DEF Kept, finalizeVars
  <2>3. UNCHANGED <<Queue, Extra>>
    BY <2>1 DEF mainVars, tickKeys, QueueTime, Queue, Extra
  <2> QED BY <1>1, <2>1, <2>2, <2>3, ApartFrame
<1> QED BY <1>3, <1>4, <1>5, <1>6, <1>7, <1>8 DEF Worker

(* no room gets to be in two places *)
LEMMA ApartStep ==
  ASSUME TypeOK, Clocks, Barriers, [Next]_vars
  PROVE  Apart'
<1>1. Apart /\ OthersQuiet /\ MainStages /\ Phases
  BY DEF Barriers
<1>2. CASE BegetRoomProcessQueue
  <2>1. /\ Extra' = {} /\ \A w \in Workers : held[w] = {} /\ room[w] = Null /\ unmarked[w] = {} /\ Kept(w) = {}
    BY <1>2, BegetAfterTick, BegetKeys
  <2>2. UNCHANGED <<loopVars, finalizeVars>>
    BY <1>2 DEF BegetRoomProcessQueue
  <2> QED BY <2>1, <2>2 DEF Apart, Mine, Kept, loopVars, finalizeVars
<1>3. CASE MainSide \/ RunnerSide
  <2>1. UNCHANGED loopVars
    BY <1>3, MainFrame, RunnerFrame
  <2>2. BegetRoomProcessQueue \/ UNCHANGED <<Queue, Extra>>
    BY <1>1, <1>3, MainKeys, RunnerKeys DEF keyView
  <2>3. \A v \in Workers : Kept(v)' = Kept(v)
    BY <1>3, KeptSame
  <2> QED BY <1>1, <1>2, <2>1, <2>2, <2>3, ApartFrame DEF loopVars
<1>4. CASE Service
  <2>1. UNCHANGED <<held, room, unmarked, mainVars, tickKeys>>
    BY <1>4 DEF Service, HandleProcess, HandleFinalize, FinishFinalize, loopVars
  <2>2. UNCHANGED <<Queue, Extra>>
    BY <2>1 DEF mainVars, tickKeys, QueueTime, Queue, Extra
  <2>3. \A v \in Workers : Kept(v)' = Kept(v)
    BY <1>4, KeptSame
  <2> QED BY <1>1, <2>1, <2>2, <2>3, ApartFrame
<1>5. CASE \E w \in Workers : Worker(w)
  BY <1>5, ApartOfWorkers
<1>6. ASSUME NEW w \in Workers, NEW r \in Rooms, FinalizeRoom(w, r) \/ FinalizeExtraRoom(w, r) PROVE Apart'
  <2>1. /\ Undone = {} /\ Extra' = Extra \ {r} /\ Queue' = Queue /\ UNCHANGED loopVars
        /\ \A v \in Workers : Kept(v)' = Kept(v) \ {r}
    BY <1>6, FinalizeTakes
  <2>2. \A v \in Workers : room[v] = Null
    BY <2>1, NoneInHand
  <2> QED BY <1>1, <2>1, <2>2 DEF Apart, Mine, loopVars
<1>7. ASSUME NEW w \in Workers, RoomsDidFinalize(w) PROVE Apart'
  <2>1. UNCHANGED <<Queue, Extra>>
    BY <1>1, <1>7, RoomsDidFinalizeKeys
  <2>2. UNCHANGED <<loopVars, servicePc, processed, unfinalized>>
    BY <1>7 DEF RoomsDidFinalize
  <2> QED BY <1>1, <2>1, <2>2, ApartFrame DEF Kept, loopVars
<1> QED BY <1>3, <1>4, <1>5, <1>6, <1>7, Sides DEF ProcessorSide, Finalize

(* a step that takes no room out of the tick and brings none in *)
LEMMA AccountedFrame ==
  ASSUME Accounted, UNCHANGED <<Pending, Remaining, TickRooms, finalIntents>>,
         QueueTime' # tickTime' => QueueTime # tickTime,
         Pending = Null => Unfinalized' = Unfinalized,
         \A r \in Rooms : (r \in Queue' \/ r \in Extra' \/ \E w \in Workers : r \in Mine(w)')
                       <=> (r \in Queue \/ r \in Extra \/ \E w \in Workers : r \in Mine(w))
  PROVE  Accounted'
BY DEF Accounted

(* a worker's own steps keep the rooms of the tick accounted for *)
LEMMA AccountedOfWorkers ==
  ASSUME TypeOK, Clocks, Barriers, [Next]_vars, NEW w \in Workers, Worker(w)
  PROVE  Accounted'
<1>1. /\ Accounted /\ TypeWorkers /\ TypeFinalize /\ OthersQuiet /\ MainStages /\ WorkerShape
      /\ UNCHANGED <<tickTime, QueueTime>>
  BY ProcessorFrame DEF TypeOK, Barriers, ProcessorSide, mainVars, QueueTime
<1>2. \A x : x \in Unfinalized <=> x \in Extra \/ \E v \in Workers : x \in Kept(v)
  BY UnfinalizedMembers
<1>3. \A x : x \in Unfinalized' <=> x \in Extra' \/ \E v \in Workers : x \in Kept(v)'
  BY DEF Unfinalized, Extra, Kept
<1>4. ASSUME UNCHANGED <<Pending, Remaining, TickRooms, Extra, Queue, held, unmarked, finalIntents, finalizeVars>>
      PROVE  Accounted'
  <2>1. \A v \in Workers : Kept(v)' = Kept(v) /\ Mine(v)' = Mine(v)
    BY <1>4 DEF Kept, Mine, finalizeVars
  <2>2. Unfinalized' = Unfinalized
    BY <1>2, <1>3, <1>4, <2>1
  <2> QED BY <1>1, <1>4, <2>1, <2>2, AccountedFrame
<1>5. ASSUME NEW r \in Rooms, PopRoom(w, r) PROVE Accounted'
  <2>1. r \in Queue /\ Queue' = Queue \ {r} /\ UNCHANGED <<Pending, Remaining, TickRooms, Extra>>
    BY <1>1, <1>5, PopRoomKeys
  <2>2. held' = [held EXCEPT ![w] = held[w] \cup {r}] /\ UNCHANGED <<unmarked, finalIntents, finalizeVars>>
    BY <1>5 DEF PopRoom, lists
  <2>3. \A v \in Workers : Kept(v)' = Kept(v)
    BY <2>2 DEF Kept, finalizeVars
  <2>4. Mine(w)' = Mine(w) \cup {r} /\ \A v \in Workers : v # w => Mine(v)' = Mine(v)
    BY <1>1, <2>2, <2>3 DEF Mine, TypeWorkers
  <2>5. Unfinalized' = Unfinalized
    BY <1>2, <1>3, <2>1, <2>3
  <2>6. \A x \in Rooms : (x \in Queue' \/ x \in Extra' \/ \E v \in Workers : x \in Mine(v)')
                      <=> (x \in Queue \/ x \in Extra \/ \E v \in Workers : x \in Mine(v))
    BY <2>1, <2>4
  <2> QED BY <1>1, <2>1, <2>2, <2>5, <2>6, AccountedFrame
<1>6. ASSUME NEW r \in Rooms, StartRoom(w, r) PROVE Accounted'
  <2>1. /\ r \in held[w] /\ UNCHANGED <<unmarked, servicePc, finalIntents, mainVars, tickKeys>>
        /\ held' = [held EXCEPT ![w] = held[w] \ {r}]
        /\ processed' = [processed EXCEPT ![w] = processed[w] \cup {r}]
    BY <1>6 DEF StartRoom
  <2>2. Pending # Null /\ servicePc = "listen"
    BY <2>1, ListensInTick DEF InHand
  <2>3. UNCHANGED <<Queue, Pending, Remaining, TickRooms, Extra>>
    BY <2>1 DEF mainVars, tickKeys, QueueTime, Queue, Pending, Remaining, TickRooms, Extra
  <2>4. Mine(w)' = Mine(w) /\ \A v \in Workers : v # w => Mine(v)' = Mine(v)
    BY <1>1, <2>1, <2>2 DEF Mine, Kept, TypeWorkers, TypeFinalize
  <2>5. \A v \in Workers : Mine(v)' = Mine(v)
    BY <2>4
  <2> QED BY <1>1, <2>1, <2>2, <2>3, <2>5, AccountedFrame
<1>7. workerPc[w] \in {"send", "mark", "decr"} => Pending # Null /\ QueueTime = tickTime
  <2>1. workerPc[w] \in {"send", "mark", "decr"} => InHand(w) # {}
    BY <1>1 DEF WorkerShape, InHand
  <2> QED BY <2>1, ListensInTick
<1>8. ASSUME NEW targets \in SUBSET Rooms, SendIntents(w, targets) PROVE Accounted'
  <2> DEFINE fresh == targets \ TickRooms
  <2>1. /\ unmarked' = [unmarked EXCEPT ![w] = fresh] /\ TickRooms' = TickRooms \cup targets
        /\ UNCHANGED <<Queue, Pending, Extra>>
    BY <1>1, <1>8, SendIntentsKeys
  <2>2. UNCHANGED <<held, finalizeVars>> /\ workerPc[w] = "send" /\ finalIntents' = finalIntents \cup targets
    BY <1>8 DEF SendIntents
  <2>3. Pending # Null /\ QueueTime = tickTime
    BY <1>7, <2>2
  <2>4. unmarked[w] = {} /\ \A v \in Workers : Kept(v)' = Kept(v)
    BY <1>1, <2>2 DEF Kept, finalizeVars, WorkerShape
  <2>5. Mine(w)' = Mine(w) \cup fresh /\ \A v \in Workers : v # w => Mine(v)' = Mine(v)
    BY <1>1, <2>1, <2>2, <2>4 DEF Mine, TypeWorkers
  <2>6. TickRooms = {r \in Rooms : r \in Queue \/ r \in Extra \/ \E v \in Workers : r \in Mine(v)}
        /\ finalIntents \subseteq TickRooms
    BY <1>1, <2>3 DEF Accounted
  <2>7. \A r : r \in TickRooms' <=> r \in TickRooms \/ r \in fresh
    BY <2>1
  <2> HIDE DEF fresh
  <2>8. \A r : (\E v \in Workers : r \in Mine(v)') <=> (r \in fresh \/ \E v \in Workers : r \in Mine(v))
    BY <2>5
  <2>9. TickRooms' \subseteq Rooms
    BY <2>1, <2>6
  <2>10. TickRooms' = {r \in Rooms : r \in Queue' \/ r \in Extra' \/ \E v \in Workers : r \in Mine(v)'}
    BY <2>1, <2>6, <2>7, <2>8, <2>9
  <2> QED BY <1>1, <2>1, <2>2, <2>3, <2>6, <2>10 DEF Accounted
<1>9. CASE MarkExtraRooms(w)
  <2>1. Extra' = Extra \cup unmarked[w] /\ UNCHANGED <<Queue, Pending, Remaining, TickRooms>>
    BY <1>1, <1>9, MarkExtraRoomsKeys
  <2>2. /\ unmarked' = [unmarked EXCEPT ![w] = {}] /\ UNCHANGED <<held, finalIntents, finalizeVars>>
        /\ workerPc[w] = "mark"
    BY <1>9 DEF MarkExtraRooms, lists
  <2>3. Pending # Null
    BY <1>7, <2>2
  <2>4. \A v \in Workers : Kept(v)' = Kept(v)
    BY <2>2 DEF Kept, finalizeVars
  <2>5. Mine(w) = Mine(w)' \cup unmarked[w] /\ \A v \in Workers : v # w => Mine(v)' = Mine(v)
    BY <1>1, <2>2, <2>4 DEF Mine, TypeWorkers
  <2>6. \A r \in Rooms : (r \in Queue' \/ r \in Extra' \/ \E v \in Workers : r \in Mine(v)')
                      <=> (r \in Queue \/ r \in Extra \/ \E v \in Workers : r \in Mine(v))
    BY <2>1, <2>5
  <2> QED BY <1>1, <2>1, <2>2, <2>3, <2>6, AccountedFrame
<1>10. CASE RoomDidProcess(w)
  <2>1. Pending' = DecrBy(Pending, 1) /\ UNCHANGED <<Queue, Remaining, TickRooms, Extra>>
    BY <1>1, <1>10, RoomDidProcessKeys
  <2>2. UNCHANGED <<held, unmarked, finalIntents, finalizeVars>> /\ workerPc[w] = "decr"
    BY <1>10 DEF RoomDidProcess, lists
  <2>3. Pending # Null
    BY <1>7, <2>2
  <2>4. Pending' # Null
    <3>1. Pending \in Score
      BY <1>1, QueueTimeType DEF Pending, TypeOK, TypeStore
    <3> QED BY <2>1, <3>1, DecrType, NullAssumption
  <2>5. \A v \in Workers : Mine(v)' = Mine(v)
    BY <2>2 DEF Kept, Mine, finalizeVars
  <2> QED BY <1>1, <2>1, <2>2, <2>3, <2>4, <2>5 DEF Accounted
<1>11. CASE AnnounceFinalize(w)
  <2>1. /\ Remaining' = Cardinality(TickRooms) /\ TickRooms' = {} /\ Pending' = Null
        /\ UNCHANGED <<Queue, Extra>>
    BY <1>1, <1>11, AnnounceFinalizeKeys
  <2>2. Pending # Null /\ Undone = {}
    BY <1>11, UndoneType, NullAssumption DEF AnnounceFinalize, Barriers, Countdown
  <2>3. Remaining' # Null
    <3>1. QueueTime \in Times
      BY <1>1, QueueTimeType
    <3> QED BY <2>1, <3>1, RoomsCardType, NullAssumption DEF TickRooms, TypeOK, TypeStore
  <2>4. UNCHANGED <<finalizeVars, finalIntents>>
    BY <1>11 DEF AnnounceFinalize, lists
  <2>5. \A v \in Workers : Kept(v)' = Kept(v) /\ Mine(v) = Kept(v)
    BY <2>2, <2>4, NoneInHand DEF Kept, Mine, finalizeVars
  <2>6. Queue = {}
    BY <2>2, NoneInHand
  <2>7. finalIntents \subseteq Unfinalized'
    BY <1>1, <1>3, <2>1, <2>2, <2>5, <2>6 DEF Accounted
  <2> QED BY <1>1, <2>1, <2>3, <2>4, <2>7 DEF Accounted
<1>12. CASE DrainEnds(w) \/ WorkerSleeps(w)
  <2>1. UNCHANGED <<held, unmarked, finalIntents, finalizeVars, mainVars, tickKeys>>
    BY <1>12 DEF DrainEnds, WorkerSleeps, lists
  <2> QED BY <1>4, <2>1 DEF mainVars, tickKeys, QueueTime, Queue, Pending, Remaining, TickRooms, Extra
<1> QED BY <1>5, <1>6, <1>8, <1>9, <1>10, <1>11, <1>12 DEF Worker

(* every room of the tick stays accounted for until it is finalized *)
LEMMA AccountedStep ==
  ASSUME TypeOK, Clocks, Barriers, [Next]_vars
  PROVE  Accounted'
<1>1. Accounted /\ OthersQuiet /\ MainStages /\ Phases
  BY DEF Barriers
<1>2. \A x : x \in Unfinalized <=> x \in Extra \/ \E v \in Workers : x \in Kept(v)
  BY UnfinalizedMembers
<1>3. \A x : x \in Unfinalized' <=> x \in Extra' \/ \E v \in Workers : x \in Kept(v)'
  BY DEF Unfinalized, Extra, Kept
<1>4. ASSUME UNCHANGED <<keyView, held, unmarked, finalIntents>>, \A v \in Workers : Kept(v)' = Kept(v),
             QueueTime' # tickTime' => QueueTime # tickTime
      PROVE  Accounted'
  <2>1. UNCHANGED <<Queue, Pending, Remaining, TickRooms, Extra>> /\ \A v \in Workers : Mine(v)' = Mine(v)
    BY <1>4 DEF keyView, Mine
  <2>2. Unfinalized' = Unfinalized
    BY <1>2, <1>3, <1>4, <2>1
  <2> QED BY <1>1, <1>4, <2>1, <2>2, AccountedFrame
<1>5. CASE BegetRoomProcessQueue
  <2>1. /\ TickRooms' = Queue' /\ Extra' = {} /\ Remaining' = Null /\ Queue' \subseteq Rooms
        /\ Pending' = IF Queue' = {} THEN Null ELSE Cardinality(Queue')
    BY <1>5, BegetKeys
  <2>2. finalIntents = {} /\ \A w \in Workers : held[w] = {} /\ unmarked[w] = {} /\ Kept(w) = {}
    BY <1>5, BegetAfterTick
  <2>3. UNCHANGED <<loopVars, finalizeVars, finalIntents>>
    BY <1>5 DEF BegetRoomProcessQueue, lists
  <2>4. \A w \in Workers : Kept(w)' = {} /\ Mine(w)' = {}
    BY <2>2, <2>3 DEF Kept, Mine, loopVars, finalizeVars
  <2>5. Unfinalized' = {}
    BY <1>3, <2>1, <2>4
  <2>6. Cardinality(Queue') # Null
    BY <2>1, RoomsCardType, NullAssumption
  <2>7. TickRooms' = {r \in Rooms : r \in Queue' \/ r \in Extra' \/ \E w \in Workers : r \in Mine(w)'}
    BY <2>1, <2>4
  <2> QED BY <2>1, <2>2, <2>3, <2>5, <2>6, <2>7 DEF Accounted
<1>6. CASE (MainSide \/ RunnerSide) /\ ~BegetRoomProcessQueue
  <2>1. UNCHANGED keyView
    BY <1>1, <1>6, MainKeys, RunnerKeys
  <2>2. UNCHANGED <<held, unmarked, finalIntents>>
    BY <1>6, MainFrame, RunnerFrame DEF loopVars, lists
  <2>3. \A v \in Workers : Kept(v)' = Kept(v)
    BY <1>6, KeptSame
  <2>4. QueueTime' # tickTime' => QueueTime # tickTime
    <3>1. UNCHANGED mainVars \/ MainSide
      BY <1>6, RunnerFrame
    <3>2. CASE UNCHANGED tickTime
      BY <2>1, <3>2 DEF keyView
    <3>3. CASE StartTick
      BY <3>3 DEF StartTick, QueueTime
    <3> QED
      BY <1>6, <3>1, <3>2, <3>3
         DEF MainSide, Main, PublishRun, HandleRunnerConnected, HandleTickFinished, AdvanceTime, EndTick,
             AbandonIntents, PublishAbandoned, mainVars
  <2> QED BY <1>4, <2>1, <2>2, <2>3, <2>4
<1>7. CASE Service
  <2>1. UNCHANGED <<held, unmarked, finalIntents, mainVars, tickKeys>>
    BY <1>7 DEF Service, HandleProcess, HandleFinalize, FinishFinalize, loopVars, lists
  <2>2. UNCHANGED <<keyView, tickTime>>
    BY <2>1 DEF mainVars, tickKeys, keyView, QueueTime, Queue, Pending, Remaining, TickRooms, Extra
  <2>3. \A v \in Workers : Kept(v)' = Kept(v)
    BY <1>7, KeptSame
  <2>4. QueueTime' # tickTime' => QueueTime # tickTime
    BY <2>2 DEF keyView
  <2> QED BY <1>4, <2>1, <2>2, <2>3, <2>4
<1>8. CASE \E w \in Workers : Worker(w)
  BY <1>8, AccountedOfWorkers
<1>9. ASSUME NEW w \in Workers, NEW r \in Rooms, FinalizeRoom(w, r) \/ FinalizeExtraRoom(w, r) PROVE Accounted'
  <2>1. /\ Pending = Null /\ Remaining # Null
        /\ Unfinalized' = Unfinalized \ {r} /\ finalIntents' = finalIntents \ {r}
        /\ UNCHANGED <<mainVars, QueueTime, Pending, Remaining, TickRooms>>
    BY <1>9, FinalizeTakes
  <2> QED BY <1>1, <2>1 DEF Accounted, mainVars
<1>10. ASSUME NEW w \in Workers, RoomsDidFinalize(w) PROVE Accounted'
  <2> DEFINE left == DecrBy(Remaining, finalizeCount[w])
  <2>1. UNCHANGED <<QueueTime, Queue, Pending, TickRooms, Extra>> /\ Remaining' = IF left = 0 THEN Null ELSE left
    BY <1>1, <1>10, RoomsDidFinalizeKeys
  <2>2. left = 0 => Unfinalized = {}
    BY <1>10, ReportTally
  <2>3. UNCHANGED <<servicePc, processed, unfinalized, finalIntents, mainVars>> /\ finalizePc[w] = "work"
    BY <1>10 DEF RoomsDidFinalize, lists
  <2>4. Remaining # Null /\ Pending = Null
    BY <2>3 DEF Barriers, Phases, OnePhase, FinalizeLoop
  <2>5. left # Null
    <3>1. finalizeCount[w] \in Int /\ QueueTime \in Times
      BY <1>1, QueueTimeType DEF TypeOK, TypeFinalize
    <3>2. Remaining \in Score
      BY <3>1 DEF Remaining, TypeOK, TypeStore
    <3> QED BY <3>1, <3>2, DecrType, NullAssumption
  <2>6. Unfinalized' = Unfinalized
    BY <1>2, <1>3, <2>1, <2>3 DEF Kept
  <2> HIDE DEF left
  <2> QED BY <1>1, <2>1, <2>2, <2>3, <2>4, <2>5, <2>6 DEF Accounted, mainVars
<1> QED BY <1>5, <1>6, <1>7, <1>8, <1>9, <1>10, Sides DEF ProcessorSide, Finalize

(* a step that finalizes nothing and reports nothing *)
LEMMA TalliedFrame ==
  ASSUME Tallied, UNCHANGED <<Remaining, Extra, finalizePc, finalizeCount>>, \A v \in Workers : Kept(v)' = Kept(v)
  PROVE  Tallied'
<1>1. Unfinalized' = Unfinalized
  <2>1. \A x : x \in Unfinalized' <=> x \in Extra' \/ \E v \in Workers : x \in Kept(v)'
    BY DEF Unfinalized, Extra, Kept
  <2> QED BY <2>1, UnfinalizedMembers
<1>2. ASSUME NEW F \in [Workers -> SUBSET Rooms], Tally(F) PROVE Tally(F)'
  BY <1>1, <1>2 DEF Tally
<1> QED BY <1>2 DEF Tallied

(* when nobody has finalized anything there is nothing to report but the rooms themselves *)
LEMMA TallyOfNone ==
  ASSUME Remaining' = Cardinality(Unfinalized'),
         \A w \in Workers : finalizePc'[w] = "work" => finalizeCount'[w] = 0 /\ Kept(w)' # {}
  PROVE  Tallied'
<1> DEFINE F == [w \in Workers |-> {}]
<1>1. F \in [Workers -> SUBSET Rooms] /\ \A w \in Workers : F[w] = {}
  OBVIOUS
<1>2. Unfinalized' \cup UNION {F[w] : w \in Workers} = Unfinalized'
  BY <1>1
<1> HIDE DEF F
<1>3. Cardinality({}) = 0
  BY FS_EmptySet
<1>4. \A w \in Workers : finalizePc'[w] = "work" => Cardinality(F[w]) = finalizeCount'[w] /\ F[w] \cup Kept(w)' # {}
  BY <1>1, <1>3
<1>5. Tally(F)'
  BY <1>1, <1>2, <1>4 DEF Tally
<1> QED BY <1>1, <1>5 DEF Tallied

(* a finalized room is counted by the worker that finalized it *)
LEMMA TalliedOfFinalize ==
  ASSUME TypeOK, Clocks, Barriers, NEW w \in Workers, NEW r \in Rooms, FinalizeRoom(w, r) \/ FinalizeExtraRoom(w, r)
  PROVE  Tallied'
<1>1. /\ finalizePc[w] = "work" /\ Remaining # Null /\ r \in Unfinalized
      /\ \A v \in Workers : Kept(v)' = Kept(v) \ {r}
      /\ Unfinalized' = Unfinalized \ {r}
      /\ finalizeCount' = [finalizeCount EXCEPT ![w] = finalizeCount[w] + 1]
      /\ UNCHANGED <<Remaining, finalizePc>>
  BY FinalizeTakes
<1>2. PICK F \in [Workers -> SUBSET Rooms] : Tally(F)
  BY <1>1 DEF Barriers, Tallied
<1> DEFINE G == [F EXCEPT ![w] = F[w] \cup {r}]
<1>3. G \in [Workers -> SUBSET Rooms] /\ G[w] = F[w] \cup {r} /\ \A v \in Workers : v # w => G[v] = F[v]
  OBVIOUS
<1>4. \A v \in Workers : r \notin F[v]
  BY <1>1, <1>2 DEF Tally
<1>5. Cardinality(G[w]) = finalizeCount'[w]
  <2>1. IsFiniteSet(F[w]) /\ Cardinality(F[w]) = finalizeCount[w]
    BY <1>1, <1>2, FS_Subset, TickAssumption DEF Tally
  <2>2. Cardinality(F[w] \cup {r}) = Cardinality(F[w]) + 1
    BY <1>4, <2>1, FS_AddElement
  <2> QED BY <1>1, <1>3, <2>1, <2>2 DEF TypeOK, TypeFinalize
<1>6. \A v \in Workers : v # w => finalizeCount'[v] = finalizeCount[v]
  BY <1>1 DEF TypeOK, TypeFinalize
<1>7. Unfinalized' \cup UNION {G[v] : v \in Workers} = Unfinalized \cup UNION {F[v] : v \in Workers}
  <2>1. \A x : (\E v \in Workers : x \in G[v]) <=> (x = r \/ \E v \in Workers : x \in F[v])
    BY <1>3
  <2>2. \A x : x \in UNION {G[v] : v \in Workers} <=> \E v \in Workers : x \in G[v]
    OBVIOUS
  <2>3. \A x : x \in UNION {F[v] : v \in Workers} <=> \E v \in Workers : x \in F[v]
    OBVIOUS
  <2> HIDE DEF G
  <2> QED BY <1>1, <2>1, <2>2, <2>3
<1> HIDE DEF G
<1>8. \A v \in Workers : finalizePc'[v] = "work" => Cardinality(G[v]) = finalizeCount'[v] /\ G[v] \cup Kept(v)' # {}
  <2>1. ASSUME NEW v \in Workers, v # w, finalizePc[v] = "work"
        PROVE  Cardinality(G[v]) = finalizeCount'[v] /\ G[v] \cup Kept(v)' # {}
    <3>1. r \notin Kept(v)
      BY <2>1, FinalizeTakes DEF Barriers, Apart, Mine
    <3> QED BY <1>1, <1>2, <1>3, <1>6, <2>1, <3>1 DEF Tally
  <2> QED BY <1>1, <1>3, <1>5, <2>1
<1>9. \A v \in Workers : (finalizePc'[v] # "work" => G[v] = {}) /\ G[v] \cap Unfinalized' = {}
  BY <1>1, <1>2, <1>3 DEF Tally
<1>10. \A u, v \in Workers : u # v => G[u] \cap G[v] = {}
  BY <1>2, <1>3, <1>4 DEF Tally
<1>11. Remaining' = Cardinality(Unfinalized' \cup UNION {G[v] : v \in Workers})
  BY <1>1, <1>2, <1>7 DEF Tally
<1>12. Tally(G)'
  BY <1>8, <1>9, <1>10, <1>11 DEF Tally
<1> QED BY <1>3, <1>12 DEF Tallied

(* what remains of a finalization is the rooms that are not finalized and those not yet reported *)
LEMMA TalliedStep ==
  ASSUME TypeOK, Clocks, Barriers, [Next]_vars
  PROVE  Tallied'
<1>1. Tallied /\ OthersQuiet /\ MainStages /\ WorkerShape /\ Phases /\ Apart
  BY DEF Barriers
<1>2. ASSUME Remaining' = Null PROVE Tallied'
  BY <1>2 DEF Tallied
<1>3. CASE MainSide \/ RunnerSide
  <2>1. UNCHANGED <<finalizePc, finalizeCount>> /\ \A v \in Workers : Kept(v)' = Kept(v)
    BY <1>3, MainFrame, RunnerFrame, KeptSame DEF finalizeVars
  <2>2. (BegetRoomProcessQueue /\ Remaining' = Null) \/ UNCHANGED <<Remaining, Extra>>
    BY <1>1, <1>3, MainKeys, RunnerKeys, BegetKeys DEF keyView
  <2> QED BY <1>1, <1>2, <2>1, <2>2, TalliedFrame
<1>4. CASE HandleProcess
  <2>1. UNCHANGED <<finalizePc, finalizeCount, mainVars, tickKeys>> /\ \A v \in Workers : Kept(v)' = Kept(v)
    BY <1>4, KeptSame DEF HandleProcess, finalizeVars, Service
  <2> QED BY <1>1, <2>1, TalliedFrame DEF mainVars, tickKeys, QueueTime, Remaining, Extra
<1>5. ASSUME HandleFinalize \/ FinishFinalize
      PROVE  UNCHANGED Remaining /\ Unfinalized' = Unfinalized
  <2>1. UNCHANGED <<mainVars, tickKeys>> /\ \A v \in Workers : Kept(v)' = Kept(v)
    BY <1>5, KeptSame DEF HandleFinalize, FinishFinalize, Service
  <2>2. UNCHANGED <<Remaining, Extra>>
    BY <2>1 DEF mainVars, tickKeys, QueueTime, Remaining, Extra
  <2>3. \A x : x \in Unfinalized' <=> x \in Extra' \/ \E v \in Workers : x \in Kept(v)'
    BY DEF Unfinalized, Extra, Kept
  <2> QED BY <2>1, <2>2, <2>3, UnfinalizedMembers
<1>6. ASSUME Remaining # Null, \A w \in Workers : finalizePc[w] # "work" PROVE Remaining = Cardinality(Unfinalized)
  <2>1. PICK F \in [Workers -> SUBSET Rooms] : Tally(F)
    BY <1>1, <1>6 DEF Tallied
  <2>2. Unfinalized \cup UNION {F[w] : w \in Workers} = Unfinalized
    BY <1>6, <2>1 DEF Tally
  <2> QED BY <2>1, <2>2 DEF Tally
<1>7. CASE FinishFinalize
  <2>1. \A w \in Workers : finalizePc[w] # "work" /\ finalizePc'[w] # "work"
    BY <1>7 DEF FinishFinalize
  <2>2. CASE Remaining' # Null
    <3>1. Remaining' = Cardinality(Unfinalized')
      BY <1>5, <1>6, <1>7, <2>1, <2>2
    <3> QED BY <2>1, <3>1, TallyOfNone
  <2> QED BY <1>2, <2>2
<1>8. CASE HandleFinalize
  <2>1. Remaining # Null
    BY <1>8, FinalizeIsCurrent
  <2>2. \A w \in Workers : finalizePc[w] # "work"
    BY <1>1, <1>8 DEF HandleFinalize, Phases, FinalizeLoop
  <2>3. Remaining' = Cardinality(Unfinalized')
    BY <1>5, <1>6, <1>8, <2>1, <2>2
  <2>4. \A w \in Workers : finalizePc'[w] = "work" => finalizeCount'[w] = 0 /\ Kept(w)' # {}
    BY <1>8 DEF HandleFinalize, Kept
  <2> QED BY <2>3, <2>4, TallyOfNone
<1>9. ASSUME NEW w \in Workers, AnnounceFinalize(w) PROVE Tallied'
  <2>1. Remaining' = Cardinality(TickRooms) /\ UNCHANGED <<Queue, Extra>>
    BY <1>1, <1>9, AnnounceFinalizeKeys
  <2>2. UNCHANGED finalizeVars
    BY <1>9 DEF AnnounceFinalize
  <2>3. Pending # Null /\ Undone = {}
    BY <1>9, UndoneType, NullAssumption DEF AnnounceFinalize, Barriers, Countdown
  <2>4. Queue = {} /\ \A v \in Workers : Mine(v) = Kept(v)
    BY <2>3, NoneInHand DEF Mine
  <2>5. \A v \in Workers : Kept(v)' = Kept(v) /\ Kept(v) \subseteq Rooms
    BY <2>2 DEF Kept, finalizeVars, TypeOK, TypeFinalize
  <2>6. Unfinalized' = TickRooms
    <3>1. \A x : x \in Unfinalized' <=> x \in Extra' \/ \E v \in Workers : x \in Kept(v)'
      BY DEF Unfinalized, Extra, Kept
    <3>2. TickRooms = {r \in Rooms : r \in Queue \/ r \in Extra \/ \E v \in Workers : r \in Mine(v)}
      BY <2>3 DEF Barriers, Accounted
    <3>3. Extra \subseteq Rooms
      BY <1>1, QueueTimeType DEF Extra, TypeOK, TypeStore
    <3> QED BY <2>1, <2>4, <2>5, <3>1, <3>2, <3>3
  <2>7. \A v \in Workers : finalizePc'[v] # "work"
    <3>1. Remaining = Null
      BY <2>3 DEF Barriers, Phases, OnePhase
    <3> QED BY <1>1, <2>2, <3>1 DEF Phases, FinalizeLoop, finalizeVars
  <2> QED BY <2>1, <2>6, <2>7, TallyOfNone
<1>10. ASSUME NEW w \in Workers, Worker(w), ~AnnounceFinalize(w) PROVE Tallied'
  <2>1. UNCHANGED <<finalizePc, finalizeCount, mainVars, finalizePending>>
    BY <1>10 DEF Worker, PopRoom, StartRoom, SendIntents, MarkExtraRooms, RoomDidProcess, DrainEnds,
              WorkerSleeps, finalizeVars, tickKeys
  <2>2. UNCHANGED <<QueueTime, Remaining>>
    BY <2>1 DEF mainVars, QueueTime, Remaining
  <2>3. ASSUME InHand(w) # {} PROVE Tallied'
    BY <1>2, <2>2, <2>3, ListensInTick
  <2>4. CASE (\E r \in Rooms : StartRoom(w, r)) \/ MarkExtraRooms(w)
    BY <1>1, <2>3, <2>4 DEF StartRoom, MarkExtraRooms, WorkerShape, InHand
  <2>5. CASE ~(\E r \in Rooms : StartRoom(w, r)) /\ ~MarkExtraRooms(w)
    <3>1. UNCHANGED <<finalizeExtraRooms, servicePc, processed, unfinalized>>
      BY <1>10, <2>5 DEF Worker, PopRoom, SendIntents, RoomDidProcess, DrainEnds, WorkerSleeps, finalizeVars, tickKeys
    <3>2. UNCHANGED Extra /\ \A v \in Workers : Kept(v)' = Kept(v)
      BY <2>2, <3>1 DEF Extra, Kept
    <3> QED BY <1>1, <2>1, <2>2, <3>2, TalliedFrame
  <2> QED BY <2>4, <2>5
<1>11. ASSUME NEW w \in Workers, RoomsDidFinalize(w) PROVE Tallied'
  <2> DEFINE left == DecrBy(Remaining, finalizeCount[w])
  <2>1. UNCHANGED <<QueueTime, Extra>> /\ Remaining' = IF left = 0 THEN Null ELSE left
    BY <1>1, <1>11, RoomsDidFinalizeKeys
  <2>2. PICK G \in [Workers -> SUBSET Rooms] :
          /\ \A v \in Workers :
               /\ v # w /\ finalizePc[v] = "work" => Cardinality(G[v]) = finalizeCount[v] /\ G[v] \cup Kept(v) # {}
               /\ v = w \/ finalizePc[v] # "work" => G[v] = {}
               /\ G[v] \cap Unfinalized = {}
          /\ \A u, v \in Workers : u # v => G[u] \cap G[v] = {}
          /\ left = Cardinality(Unfinalized \cup UNION {G[v] : v \in Workers})
    BY <1>11, ReportTally
  <2> HIDE DEF left
  <2>3. /\ UNCHANGED <<servicePc, processed, unfinalized, finalizeCount>>
        /\ finalizePc' = [finalizePc EXCEPT ![w] = "done"]
    BY <1>11 DEF RoomsDidFinalize
  <2>4. \A v \in Workers : Kept(v)' = Kept(v)
    BY <2>3 DEF Kept
  <2>5. Unfinalized' = Unfinalized
    BY <2>1, <2>3 DEF Unfinalized, Extra
  <2>6. \A v \in Workers : finalizePc'[v] = IF v = w THEN "done" ELSE finalizePc[v]
    BY <2>3 DEF TypeOK, TypeFinalize
  <2>7. CASE left # 0
    <3>1. \A v \in Workers : finalizePc'[v] = "work" => Cardinality(G[v]) = finalizeCount'[v] /\ G[v] \cup Kept(v)' # {}
      BY <2>2, <2>3, <2>4, <2>6
    <3>2. \A v \in Workers : (finalizePc'[v] # "work" => G[v] = {}) /\ G[v] \cap Unfinalized' = {}
      BY <2>2, <2>5, <2>6
    <3>3. Remaining' = Cardinality(Unfinalized' \cup UNION {G[v] : v \in Workers})
      BY <2>1, <2>2, <2>5, <2>7
    <3>4. Tally(G)'
      BY <2>2, <3>1, <3>2, <3>3 DEF Tally
    <3> QED BY <3>4 DEF Tallied
  <2> QED BY <1>2, <2>1, <2>7
<1>12. CASE \E w \in Workers, r \in Rooms : FinalizeRoom(w, r) \/ FinalizeExtraRoom(w, r)
  BY <1>12, TalliedOfFinalize
<1> QED BY <1>3, <1>4, <1>7, <1>8, <1>9, <1>10, <1>11, <1>12, Sides DEF ProcessorSide, Service, Finalize
-----------------------------------------------------------------------------
(***************************************************************************)
(* The barriers hold in every state.                                       *)
(***************************************************************************)
(* every room is queued for the first tick *)
LEMMA InitBarriers == Init => Barriers
<1> SUFFICES ASSUME Init PROVE Barriers
  OBVIOUS
<1>1. QueueTime = 1 /\ 1 \in Times /\ tickTime = 0 /\ shardTime = 1 /\ mainPc = "start" /\ nextTasks = {}
  BY TickAssumption DEF Init, QueueTime, Times
<1>2. activeRooms \in SortedSet /\ ZMembers(activeRooms) = Rooms
  <2>1. \A r \in Rooms : Cardinality(users[r]) \in Int
    BY FS_Subset, FS_CardinalityType, TickAssumption DEF Init
  <2> QED BY <2>1, NullAssumption DEF Init, ZMembers, SortedSet, Score
<1>3. Queue = Rooms /\ TickRooms = Rooms /\ Extra = {} /\ Pending = Cardinality(Rooms) /\ Remaining = Null
  BY <1>1, <1>2 DEF Init, Queue, TickRooms, Extra, Pending, Remaining
<1>4. \A w \in Workers :
        /\ workerPc[w] = "idle" /\ currentTime[w] = 0 /\ pendingTime[w] = Null /\ held[w] = {} /\ room[w] = Null
        /\ unmarked[w] = {} /\ processed[w] = {} /\ unfinalized[w] = {} /\ finalizePc[w] = "none"
  BY DEF Init
<1>5. Undone = Rooms /\ \A w \in Workers : Kept(w) = {} /\ Mine(w) = {}
  BY <1>3, <1>4 DEF Undone, InHand, Kept, Mine
<1>6. Pending # Null
  BY <1>3, RoomsCardType, NullAssumption
<1>7. MainStages /\ NobodyAhead
  BY <1>1, <1>4 DEF Init, MainStages, NobodyAhead
<1>8. OthersQuiet
  BY <1>1 DEF Init, OthersQuiet, ZMembers
<1>9. WorkerShape /\ Countdown
  BY <1>3, <1>4, <1>5, <1>6 DEF WorkerShape, Countdown
<1>10. Phases
  <2>1. Announced = {} /\ Finished = {} /\ servicePc = "listen" /\ finalizedTime = 0
    BY DEF Init, Announced, Finished, OfKind
  <2> QED BY <1>1, <1>3, <1>4, <2>1
             DEF Phases, OnePhase, AnnouncedOnce, FinalizeLoop, Sole, Announced, Finished
<1>11. Apart
  BY <1>3, <1>4, <1>5 DEF Apart
<1>12. Accounted /\ Tallied
  <2>1. finalIntents = {}
    BY DEF Init
  <2>2. TickRooms = {r \in Rooms : r \in Queue \/ r \in Extra \/ \E w \in Workers : r \in Mine(w)}
    BY <1>3
  <2> QED BY <1>3, <1>6, <2>1, <2>2 DEF Accounted, Tallied
<1> QED BY <1>7, <1>8, <1>9, <1>10, <1>11, <1>12 DEF Barriers

(* no step breaks a barrier *)
LEMMA NextBarriers == TypeOK /\ Clocks /\ Barriers /\ [Next]_vars => Barriers'
<1> SUFFICES ASSUME TypeOK, Clocks, Barriers, [Next]_vars PROVE Barriers'
  OBVIOUS
<1>1. MainStages' /\ NobodyAhead'
  BY MainStagesStep, NobodyAheadStep DEF Barriers
<1>2. OthersQuiet' /\ WorkerShape' /\ Countdown'
  BY OthersQuietStep, WorkerShapeStep, CountdownStep
<1>3. OnePhase'
  BY OnePhaseOfMain, OnePhaseOfProcessors, Sides
<1>4. Phases'
  BY <1>3, AnnouncedOnceStep, FinalizeLoopStep DEF Phases
<1>5. Apart' /\ Accounted' /\ Tallied'
  BY ApartStep, AccountedStep, TalliedStep
<1> QED BY <1>1, <1>2, <1>4, <1>5 DEF Barriers

(* The types, the clocks and the barriers are an inductive invariant of the tick protocol. *)
THEOREM BarriersHold == Spec => [](TypeOK /\ Clocks /\ Barriers)
<1>1. Init => TypeOK /\ Clocks /\ Barriers
  BY InitTypes, InitBarriers
<1>2. TypeOK /\ Clocks /\ Barriers /\ [Next]_vars => (TypeOK /\ Clocks /\ Barriers)'
  BY NextTypes, NextBarriers
<1> QED BY <1>1, <1>2, PTL DEF Spec
-----------------------------------------------------------------------------
(* the rooms of a tick that are not processed are those of the countdown; no other tick has any *)
LEMMA UnprocessedOf ==
  ASSUME TypeOK, Clocks, Barriers, NEW t \in Times
  PROVE  Unprocessed(t) = IF t = QueueTime THEN Undone ELSE {}
<1>1. \A w \in Workers : InHand(w) # {} => currentTime[w] = QueueTime
  BY ListensInTick
<1>2. \A w \in Workers : InHand(w) \subseteq Rooms
  BY DEF InHand, TypeOK, TypeWorkers
<1>3. ZMembers(processRooms[t]) \subseteq Rooms
  BY DEF ZMembers, TypeOK, TypeStore
<1>4. \A x : x \in Unprocessed(t) <=>
        x \in ZMembers(processRooms[t]) \/ \E w \in Workers : currentTime[w] = t /\ x \in InHand(w)
  BY DEF Unprocessed
<1>5. CASE t = QueueTime
  BY <1>1, <1>2, <1>3, <1>4, <1>5 DEF Undone, Queue
<1>6. CASE t # QueueTime
  <2>1. ZMembers(processRooms[t]) = {}
    BY <1>6 DEF Barriers, OthersQuiet
  <2> QED BY <1>1, <1>4, <1>6, <2>1
<1> QED BY <1>5, <1>6

(* A queue is used for one tick only: rooms are queued or held for no other tick than the current. *)
THEOREM QueuesLiveOnce == Spec => []OneLiveQueue
<1>1. TypeOK /\ Clocks /\ Barriers => OneLiveQueue
  BY UnprocessedOf DEF OneLiveQueue
<1> QED BY <1>1, BarriersHold, PTL

(* The countdown of a tick is the number of its rooms that are not processed, and no room is in two *)
(* workers' hands or both held and queued.                                                          *)
THEOREM CountdownExact == Spec => []PendingExact
<1>1. TypeOK /\ Clocks /\ Barriers => PendingExact
  <2> SUFFICES ASSUME TypeOK, Clocks, Barriers PROVE PendingExact
    OBVIOUS
  <2>1. ASSUME NEW t \in Times, roomsPending[t] # Null PROVE roomsPending[t] = Cardinality(Unprocessed(t))
    <3>1. t = QueueTime
      BY <2>1 DEF Barriers, OthersQuiet
    <3>2. Unprocessed(t) = Undone
      BY <3>1, UnprocessedOf
    <3> QED BY <2>1, <3>1, <3>2 DEF Barriers, Countdown, Pending
  <2>2. \A w \in Workers : InHand(w) \subseteq Mine(w)
    BY DEF InHand, Mine, Barriers, Apart
  <2>3. \A v, w \in Workers : v # w => InHand(v) \cap InHand(w) = {}
    BY <2>2 DEF Barriers, Apart
  <2>4. \A w \in Workers : InHand(w) \cap ZMembers(processRooms[QueueTime]) = {}
    BY <2>2 DEF Barriers, Apart, Queue
  <2> QED BY <2>1, <2>3, <2>4 DEF PendingExact
<1> QED BY <1>1, BarriersHold, PTL

(* Once the finalization of a tick is announced none of its rooms is queued or being processed, and *)
(* the finalizers know of every room that was sent intents.                                         *)
THEOREM PhaseBarrier == Spec => []ProcessBeforeFinalize
<1>1. TypeOK /\ Clocks /\ Barriers => ProcessBeforeFinalize
  <2> SUFFICES ASSUME TypeOK, Clocks, Barriers, NEW t \in Times,
                      \/ finalizePending[t] # Null
                      \/ servicePc = "finalize" /\ finalizingTime = t
                      \/ \E i \in DOMAIN processorChannel :
                           processorChannel[i].type = "finalize" /\ processorChannel[i].time = t
               PROVE  /\ Unprocessed(t) = {}
                      /\ \A w \in Workers : currentTime[w] = t => unmarked[w] = {}
    BY DEF ProcessBeforeFinalize
  <2>1. CASE t # QueueTime
    <3>1. \A w \in Workers : unmarked[w] # {} => currentTime[w] = QueueTime
      BY DEF Barriers, WorkerShape
    <3> QED BY <2>1, <3>1, UnprocessedOf
  <2>2. CASE t = QueueTime
    <3>1. finalizePending[t] # Null => Pending = Null
      BY <2>2 DEF Barriers, Phases, OnePhase, Remaining
    <3>2. servicePc = "finalize" /\ finalizingTime = t => Pending = Null
      <4>1. ~(QueueTime < QueueTime)
        BY QueueTimeType DEF Barriers
      <4> QED BY <2>2, <4>1 DEF Barriers, Phases, FinalizeLoop
    <3>3. Announced # {} => Pending = Null
      BY DEF Barriers, Phases, OnePhase, AnnouncedOnce
    <3>4. Undone = {}
      BY <3>1, <3>2, <3>3 DEF Announced, OfKind, Barriers, Countdown
    <3> QED BY <2>2, <3>4, NoneInHand, UnprocessedOf
  <2> QED BY <2>1, <2>2
<1> QED BY <1>1, BarriersHold, PTL

(* When main prepares the next tick every room was finalized, every inter-room intent applied, and *)
(* the tick's keys are gone from the store.                                                        *)
THEOREM TickBarrier == Spec => []FinalizeBeforeNextTick
<1>1. TypeOK /\ Clocks /\ Barriers => FinalizeBeforeNextTick
  <2> SUFFICES ASSUME TypeOK, Clocks, Barriers, mainPc = "next"
               PROVE  /\ Unprocessed(tickTime) = {} /\ finalIntents = {}
                      /\ \A w \in Workers : finalizePc[w] # "work"
                      /\ processedRooms[tickTime] = {} /\ finalizeExtraRooms[tickTime] = {}
                      /\ roomsPending[tickTime] = Null /\ finalizePending[tickTime] = Null
    BY DEF FinalizeBeforeNextTick
  <2>1. tickTime \in Times /\ tickTime \in Int /\ finalizingTime \in Int
    BY TickTimeIsATick DEF TypeOK, Clocks, TypeFinalize, Times
  <2>2. CASE "beget" \in nextTasks
    <3>1. QueueTime = tickTime
      BY <2>2 DEF QueueTime
    <3>2. Pending = Null /\ Remaining = Null
      BY <2>2 DEF Barriers, Phases, OnePhase
    <3>3. Undone = {} /\ TickRooms = {} /\ Unfinalized = {}
      BY <3>2 DEF Barriers, Countdown, Accounted
    <3>4. Extra = {} /\ finalIntents = {}
      BY <3>2, <3>3, UnfinalizedMembers DEF Barriers, Accounted
    <3>5. \A w \in Workers : finalizePc[w] # "work"
      BY <3>2 DEF Barriers, Phases, FinalizeLoop
    <3> QED BY <2>1, <3>1, <3>2, <3>3, <3>4, <3>5, UnprocessedOf DEF TickRooms, Extra, Pending, Remaining
  <2>3. CASE "beget" \notin nextTasks
    <3>1. QueueTime = tickTime + 1 /\ QueueTime # tickTime
      BY <2>1, <2>3 DEF QueueTime
    <3>2. finalIntents = {}
      BY <3>1 DEF Barriers, Accounted
    <3>3. \A w \in Workers : finalizePc[w] = "work" => finalizingTime = tickTime + 1 /\ finalizingTime <= tickTime
      BY <3>1 DEF Barriers, Phases, FinalizeLoop, NobodyAhead
    <3>4. \A w \in Workers : finalizePc[w] # "work"
      BY <2>1, <3>3
    <3> QED BY <2>1, <3>1, <3>2, <3>4, UnprocessedOf DEF Barriers, OthersQuiet
  <2> QED BY <2>2, <2>3
<1> QED BY <1>1, BarriersHold, PTL

(* Main may act on 'tickFinished' without looking at its time: there is never more than one in its *)
(* channel, and it is the current tick's.                                                          *)
THEOREM OneTickFinished == Spec => []TickFinishedIsCurrent
<1>1. \A S : (\A x, y \in S : x = y) => Cardinality(S) <= 1
  <2> SUFFICES ASSUME NEW S, \A x, y \in S : x = y PROVE Cardinality(S) <= 1
    OBVIOUS
  <2>1. CASE S = {}
    BY <2>1, FS_EmptySet
  <2>2. ASSUME NEW x \in S PROVE Cardinality(S) <= 1
    <3>1. S = {x}
      OBVIOUS
    <3> QED BY <3>1, FS_Singleton
  <2> QED BY <2>1, <2>2
<1>2. TypeOK /\ Clocks /\ Barriers => TickFinishedIsCurrent
  <2> SUFFICES ASSUME Barriers PROVE TickFinishedIsCurrent
    OBVIOUS
  <2>1. Finished = {i \in DOMAIN serviceChannel : serviceChannel[i].type = "tickFinished"}
    BY DEF Finished, OfKind
  <2>2. \A i, j \in Finished : i = j /\ serviceChannel[i].time = QueueTime
    BY DEF Barriers, Phases, OnePhase, Sole, Finished
  <2>3. Cardinality(Finished) <= 1
    BY <1>1, <2>2
  <2> QED BY <2>1, <2>2, <2>3 DEF TickFinishedIsCurrent
<1> QED BY <1>2, BarriersHold, PTL
=============================================================================
