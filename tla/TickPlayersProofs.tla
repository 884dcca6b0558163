-------------------------- MODULE TickPlayersProofs --------------------------
(***************************************************************************)
(* What a tick owes its players, its workers and its sleeping rooms, and   *)
(* that it is bulk-synchronous, for every set of rooms, players and        *)
(* workers and every bound.                                                *)
(***************************************************************************)
EXTENDS TickProofs

(***************************************************************************)
(* The players of the tick.                                                *)
(***************************************************************************)
Turns ==
  /\ QueueTime # tickTime => answered = {}
  /\ QueueTime = tickTime => answered \cap runnerUsers[Slot(QueueTime)] = {}
  /\ \A u \in Users : runTime = QueueTime =>
       /\ userPc[u] \in {"read", "deactivate", "run"} => u \notin answered \cup runnerUsers[Slot(QueueTime)]
       /\ userPc[u] = "run" /\ Pending # Null => userRooms[u] = IntentRooms(u)
       /\ userPc[u] = "reset" => Abandoned(QueueTime)

Players == Turns /\ QueueCountsPlayers /\ PlayersBeforeRoom
-----------------------------------------------------------------------------
(***************************************************************************)
(* Main's and the processors' steps, as the players of a tick see them.    *)
(***************************************************************************)
(* between one queue and the next main changes no answer; it starts a tick after the last one's queue *)
(* is gone, otherwise it only forgets players who have not run                                        *)
LEMMA MainPlayers ==
  ASSUME TypeOK, Clocks, Barriers, MainSide, ~BegetRoomProcessQueue
  PROVE  /\ UNCHANGED <<QueueTime, Pending, answered, activeUsers>>
         /\ \/ StartTick /\ QueueTime # tickTime
            \/ tickTime' = tickTime /\ \A s \in {0, 1} : runnerUsers'[s] \subseteq runnerUsers[s]
<1>1. [Next]_vars /\ MainStages /\ OthersQuiet
  BY DEF Next, MainSide, Barriers
<1>2. UNCHANGED QueueTime
  BY <1>1, QueueTimeStep
<1>3. UNCHANGED Pending
  BY <1>1, MainKeys DEF keyView
<1>4. UNCHANGED <<answered, activeUsers>>
  BY DEF MainSide, Main, StartTick, PublishRun, HandleRunnerConnected, HandleTickFinished, AdvanceTime, EndTick,
         AbandonIntents, PublishAbandoned, blobs, userSets
<1>5. CASE StartTick
  <2>1. mainPc = "start" /\ nextTasks = {} /\ tickTime \in Int
    BY <1>1, <1>5 DEF StartTick, MainStages, TypeOK, TypeMain
  <2>2. QueueTime = tickTime + 1
    BY <2>1 DEF QueueTime
  <2> QED BY <1>2, <1>3, <1>4, <1>5, <2>1, <2>2
<1>6. CASE ~StartTick
  <2>1. tickTime' = tickTime
    BY <1>6 DEF MainSide, Main, PublishRun, HandleRunnerConnected, HandleTickFinished, AdvanceTime, EndTick,
                AbandonIntents, PublishAbandoned, mainVars
  <2>2. runnerUsers' = runnerUsers \/ runnerUsers' = [runnerUsers EXCEPT ![Slot(tickTime)] = {}]
    BY <1>6 DEF MainSide, Main, PublishRun, HandleRunnerConnected, HandleTickFinished, AdvanceTime, EndTick,
                AbandonIntents, PublishAbandoned, userSets
  <2>3. \A s \in {0, 1} : runnerUsers'[s] \subseteq runnerUsers[s]
    BY <2>2 DEF TypeOK, TypeStore
  <2> QED BY <1>2, <1>3, <1>4, <2>1, <2>3
<1> QED BY <1>5, <1>6

(* an abandoned tick stays abandoned until the next queue is made *)
LEMMA AbandonedStays ==
  ASSUME TypeOK, Clocks, Barriers, [Next]_vars, ~BegetRoomProcessQueue, Abandoned(QueueTime)
  PROVE  Abandoned(QueueTime)'
<1>1. MainStages /\ QueueTime' = QueueTime
  BY QueueTimeStep DEF Barriers
<1>2. timer = "fired" /\ tickTime = QueueTime /\ tickTime \in Int
  BY DEF Abandoned, TypeOK, TypeMain
<1>3. CASE UNCHANGED mainVars
  BY <1>1, <1>2, <1>3 DEF mainVars, Abandoned
<1>4. CASE MainSide
  <2>1. ~StartTick /\ ~PublishRun /\ ~AbandonIntents
    BY <1>1, <1>2 DEF MainStages, StartTick, PublishRun, AbandonIntents
  <2>2. ~EndTick
    BY <1>2 DEF EndTick, QueueTime
  <2>3. timer' = timer /\ tickTime' = tickTime
    BY <1>4, <2>1, <2>2 DEF MainSide, Main, HandleRunnerConnected, HandleTickFinished, AdvanceTime,
                            PublishAbandoned, mainVars
  <2> QED BY <1>1, <1>2, <2>3 DEF Abandoned
<1> QED BY <1>3, <1>4, Sides, ProcessorFrame, RunnerFrame

(* who may act in a room changes only after the tick's rooms are processed; a tick that was counted *)
(* down is not counted again                                                                        *)
LEMMA ProcessorPlayers ==
  ASSUME TypeOK, Clocks, Barriers, ProcessorSide
  PROVE  /\ UNCHANGED <<QueueTime, tickTime, timer, answered, runnerUsers, runTime, userPc, userRooms>>
         /\ Pending' # Null => Pending # Null /\ users' = users
         /\ users' # users => Undone = {} /\ UNCHANGED <<processRooms, loopVars>>
<1>1. UNCHANGED <<QueueTime, tickTime, timer, answered, runnerUsers, runTime, userPc, userRooms>>
  BY ProcessorFrame DEF mainVars, runnerVars, QueueTime
<1>2. CASE Service
  <2>1. UNCHANGED <<users, roomsPending>>
    BY <1>2 DEF Service, HandleProcess, HandleFinalize, FinishFinalize, tickKeys, blobs
  <2> QED BY <1>1, <2>1 DEF Pending
<1>3. ASSUME NEW w \in Workers, Worker(w)
      PROVE  (Pending' # Null => Pending # Null) /\ users' = users
  <2>1. users' = users
    BY <1>3 DEF Worker, PopRoom, StartRoom, SendIntents, MarkExtraRooms, RoomDidProcess, AnnounceFinalize,
                DrainEnds, WorkerSleeps, blobs
  <2> QED BY <1>3, <2>1, WorkerCounters
<1>4. ASSUME NEW w \in Workers, Finalize(w)
      PROVE  /\ Pending' # Null => Pending # Null /\ users' = users
             /\ users' # users => Undone = {} /\ UNCHANGED <<processRooms, loopVars>>
  <2>1. ASSUME NEW r \in Rooms, FinalizeRoom(w, r) \/ FinalizeExtraRoom(w, r)
        PROVE  Pending' = Null /\ Undone = {} /\ UNCHANGED <<processRooms, loopVars>>
    <3>1. Pending = Null /\ Undone = {} /\ UNCHANGED <<Pending, loopVars>>
      BY <2>1, FinalizeTakes
    <3>2. UNCHANGED processRooms
      BY <2>1 DEF FinalizeRoom, FinalizeExtraRoom, tickKeys
    <3> QED BY <3>1, <3>2
  <2>2. RoomsDidFinalize(w) => UNCHANGED <<users, roomsPending>>
    BY DEF RoomsDidFinalize, blobs
  <2> QED BY <1>1, <1>4, <2>1, <2>2 DEF Finalize, Pending
<1> QED BY <1>1, <1>2, <1>3, <1>4 DEF ProcessorSide
-----------------------------------------------------------------------------
(***************************************************************************)
(* A player is run at most once in a tick, with the rooms he may act in.   *)
(***************************************************************************)
(* a run of the queued tick is a run of the tick main is in *)
LEMMA RunsInTick ==
  ASSUME TypeOK, Clocks, Barriers
  PROVE  /\ runTime = QueueTime => QueueTime = tickTime
         /\ QueueTime # 0
         /\ Slot(QueueTime) \in {0, 1} /\ Slot(runTime) \in {0, 1}
<1>1. runTime \in Int /\ tickTime \in Int /\ runTime <= tickTime /\ QueueTime \in {tickTime, tickTime + 1}
  BY QueueTimeType DEF Barriers, NobodyAhead, TypeOK, TypeRunner
<1>2. QueueTime \in Int /\ QueueTime # 0
  BY QueueTimeType DEF Barriers, Times
<1> QED BY <1>1, <1>2 DEF Slot

(* a player who is run has not answered, and a count that he finds was not reset for him: he takes *)
(* one off only from counts of rooms he is counted in                                              *)
LEMMA CountsCoverPlayer ==
  ASSUME TypeOK, Clocks, Barriers, Turns, QueueCountsPlayers, NEW u \in Users, userPc[u] = "run",
         runTime = QueueTime, ~Abandoned(QueueTime), NEW r \in Rooms, processRooms[QueueTime][r] # Null
  PROVE  /\ r \in userRooms[u] <=> u \in users[r]
         /\ IsFiniteSet(users[r] \ answered) /\ Cardinality(users[r] \ answered) \in Nat
         /\ u \in users[r] => Cardinality(users[r] \ (answered \cup {u})) = processRooms[QueueTime][r] - 1
         /\ u \in users[r] => processRooms[QueueTime][r] >= 1
         /\ u \notin users[r] => users[r] \ (answered \cup {u}) = users[r] \ answered
<1>1. QueueTime \in Times
  BY QueueTimeType DEF Barriers
<1>2. r \in Queue
  BY <1>1 DEF Queue, ZMembers, TypeOK, TypeStore
<1>3. Pending # Null
  BY <1>2 DEF Barriers, Countdown, Undone
<1>4. userRooms[u] = IntentRooms(u) /\ u \notin answered
  BY <1>3 DEF Turns
<1>5. r \in userRooms[u] <=> u \in users[r]
  BY <1>4 DEF IntentRooms
<1> DEFINE left == users[r] \ answered
<1>6. left \subseteq Users
  BY DEF TypeOK, TypeBlobs
<1>7. IsFiniteSet(left) /\ Cardinality(left) \in Nat
  BY <1>6, FS_Subset, FS_CardinalityType, TickAssumption
<1>8. processRooms[QueueTime][r] = Cardinality(left)
  BY DEF QueueCountsPlayers
<1>9. ASSUME u \in users[r]
      PROVE  Cardinality(users[r] \ (answered \cup {u})) = Cardinality(left) - 1 /\ Cardinality(left) >= 1
  <2>1. u \in left /\ users[r] \ (answered \cup {u}) = left \ {u}
    BY <1>4, <1>9
  <2>2. Cardinality(left \ {u}) = Cardinality(left) - 1
    BY <1>7, <2>1, FS_RemoveElement
  <2>3. Cardinality(left) # 0
    BY <1>7, <2>1, FS_EmptySet
  <2>4. Cardinality(users[r] \ (answered \cup {u})) = Cardinality(left \ {u})
    BY <2>1
  <2>5. Cardinality(left) >= 1
    BY <1>7, <2>3
  <2> QED BY <2>2, <2>4, <2>5
<1>10. u \notin users[r] => users[r] \ (answered \cup {u}) = left
  OBVIOUS
<1> QED BY <1>5, <1>7, <1>8, <1>9, <1>10

(* main begins a tick with nobody having answered, and no run of an earlier tick counts for it *)
LEMMA TurnsOfMain ==
  ASSUME TypeOK, Clocks, Barriers, Turns, MainSide
  PROVE  Turns'
<1>1. UNCHANGED <<runTime, userPc, userRooms, users>>
  BY MainFrame DEF runnerVars
<1>2. tickTime \in Int /\ QueueTime \in Int /\ runTime \in Int /\ runTime <= tickTime /\ [Next]_vars
  BY QueueTimeType DEF Barriers, NobodyAhead, TypeOK, TypeRunner, MainSide, Next
<1>3. CASE BegetRoomProcessQueue
  <2>1. QueueTime' = tickTime + 1 /\ tickTime' = tickTime /\ answered' = {}
    BY <1>3, BegetAfterTick DEF BegetRoomProcessQueue
  <2>2. runTime' # QueueTime' /\ QueueTime' # tickTime'
    BY <1>1, <1>2, <2>1
  <2> QED BY <2>1, <2>2 DEF Turns
<1>4. CASE ~BegetRoomProcessQueue
  <2>1. UNCHANGED <<QueueTime, Pending, answered>>
    BY <1>4, MainPlayers
  <2>2. CASE StartTick /\ QueueTime # tickTime
    <3>1. answered' = {} /\ runTime' # QueueTime'
      BY <1>1, <1>2, <2>1, <2>2, RunsInTick DEF Turns
    <3> QED BY <3>1 DEF Turns
  <2>3. CASE tickTime' = tickTime /\ \A s \in {0, 1} : runnerUsers'[s] \subseteq runnerUsers[s]
    <3>1. runnerUsers'[Slot(QueueTime')] \subseteq runnerUsers[Slot(QueueTime)]
      BY <2>1, <2>3, RunsInTick
    <3>2. Abandoned(QueueTime) => Abandoned(QueueTime)'
      BY <1>2, <1>4, AbandonedStays
    <3>3. \A u \in Users : IntentRooms(u)' = IntentRooms(u)
      BY <1>1 DEF IntentRooms
    <3>4. QueueTime' # tickTime' => answered' = {}
      BY <2>1, <2>3 DEF Turns
    <3>5. QueueTime' = tickTime' => answered' \cap runnerUsers'[Slot(QueueTime')] = {}
      BY <2>1, <2>3, <3>1 DEF Turns
    <3>6. ASSUME NEW u \in Users, runTime' = QueueTime'
          PROVE  /\ userPc'[u] \in {"read", "deactivate", "run"} =>
                      u \notin answered' \cup runnerUsers'[Slot(QueueTime')]
                 /\ userPc'[u] = "run" /\ Pending' # Null => userRooms'[u] = IntentRooms(u)'
                 /\ userPc'[u] = "reset" => Abandoned(QueueTime)'
      BY <1>1, <2>1, <3>1, <3>2, <3>3, <3>6 DEF Turns
    <3> QED BY <3>4, <3>5, <3>6 DEF Turns
  <2> QED BY <1>4, <2>2, <2>3, MainPlayers
<1> QED BY <1>3, <1>4

(* the processors start no player; the rooms of one may change only when no room waits for him *)
LEMMA TurnsOfProcessors ==
  ASSUME TypeOK, Clocks, Barriers, Turns, ProcessorSide
  PROVE  Turns'
<1>1. /\ UNCHANGED <<QueueTime, tickTime, timer, answered, runnerUsers, runTime, userPc, userRooms>>
      /\ Pending' # Null => Pending # Null /\ users' = users
  BY ProcessorPlayers
<1>2. Abandoned(QueueTime)' <=> Abandoned(QueueTime)
  BY <1>1 DEF Abandoned
<1>3. Pending' # Null => \A u \in Users : IntentRooms(u)' = IntentRooms(u)
  BY <1>1 DEF IntentRooms
<1> QED BY <1>1, <1>2, <1>3 DEF Turns

(* a player is taken from the queue once, his rooms are read before any of them changes hands, and *)
(* his publication resets counts only when the tick was abandoned                                  *)
LEMMA TurnsOfRunners ==
  ASSUME TypeOK, Clocks, Barriers, Turns, QueueCountsPlayers, RunnerSide
  PROVE  Turns'
<1>1. UNCHANGED <<QueueTime, Pending, tickTime, timer, users>>
  BY RunnerFrame DEF mainVars, QueueTime, Pending
<1>2. /\ Abandoned(QueueTime)' <=> Abandoned(QueueTime)
      /\ \A u \in Users : IntentRooms(u)' = IntentRooms(u)
  BY <1>1 DEF Abandoned, IntentRooms
<1>3. /\ runTime = QueueTime => QueueTime = tickTime
      /\ QueueTime # 0 /\ Slot(QueueTime) \in {0, 1} /\ Slot(runTime) \in {0, 1}
  BY RunsInTick
<1>4. runnerUsers \in [{0, 1} -> SUBSET Users] /\ userPc \in [Users -> {"none", "read", "deactivate", "run", "reset", "notify"}]
      /\ userRooms \in [Users -> SUBSET Rooms]
  BY DEF TypeOK, TypeStore, TypeRunner
<1>5. CASE TakeRun
  <2>1. \A u \in Users : userPc[u] = "none"
    BY <1>5 DEF TakeRun, Clocks, RunClock, Times
  <2>2. UNCHANGED <<answered, runnerUsers, userPc>>
    BY <1>5 DEF TakeRun, blobs, userSets
  <2> QED BY <1>1, <2>1, <2>2 DEF Turns
<1>6. CASE RunCloses \/ RunnerConnects \/ Terminated \/ UNCHANGED vars
  <2>1. UNCHANGED <<answered, runnerUsers, userPc, userRooms, runTime>>
    BY <1>6 DEF RunCloses, RunnerConnects, Terminated, vars, blobs, userSets, runnerVars
  <2> QED BY <1>1, <1>2, <2>1 DEF Turns
<1>7. CASE \E r \in Rooms, now \in Times : PushIntentsForRoom(r, now)
  <2>1. UNCHANGED <<answered, runnerUsers, userPc, userRooms, runTime>>
    BY <1>7 DEF PushIntentsForRoom, blobs, userSets, runnerVars
  <2> QED BY <1>1, <1>2, <2>1 DEF Turns
<1>8. CASE RunEnds \/ RunnerCrashes
  <2>1. UNCHANGED <<answered, runnerUsers>> /\ runTime' = 0
    BY <1>8 DEF RunEnds, RunnerCrashes, blobs, userSets
  <2> QED BY <1>1, <1>3, <2>1 DEF Turns
<1>9. ASSUME NEW u \in Users, TakeUser(u) PROVE Turns'
  <2>1. UNCHANGED <<answered, userRooms, runTime>>
    BY <1>9 DEF TakeUser, blobs
  <2>2. /\ u \in runnerUsers[Slot(runTime)] /\ userPc' = [userPc EXCEPT ![u] = "read"]
        /\ runnerUsers' = [runnerUsers EXCEPT ![Slot(runTime)] = runnerUsers[Slot(runTime)] \ {u}]
    BY <1>9 DEF TakeUser
  <2>3. runnerUsers'[Slot(QueueTime)] \subseteq runnerUsers[Slot(QueueTime)]
    BY <1>3, <1>4, <2>2
  <2>4. runTime = QueueTime => u \notin answered /\ u \notin runnerUsers'[Slot(QueueTime)]
    BY <1>3, <1>4, <2>2 DEF Turns
  <2>5. \A v \in Users \ {u} : userPc'[v] = userPc[v]
    BY <1>4, <2>2
  <2>6. userPc'[u] = "read"
    BY <1>4, <2>2
  <2> QED BY <1>1, <1>2, <2>1, <2>3, <2>4, <2>5, <2>6 DEF Turns
<1>10. ASSUME NEW u \in Users, ReadIntentRooms(u) PROVE Turns'
  <2>1. UNCHANGED <<answered, runnerUsers, runTime>>
    BY <1>10 DEF ReadIntentRooms, blobs, userSets
  <2>2. userPc[u] = "read" /\ userPc'[u] \in {"deactivate", "run"} /\ userRooms'[u] = IntentRooms(u)
    BY <1>4, <1>10 DEF ReadIntentRooms
  <2>3. \A v \in Users \ {u} : userPc'[v] = userPc[v] /\ userRooms'[v] = userRooms[v]
    BY <1>4, <1>10 DEF ReadIntentRooms
  <2> QED BY <1>1, <1>2, <2>1, <2>2, <2>3 DEF Turns
<1>11. ASSUME NEW u \in Users, Deactivate(u) \/ ResetCounts(u) \/ NotifyProcessors(u) PROVE Turns'
  <2>1. UNCHANGED <<answered, runnerUsers, runTime, userRooms>>
    BY <1>11 DEF Deactivate, ResetCounts, NotifyProcessors, blobs, userSets
  <2>2. userPc'[u] \in {"none", "notify"} /\ \A v \in Users \ {u} : userPc'[v] = userPc[v]
    BY <1>4, <1>11 DEF Deactivate, ResetCounts, NotifyProcessors
  <2> QED BY <1>1, <1>2, <2>1, <2>2 DEF Turns
<1>12. ASSUME NEW u \in Users, NEW success \in BOOLEAN, PublishIntents(u, success) PROVE Turns'
  <2> DEFINE counted == ZIncrXX(processRooms[runTime], userRooms[u], -1)
  <2>1. UNCHANGED <<runnerUsers, runTime, userRooms>> /\ userPc[u] = "run"
    BY <1>12 DEF PublishIntents, userSets
  <2>2. answered' = IF runTime = QueueTime THEN answered \cup {u} ELSE answered
    BY <1>12 DEF PublishIntents
  <2>3. userPc'[u] \in {"reset", "notify", "none"} /\ \A v \in Users \ {u} : userPc'[v] = userPc[v]
    BY <1>4, <1>12 DEF PublishIntents
  <2>4. userPc'[u] = "reset" =>
          \E r \in Rooms : r \in userRooms[u] /\ processRooms[runTime][r] # Null /\ counted[r] < 0
    BY <1>4, <1>12 DEF PublishIntents
  <2>5. ASSUME runTime = QueueTime, userPc'[u] = "reset" PROVE Abandoned(QueueTime)
    <3>1. PICK r \in Rooms : r \in userRooms[u] /\ processRooms[QueueTime][r] # Null /\ counted[r] < 0
      BY <2>4, <2>5
    <3>2. processRooms[QueueTime] \in SortedSet
      BY QueueTimeType DEF Barriers, TypeOK, TypeStore, SortedSet
    <3>3. counted[r] = processRooms[QueueTime][r] - 1
      BY <2>5, <3>1, <3>2 DEF ZIncrXX, SortedSet, Score
    <3>4. ~Abandoned(QueueTime) => processRooms[QueueTime][r] >= 1
      BY <2>1, <2>5, <3>1, CountsCoverPlayer
    <3>5. processRooms[QueueTime][r] \in Int
      BY <3>1, <3>2 DEF SortedSet, Score
    <3> HIDE DEF counted
    <3> QED BY <3>1, <3>3, <3>4, <3>5
  <2>6. runTime = QueueTime => u \notin runnerUsers[Slot(QueueTime)]
    BY <2>1 DEF Turns
  <2> QED BY <1>1, <1>2, <1>3, <2>1, <2>2, <2>3, <2>5, <2>6 DEF Turns
<1> QED BY <1>5, <1>6, <1>7, <1>8, <1>9, <1>10, <1>11, <1>12 DEF RunnerSide, Run, RunUser

(* a player is run at most once in a tick *)
LEMMA TurnsStep ==
  ASSUME TypeOK, Clocks, Barriers, Turns, QueueCountsPlayers, [Next]_vars
  PROVE  Turns'
BY Sides, TurnsOfMain, TurnsOfProcessors, TurnsOfRunners
-----------------------------------------------------------------------------
(***************************************************************************)
(* The rendezvous count.                                                   *)
(***************************************************************************)
(* a new queue has the counts of the active set; until the next, main only abandons the tick *)
LEMMA QueueCountsOfMain ==
  ASSUME TypeOK, Clocks, Barriers, Turns, QueueCountsPlayers, ActiveCountsPlayers, MainSide
  PROVE  QueueCountsPlayers'
<1>1. users' = users
  BY MainFrame
<1>2. CASE BegetRoomProcessQueue
  <2>1. processRooms'[QueueTime'] = activeRooms' /\ answered' = {}
    BY <1>2, BegetKeys DEF BegetRoomProcessQueue
  <2>2. ActiveCountsPlayers'
    BY <1>2, BegetCounts
  <2>3. \A r \in Rooms : users'[r] \ answered' = users'[r]
    BY <2>1
  <2> QED BY <2>1, <2>2, <2>3 DEF QueueCountsPlayers, ActiveCountsPlayers
<1>3. CASE ~BegetRoomProcessQueue
  <2>1. UNCHANGED <<QueueTime, answered>> /\ QueueTime \in Times
    BY <1>3, MainPlayers, QueueTimeType DEF Barriers
  <2>2. ~Abandoned(QueueTime)' => ~Abandoned(QueueTime)
    BY <1>3, AbandonedStays DEF Next, MainSide
  <2>3. ~Abandoned(QueueTime)' => processRooms'[QueueTime] = processRooms[QueueTime]
    <3>1. CASE AbandonIntents
      <4>1. processRooms' = [processRooms EXCEPT ![tickTime] = ZInterStore(processRooms[tickTime], 0)]
        BY <3>1 DEF AbandonIntents
      <4>2. timer' = "fired" /\ tickTime' = tickTime
        BY <3>1 DEF AbandonIntents
      <4> QED BY <2>1, <4>1, <4>2 DEF Abandoned, TypeOK, TypeStore
    <3>2. CASE ~AbandonIntents
      BY <1>3, <3>2 DEF MainSide, Main, StartTick, PublishRun, HandleRunnerConnected, HandleTickFinished,
                        AdvanceTime, EndTick, PublishAbandoned, tickKeys
    <3> QED BY <3>1, <3>2
  <2> QED BY <1>1, <2>1, <2>2, <2>3 DEF QueueCountsPlayers
<1> QED BY <1>2, <1>3

(* the processors take rooms off the queue; who may act changes when no room is left on it *)
LEMMA QueueCountsOfProcessors ==
  ASSUME TypeOK, Clocks, Barriers, QueueCountsPlayers, ProcessorSide
  PROVE  QueueCountsPlayers'
<1>1. /\ UNCHANGED <<QueueTime, tickTime, timer, answered>>
      /\ users' # users => Undone = {} /\ UNCHANGED processRooms
  BY ProcessorPlayers
<1>2. Abandoned(QueueTime)' <=> Abandoned(QueueTime)
  BY <1>1 DEF Abandoned
<1>3. QueueTime \in Times /\ processRooms[QueueTime] \in SortedSet
  BY QueueTimeType DEF Barriers, TypeOK, TypeStore, SortedSet
<1>4. CASE users' # users
  <2>1. Queue = {}
    BY <1>1, <1>4, NoneInHand
  <2>2. \A r \in Rooms : processRooms'[QueueTime'][r] = Null
    BY <1>1, <1>3, <1>4, <2>1 DEF Queue, ZMembers, SortedSet
  <2> QED BY <2>2 DEF QueueCountsPlayers
<1>5. CASE users' = users /\ UNCHANGED processRooms
  BY <1>1, <1>2, <1>5 DEF QueueCountsPlayers
<1>6. ASSUME users' = users, NEW w \in Workers, NEW q \in Rooms, PopRoom(w, q)
      PROVE  QueueCountsPlayers'
  <2>1. processRooms' = [processRooms EXCEPT ![QueueTime] = ZRem(processRooms[QueueTime], {q})]
    BY <1>6, PopRoomKeys DEF Barriers
  <2>2. processRooms'[QueueTime] = ZRem(processRooms[QueueTime], {q})
    BY <1>3, <2>1 DEF TypeOK, TypeStore
  <2>3. \A r \in Rooms : processRooms'[QueueTime][r] # Null => processRooms'[QueueTime][r] = processRooms[QueueTime][r]
    BY <1>3, <2>2 DEF ZRem, SortedSet
  <2> QED BY <1>1, <1>2, <1>6, <2>3 DEF QueueCountsPlayers
<1>7. UNCHANGED processRooms \/ \E w \in Workers, q \in Rooms : PopRoom(w, q)
  BY DEF ProcessorSide, Service, HandleProcess, HandleFinalize, FinishFinalize, Worker, StartRoom, SendIntents,
         MarkExtraRooms, RoomDidProcess, AnnounceFinalize, DrainEnds, WorkerSleeps, Finalize, FinalizeRoom,
         FinalizeExtraRoom, RoomsDidFinalize, tickKeys
<1> QED BY <1>4, <1>5, <1>6, <1>7

(* a player's publication takes one off the count of every queued room he may act in, and of no other *)
LEMMA QueueCountsOfPublishing ==
  ASSUME TypeOK, Clocks, Barriers, Turns, QueueCountsPlayers,
         NEW u \in Users, NEW success \in BOOLEAN, PublishIntents(u, success)
  PROVE  QueueCountsPlayers'
<1> DEFINE counted == ZIncrXX(processRooms[runTime], userRooms[u], -1)
<1>1. UNCHANGED <<QueueTime, tickTime, timer, users>> /\ userPc[u] = "run"
  BY DEF PublishIntents, mainVars, QueueTime
<1>2. Abandoned(QueueTime)' <=> Abandoned(QueueTime)
  BY <1>1 DEF Abandoned
<1>3. QueueTime \in Times /\ runTime \in Times /\ processRooms[QueueTime] \in SortedSet
  BY <1>1, QueueTimeType DEF Barriers, TypeOK, TypeStore, SortedSet, Clocks, RunClock
<1>4. /\ processRooms' = [processRooms EXCEPT ![runTime] = counted]
      /\ answered' = IF runTime = QueueTime THEN answered \cup {u} ELSE answered
  BY DEF PublishIntents
<1>5. CASE runTime # QueueTime
  <2>1. processRooms'[QueueTime] = processRooms[QueueTime] /\ answered' = answered
    BY <1>3, <1>4, <1>5 DEF TypeOK, TypeStore
  <2> QED BY <1>1, <1>2, <2>1 DEF QueueCountsPlayers
<1>6. CASE runTime = QueueTime
  <2> SUFFICES ASSUME NEW r \in Rooms, processRooms'[QueueTime'][r] # Null, ~Abandoned(QueueTime)'
               PROVE  processRooms'[QueueTime'][r] = Cardinality(users'[r] \ answered')
    BY DEF QueueCountsPlayers
  <2>1. processRooms'[QueueTime] = counted /\ answered' = answered \cup {u}
    BY <1>3, <1>4, <1>6 DEF TypeOK, TypeStore
  <2>2. /\ processRooms[QueueTime][r] # Null /\ processRooms[QueueTime][r] \in Int
        /\ counted[r] = IF r \in userRooms[u] THEN processRooms[QueueTime][r] - 1 ELSE processRooms[QueueTime][r]
    BY <1>1, <1>3, <1>6, <2>1 DEF ZIncrXX, SortedSet, Score
  <2>3. processRooms[QueueTime][r] = Cardinality(users[r] \ answered)
    BY <1>2, <2>2 DEF QueueCountsPlayers
  <2>4. ~Abandoned(QueueTime)
    BY <1>2
  <2> HIDE DEF counted
  <2>5. CASE r \in userRooms[u]
    <3>1. Cardinality(users[r] \ (answered \cup {u})) = processRooms[QueueTime][r] - 1
      BY <1>1, <1>6, <2>2, <2>4, <2>5, CountsCoverPlayer
    <3> QED BY <1>1, <2>1, <2>2, <2>5, <3>1
  <2>6. CASE r \notin userRooms[u]
    <3>1. users[r] \ (answered \cup {u}) = users[r] \ answered
      BY <1>1, <1>6, <2>2, <2>4, <2>6, CountsCoverPlayer
    <3> QED BY <1>1, <2>1, <2>2, <2>3, <2>6, <3>1
  <2> QED BY <2>5, <2>6
<1> QED BY <1>5, <1>6

(* counts are reset in abandoned ticks only *)
LEMMA QueueCountsOfRunners ==
  ASSUME TypeOK, Clocks, Barriers, Turns, QueueCountsPlayers, RunnerSide
  PROVE  QueueCountsPlayers'
<1>1. UNCHANGED <<QueueTime, tickTime, timer, users>>
  BY RunnerFrame DEF mainVars, QueueTime
<1>2. Abandoned(QueueTime)' <=> Abandoned(QueueTime)
  BY <1>1 DEF Abandoned
<1>3. CASE UNCHANGED <<processRooms, answered>>
  BY <1>1, <1>2, <1>3 DEF QueueCountsPlayers
<1>4. ASSUME NEW u \in Users, ResetCounts(u) PROVE QueueCountsPlayers'
  <2>1. /\ userPc[u] = "reset" /\ UNCHANGED answered
        /\ processRooms' = [processRooms EXCEPT ![runTime] = ZAddXX(processRooms[runTime], negative[u], 0)]
    BY <1>4 DEF ResetCounts, blobs
  <2>2. runTime = QueueTime => Abandoned(QueueTime)
    BY <2>1 DEF Turns
  <2>3. runTime # QueueTime => processRooms'[QueueTime] = processRooms[QueueTime]
    BY <2>1, QueueTimeType DEF Barriers, TypeOK, TypeStore
  <2> QED BY <1>1, <1>2, <2>1, <2>2, <2>3 DEF QueueCountsPlayers
<1>5. UNCHANGED <<processRooms, answered>> \/ \E u \in Users : ResetCounts(u) \/ \E s \in BOOLEAN : PublishIntents(u, s)
  BY DEF RunnerSide, Run, TakeRun, RunCloses, RunEnds, RunnerCrashes, RunnerConnects, RunUser, TakeUser,
         ReadIntentRooms, Deactivate, NotifyProcessors, PushIntentsForRoom, Terminated, vars, tickKeys, blobs
<1> QED BY <1>3, <1>4, <1>5, QueueCountsOfPublishing

(* a queued room waits for exactly the players who have not answered *)
LEMMA QueueCountsStep ==
  ASSUME TypeOK, Clocks, Barriers, Turns, QueueCountsPlayers, ActiveCountsPlayers, [Next]_vars
  PROVE  QueueCountsPlayers'
BY Sides, QueueCountsOfMain, QueueCountsOfProcessors, QueueCountsOfRunners
-----------------------------------------------------------------------------
(***************************************************************************)
(* No room goes ahead of its players.                                      *)
(***************************************************************************)
(* a room is popped when its count is zero, and who may act in it does not change until it is done *)
LEMMA PlayersBeforeRoomStep ==
  ASSUME TypeOK, Clocks, Barriers, QueueCountsPlayers, PlayersBeforeRoom, [Next]_vars, Barriers', TypeOK', Clocks'
  PROVE  PlayersBeforeRoom'
<1> SUFFICES ASSUME NEW w \in Workers, ~Abandoned(QueueTime)', NEW r \in Rooms, r \in InHand(w)'
             PROVE  users'[r] \subseteq answered'
  <2>1. \A w \in Workers : InHand(w)' \subseteq Rooms
    BY DEF InHand, TypeOK, TypeWorkers
  <2> QED BY <2>1 DEF PlayersBeforeRoom
<1>1. ASSUME r \in InHand(w), ~Abandoned(QueueTime) PROVE users[r] \subseteq answered
  BY <1>1, ListensInTick DEF PlayersBeforeRoom
<1>2. BegetRoomProcessQueue => \A v \in Workers : InHand(v) = {}
  BY BegetAfterTick DEF InHand
<1>3. CASE MainSide \/ RunnerSide
  <2>1. UNCHANGED <<users, held, room>>
    BY <1>3, MainFrame, RunnerFrame DEF loopVars
  <2>2. InHand(w)' = InHand(w)
    BY <2>1 DEF InHand
  <2>3. ~BegetRoomProcessQueue
    BY <1>2, <2>2
  <2>4. ~Abandoned(QueueTime)
    BY <2>3, AbandonedStays
  <2>5. MainSide => answered' = answered
    BY <2>3, MainPlayers
  <2>6. RunnerSide => answered \subseteq answered'
    BY DEF RunnerSide, Run, TakeRun, RunCloses, RunEnds, RunnerCrashes, RunnerConnects, RunUser, TakeUser,
           ReadIntentRooms, Deactivate, PublishIntents, ResetCounts, NotifyProcessors, PushIntentsForRoom,
           Terminated, vars, blobs
  <2> QED BY <1>1, <1>3, <2>1, <2>2, <2>4, <2>5, <2>6
<1>4. CASE ProcessorSide
  <2>1. /\ UNCHANGED <<QueueTime, tickTime, timer, answered>>
        /\ users' # users => Undone = {} /\ UNCHANGED loopVars
    BY <1>4, ProcessorPlayers
  <2>2. ~Abandoned(QueueTime)
    BY <2>1 DEF Abandoned
  <2>3. users' = users
    <3>1. SUFFICES ASSUME users' # users PROVE FALSE
      OBVIOUS
    <3>2. held[w] = {} /\ room[w] = Null /\ UNCHANGED <<held, room>>
      BY <2>1, <3>1, NoneInHand DEF loopVars
    <3> QED BY <3>2 DEF InHand
  <2>4. CASE r \in InHand(w)
    BY <1>1, <2>1, <2>2, <2>3, <2>4
  <2>5. CASE r \notin InHand(w)
    <3>1. ~UNCHANGED <<held, room>>
      BY <2>5 DEF InHand
    <3>2. PICK v \in Workers : Worker(v)
      BY <1>4, <3>1 DEF ProcessorSide, Service, HandleProcess, HandleFinalize, FinishFinalize, Finalize,
                        FinalizeRoom, FinalizeExtraRoom, RoomsDidFinalize, loopVars
    <3>3. held \in [Workers -> SUBSET Rooms] /\ room \in [Workers -> Rooms \cup {Null}]
      BY DEF TypeOK, TypeWorkers
    <3>4. PopRoom(v, r)
      <4>1. \A q \in Rooms : PopRoom(v, q) => q = r
        BY <2>5, <3>3 DEF PopRoom, InHand
      <4>2. \A q \in Rooms : ~StartRoom(v, q)
        BY <2>5, <3>3 DEF StartRoom, InHand
      <4>3. ~RoomDidProcess(v)
        BY <2>5, <3>3 DEF RoomDidProcess, InHand
      <4> QED BY <3>1, <3>2, <4>1, <4>2, <4>3
                 DEF Worker, SendIntents, MarkExtraRooms, AnnounceFinalize, DrainEnds, WorkerSleeps
    <3>5. currentTime[v] = QueueTime /\ r \in Available(QueueTime)
      BY <3>4, PopRoomKeys DEF PopRoom, Barriers
    <3>6. processRooms[QueueTime] \in SortedSet
      BY QueueTimeType DEF Barriers, TypeOK, TypeStore, SortedSet
    <3>7. processRooms[QueueTime][r] # Null /\ processRooms[QueueTime][r] = 0
      BY <3>5, <3>6 DEF Available, ZByScore, ZMembers, SortedSet, Score
    <3>8. Cardinality(users[r] \ answered) = 0
      BY <2>2, <3>7 DEF QueueCountsPlayers
    <3>9. IsFiniteSet(users[r] \ answered)
      BY FS_Subset, TickAssumption DEF TypeOK, TypeBlobs
    <3>10. users[r] \ answered = {}
      BY <3>8, <3>9, FS_EmptySet
    <3> QED BY <2>1, <2>3, <3>10
  <2> QED BY <2>4, <2>5
<1> QED BY <1>3, <1>4, Sides
-----------------------------------------------------------------------------
(* nobody has answered for the first tick, whose rooms count their players, and no worker holds one *)
LEMMA InitPlayers == Init => Players
<1> SUFFICES ASSUME Init PROVE Players
  OBVIOUS
<1>1. QueueTime = 1 /\ tickTime = 0 /\ answered = {} /\ 1 \in Times
  BY TickAssumption DEF Init, QueueTime, Times
<1>2. Turns
  BY <1>1 DEF Init, Turns
<1>3. QueueCountsPlayers
  <2>1. processRooms[1] = [r \in Rooms |-> Cardinality(users[r])]
    BY <1>1 DEF Init
  <2>2. \A r \in Rooms : users[r] \ answered = users[r]
    BY <1>1
  <2> QED BY <1>1, <2>1, <2>2 DEF QueueCountsPlayers
<1>4. PlayersBeforeRoom
  BY <1>1 DEF Init, PlayersBeforeRoom
<1> QED BY <1>2, <1>3, <1>4 DEF Players

(* The players of a tick: who has answered for it is not run for it again, *)
(* a queued room waits for the others and for nobody else, and a worker    *)
(* holds a room only when all of its players have answered, until the tick *)
(* is abandoned (runner.ts, instance.ts, model.ts 128-181).                *)
THEOREM PlayersHold == Spec => []Players
<1>1. Init => Players
  BY InitPlayers
<1>2. TypeOK /\ Clocks /\ Barriers /\ ActiveCountsPlayers /\ Players /\ (TypeOK /\ Clocks /\ Barriers)'
        /\ [Next]_vars => Players'
  BY TurnsStep, QueueCountsStep, PlayersBeforeRoomStep DEF Players
<1> QED BY <1>1, <1>2, BarriersHold, ActiveCounts, PTL DEF Spec

(* The rendezvous count is exact: a queued room waits for exactly the      *)
(* players who may act in it and have not answered, however runs lag,      *)
(* repeat or die, until main abandons the tick.                            *)
THEOREM RendezvousExact == Spec => []QueueCountsPlayers
<1>1. Players => QueueCountsPlayers
  BY DEF Players
<1> QED BY <1>1, PlayersHold, PTL

(* No room is processed before all of its players have published, unless   *)
(* the tick was abandoned.                                                 *)
THEOREM PlayersFirst == Spec => []PlayersBeforeRoom
<1>1. Players => PlayersBeforeRoom
  BY DEF Players
<1> QED BY <1>1, PlayersHold, PTL
-----------------------------------------------------------------------------
(***************************************************************************)
(* The alarms of rooms that were sent intents by a backend.                *)
(***************************************************************************)
\* an alarm is never before the first tick; one at a negative time would never wake its room
Alarms ==
  /\ \A r \in Rooms : sleepingRooms[r] # Null => sleepingRooms[r] >= 0
  /\ PushedIntentsWake

\* the room will have been queued by the time of the next queue but one
WillBeQueued(r) ==
  \/ r \in Queue
  \/ \E w \in Workers : r \in held[w]
  \/ sleepingRooms[r] # Null /\ sleepingRooms[r] <= shardTime + 1

Waiting(r) == \E t \in Times : <<System, t>> \in intents[r]

(* what is promised of the alarms, room by room *)
LEMMA AlarmsOf ==
  Alarms <=> \A r \in Rooms : /\ sleepingRooms[r] # Null => sleepingRooms[r] >= 0
                              /\ Waiting(r) => WillBeQueued(r)
BY DEF Alarms, PushedIntentsWake, WillBeQueued, Waiting, Queue

(* a new queue takes the rooms whose alarms are due, and rooms not due keep their alarms *)
LEMMA AlarmsOfBeget ==
  ASSUME TypeOK, Clocks, Barriers, Alarms, BegetRoomProcessQueue
  PROVE  Alarms'
<1> DEFINE time == tickTime + 1
<1> DEFINE waking == ZRangeStore(sleepingRooms, 0, time)
<1>1. /\ activeRooms' = ZUnionStore(activeRooms, waking, 1, 0) /\ sleepingRooms' = ZRemRange(sleepingRooms, 0, time)
      /\ UNCHANGED <<shardTime, intents, held>>
  BY DEF BegetRoomProcessQueue, lists, loopVars
<1>2. activeRooms \in SortedSet /\ sleepingRooms \in SortedSet /\ waking \in SortedSet
  BY RangeTypes DEF TypeOK, TypeStore, SortedSet
<1>3. Queue = {} /\ Queue' = ZMembers(activeRooms') /\ \A w \in Workers : held[w] = {}
  BY BegetAfterTick, BegetKeys
<1>4. tickTime \in Int /\ shardTime \in {tickTime, tickTime + 1}
  BY DEF TypeOK, TypeMain, Barriers, MainStages
<1> SUFFICES ASSUME NEW r \in Rooms
             PROVE  /\ sleepingRooms'[r] # Null => sleepingRooms'[r] >= 0
                    /\ Waiting(r)' => WillBeQueued(r)'
  BY AlarmsOf DEF Alarms, PushedIntentsWake, WillBeQueued, Waiting, Queue
<1>5. sleepingRooms[r] # Null => sleepingRooms[r] \in Int /\ sleepingRooms[r] >= 0
  BY <1>2, AlarmsOf DEF SortedSet, Score
<1>6. sleepingRooms[r] # Null /\ sleepingRooms[r] <= time => r \in Queue'
  <2> SUFFICES ASSUME sleepingRooms[r] # Null, sleepingRooms[r] <= time PROVE r \in Queue'
    OBVIOUS
  <2>1. r \in ZByScore(sleepingRooms, 0, time)
    BY <1>2, <1>5 DEF ZByScore, ZMembers, SortedSet
  <2>2. waking[r] = sleepingRooms[r]
    BY <1>2, <2>1 DEF ZRangeStore, SortedSet
  <2> HIDE DEF waking
  <2>3. activeRooms'[r] = Weigh(activeRooms[r], 1) + Weigh(waking[r], 0) /\ DOMAIN activeRooms' = Rooms
    BY <1>1, <1>2, <2>2 DEF ZUnionStore, SortedSet
  <2>4. activeRooms[r] \in Score /\ waking[r] \in Score
    BY <1>2 DEF SortedSet
  <2>5. Weigh(activeRooms[r], 1) \in Int /\ Weigh(waking[r], 0) \in Int
    BY <2>4 DEF Weigh, Score
  <2>6. activeRooms'[r] \in Int
    BY <2>3, <2>5
  <2> QED BY <1>3, <2>3, <2>6, NullAssumption DEF ZMembers
<1>7. sleepingRooms[r] # Null /\ ~(sleepingRooms[r] <= time) => sleepingRooms'[r] = sleepingRooms[r]
  BY <1>1, <1>2 DEF ZRemRange, ZRem, ZByScore, SortedSet
<1>8. sleepingRooms'[r] # Null => sleepingRooms'[r] = sleepingRooms[r]
  BY <1>1, <1>2 DEF ZRemRange, ZRem, SortedSet
<1>9. Waiting(r)' => sleepingRooms[r] # Null /\ sleepingRooms[r] <= shardTime + 1
  BY <1>1, <1>3, AlarmsOf DEF Waiting, WillBeQueued
<1> HIDE DEF time, waking
<1>10. Waiting(r)' => WillBeQueued(r)'
  BY <1>1, <1>6, <1>7, <1>9 DEF WillBeQueued
<1>11. sleepingRooms'[r] # Null => sleepingRooms'[r] >= 0
  BY <1>5, <1>8
<1> QED BY <1>10, <1>11

(* the rest of main moves time forward, which brings alarms nearer *)
LEMMA AlarmsOfMain ==
  ASSUME TypeOK, Clocks, Barriers, Alarms, MainSide, ~BegetRoomProcessQueue
  PROVE  Alarms'
<1>1. UNCHANGED <<Queue, held, intents>>
  BY MainKeys, MainFrame DEF Barriers, keyView, loopVars, lists
<1>2. UNCHANGED sleepingRooms
  BY DEF MainSide, Main, StartTick, PublishRun, HandleRunnerConnected, HandleTickFinished, AdvanceTime, EndTick,
         AbandonIntents, PublishAbandoned, roomSets
<1>3. shardTime' = shardTime \/ shardTime' = tickTime + 1
  BY DEF MainSide, Main, StartTick, PublishRun, HandleRunnerConnected, HandleTickFinished, AdvanceTime, EndTick,
         AbandonIntents, PublishAbandoned, mainVars
<1>4. shardTime \in Int /\ shardTime' \in Int /\ shardTime' >= shardTime
  BY <1>3 DEF TypeOK, TypeMain, Barriers, MainStages, Times
<1> SUFFICES ASSUME NEW r \in Rooms
             PROVE  /\ sleepingRooms'[r] # Null => sleepingRooms'[r] >= 0
                    /\ Waiting(r)' => WillBeQueued(r)'
  BY AlarmsOf DEF Alarms, PushedIntentsWake, WillBeQueued, Waiting, Queue
<1>5. sleepingRooms[r] # Null => sleepingRooms[r] \in Int
  BY DEF TypeOK, TypeStore, Score
<1> QED BY <1>1, <1>2, <1>4, <1>5, AlarmsOf DEF Waiting, WillBeQueued

(* putting a room to sleep only lowers alarms, and sets none before the first tick *)
LEMMA SettleAlarms ==
  ASSUME TypeOK, NEW r \in Rooms, NEW didWake \in BOOLEAN, NEW players, NEW wake \in Wakes(finalizingTime),
         SettleRoom(r, didWake, players, wake), NEW q \in Rooms
  PROVE  /\ sleepingRooms[q] # Null => sleepingRooms'[q] # Null /\ sleepingRooms'[q] <= sleepingRooms[q]
         /\ (sleepingRooms[q] # Null => sleepingRooms[q] >= 0)
              => (sleepingRooms'[q] # Null => sleepingRooms'[q] >= 0)
<1>1. sleepingRooms \in SortedSet /\ finalizingTime \in Nat /\ sleepingRooms[q] \in Score
  BY DEF TypeOK, TypeStore, TypeFinalize, SortedSet
<1>2. wake # Null => wake - 1 \in Int /\ wake - 1 >= 0
  BY <1>1 DEF Wakes
<1>3. CASE sleepingRooms' = sleepingRooms
  BY <1>1, <1>3 DEF Score
<1>4. CASE wake # Null /\ sleepingRooms' = ZAddLT(sleepingRooms, r, wake - 1)
  <2> DEFINE alarm == wake - 1
  <2>1. alarm \in Int /\ alarm >= 0 /\ sleepingRooms' = ZAddLT(sleepingRooms, r, alarm)
    BY <1>2, <1>4
  <2> HIDE DEF alarm
  <2>2. sleepingRooms'[q] = IF q = r /\ (sleepingRooms[r] = Null \/ alarm < sleepingRooms[r]) THEN alarm
                            ELSE sleepingRooms[q]
    BY <1>1, <2>1 DEF ZAddLT, SortedSet
  <2>3. CASE q = r /\ (sleepingRooms[r] = Null \/ alarm < sleepingRooms[r])
    <3>1. sleepingRooms'[q] = alarm /\ alarm # Null
      BY <2>1, <2>2, <2>3, NullAssumption
    <3>2. sleepingRooms[q] # Null => sleepingRooms[q] \in Int /\ alarm < sleepingRooms[q]
      BY <1>1, <2>3 DEF Score
    <3> QED BY <2>1, <3>1, <3>2
  <2>4. CASE ~(q = r /\ (sleepingRooms[r] = Null \/ alarm < sleepingRooms[r]))
    BY <1>1, <2>2, <2>4 DEF Score
  <2> QED BY <2>3, <2>4
<1> QED BY <1>3, <1>4 DEF SettleRoom

(* a room leaves the queue for a worker's hands, and those with its intents taken *)
LEMMA AlarmsOfProcessors ==
  ASSUME TypeOK, Clocks, Barriers, Alarms, ProcessorSide
  PROVE  Alarms'
<1>1. UNCHANGED <<QueueTime, shardTime>>
  BY ProcessorFrame DEF mainVars, QueueTime
<1>2. held \in [Workers -> SUBSET Rooms] /\ intents \in [Rooms -> SUBSET ((Users \cup {System}) \X Times)]
  BY DEF TypeOK, TypeWorkers, TypeStore
<1>3. CASE UNCHANGED <<sleepingRooms, processRooms, held, intents>>
  <2>1. \A r \in Rooms : (Waiting(r)' <=> Waiting(r)) /\ (WillBeQueued(r)' <=> WillBeQueued(r))
    BY <1>1, <1>3 DEF Waiting, WillBeQueued, Queue
  <2> QED BY <1>3, <2>1, AlarmsOf DEF Alarms, PushedIntentsWake, WillBeQueued, Waiting, Queue
<1>4. ASSUME NEW w \in Workers, NEW q \in Rooms, PopRoom(w, q) PROVE Alarms'
  <2>1. Queue' = Queue \ {q} /\ UNCHANGED <<sleepingRooms, intents>> /\ held' = [held EXCEPT ![w] = held[w] \cup {q}]
    BY <1>4, PopRoomKeys DEF PopRoom, Barriers, roomSets, lists
  <2>2. q \in held'[w] /\ \A v \in Workers : held[v] \subseteq held'[v]
    BY <1>2, <2>1
  <2>3. \A r \in Rooms : (Waiting(r)' <=> Waiting(r)) /\ (WillBeQueued(r) => WillBeQueued(r)')
    BY <1>1, <2>1, <2>2 DEF Waiting, WillBeQueued
  <2> QED BY <2>1, <2>3, AlarmsOf DEF Alarms, PushedIntentsWake, WillBeQueued, Waiting, Queue
<1>5. ASSUME NEW w \in Workers, NEW q \in Rooms, StartRoom(w, q) PROVE Alarms'
  <2>1. /\ UNCHANGED <<sleepingRooms, processRooms>> /\ held' = [held EXCEPT ![w] = held[w] \ {q}]
        /\ intents' = [intents EXCEPT ![q] = {}]
    BY <1>5 DEF StartRoom, roomSets, tickKeys
  <2>2. ~Waiting(q)'
    BY <1>2, <2>1 DEF Waiting
  <2>3. \A r \in Rooms \ {q} : \A v \in Workers : r \in held[v] => r \in held'[v]
    BY <1>2, <2>1
  <2>4. \A r \in Rooms \ {q} : (Waiting(r)' <=> Waiting(r)) /\ (WillBeQueued(r) => WillBeQueued(r)')
    BY <1>1, <1>2, <2>1, <2>3 DEF Waiting, WillBeQueued, Queue
  <2> QED BY <2>1, <2>2, <2>4, AlarmsOf DEF Alarms, PushedIntentsWake, WillBeQueued, Waiting, Queue
<1>6. ASSUME NEW w \in Workers, NEW q \in Rooms, FinalizeRoom(w, q) \/ FinalizeExtraRoom(w, q) PROVE Alarms'
  <2>1. UNCHANGED <<processRooms, held, intents>>
    BY <1>6 DEF FinalizeRoom, FinalizeExtraRoom, tickKeys, loopVars
  <2>2. PICK didWake \in BOOLEAN, players \in SUBSET Users, wake \in Wakes(finalizingTime) :
          SettleRoom(q, didWake, players, wake)
    BY <1>6 DEF FinalizeRoom, FinalizeExtraRoom
  <2> SUFFICES ASSUME NEW r \in Rooms
               PROVE  /\ sleepingRooms'[r] # Null => sleepingRooms'[r] >= 0
                      /\ Waiting(r)' => WillBeQueued(r)'
    BY DEF Alarms, PushedIntentsWake, WillBeQueued, Waiting, Queue
  <2>3. /\ sleepingRooms[r] # Null => sleepingRooms'[r] # Null /\ sleepingRooms'[r] <= sleepingRooms[r]
        /\ (sleepingRooms[r] # Null => sleepingRooms[r] >= 0)
              => (sleepingRooms'[r] # Null => sleepingRooms'[r] >= 0)
    BY <2>2, SettleAlarms
  <2>4. shardTime \in Int /\ (sleepingRooms[r] # Null => sleepingRooms[r] \in Int)
    BY DEF TypeOK, TypeMain, TypeStore, Score, Times
  <2>5. sleepingRooms'[r] # Null => sleepingRooms'[r] \in Int
    <3>1. TypeOK'
      BY NextTypes DEF Next, ProcessorSide
    <3> QED BY <3>1 DEF TypeOK, TypeStore, Score
  <2>6. Waiting(r)' <=> Waiting(r)
    BY <2>1 DEF Waiting
  <2>7. WillBeQueued(r) => WillBeQueued(r)'
    BY <1>1, <2>1, <2>3, <2>4, <2>5 DEF WillBeQueued, Queue
  <2> QED BY <2>3, <2>6, <2>7, AlarmsOf
<1>7. \/ UNCHANGED <<sleepingRooms, processRooms, held, intents>>
      \/ \E w \in Workers, q \in Rooms : PopRoom(w, q) \/ StartRoom(w, q) \/ FinalizeRoom(w, q) \/ FinalizeExtraRoom(w, q)
  BY DEF ProcessorSide, Service, HandleProcess, HandleFinalize, FinishFinalize, Worker, SendIntents,
         MarkExtraRooms, RoomDidProcess, AnnounceFinalize, DrainEnds, WorkerSleeps, Finalize,
         RoomsDidFinalize, tickKeys, roomSets, lists, loopVars
<1> QED BY <1>3, <1>4, <1>5, <1>6, <1>7

(* a player's intents are not a backend's; whoever pushes one sets an alarm for the tick he knows of *)
LEMMA AlarmsOfRunners ==
  ASSUME TypeOK, Clocks, Barriers, Alarms, RunnerSide
  PROVE  Alarms'
<1>1. UNCHANGED <<Queue, held, shardTime>>
  BY RunnerKeys, RunnerFrame DEF Barriers, keyView, loopVars, mainVars
<1>2. sleepingRooms \in SortedSet /\ intents \in [Rooms -> SUBSET ((Users \cup {System}) \X Times)]
  BY DEF TypeOK, TypeStore, SortedSet
<1>3. ASSUME NEW q \in Rooms, NEW now \in Times, PushIntentsForRoom(q, now) PROVE Alarms'
  <2>1. /\ sleepingRooms' = [sleepingRooms EXCEPT ![q] = now + 1] /\ now <= shardTime
        /\ intents' = [intents EXCEPT ![q] = intents[q] \cup {<<System, now>>}]
    BY <1>3 DEF PushIntentsForRoom, ZAdd
  <2>2. now \in Int /\ now >= 1 /\ now + 1 # Null /\ shardTime \in Int
    BY NullAssumption DEF Times, TypeOK, TypeMain
  <2>3. sleepingRooms'[q] = now + 1
    BY <1>2, <2>1 DEF SortedSet
  <2>4. WillBeQueued(q)'
    BY <1>1, <2>1, <2>2, <2>3 DEF WillBeQueued
  <2>5. sleepingRooms'[q] >= 0
    BY <2>2, <2>3
  <2>6. \A r \in Rooms \ {q} : sleepingRooms'[r] = sleepingRooms[r] /\ intents'[r] = intents[r]
    BY <1>2, <2>1 DEF SortedSet
  <2>7. \A r \in Rooms \ {q} : (Waiting(r)' <=> Waiting(r)) /\ (WillBeQueued(r)' <=> WillBeQueued(r))
    BY <1>1, <2>6 DEF Waiting, WillBeQueued
  <2>8. \A r \in Rooms : /\ sleepingRooms'[r] # Null => sleepingRooms'[r] >= 0
                         /\ Waiting(r)' => WillBeQueued(r)'
    BY <2>4, <2>5, <2>6, <2>7, AlarmsOf
  <2> QED BY <2>8 DEF Alarms, PushedIntentsWake, WillBeQueued, Waiting, Queue
<1>4. ASSUME sleepingRooms' = sleepingRooms, \A r \in Rooms : Waiting(r)' => Waiting(r)
      PROVE  Alarms'
  <2>1. \A r \in Rooms : WillBeQueued(r)' <=> WillBeQueued(r)
    BY <1>1, <1>4 DEF WillBeQueued
  <2>2. \A r \in Rooms : /\ sleepingRooms'[r] # Null => sleepingRooms'[r] >= 0
                         /\ Waiting(r)' => WillBeQueued(r)'
    BY <1>4, <2>1, AlarmsOf
  <2> QED BY <2>2 DEF Alarms, PushedIntentsWake, WillBeQueued, Waiting, Queue
<1>5. ASSUME NEW u \in Users, NEW success \in BOOLEAN, PublishIntents(u, success)
      PROVE  sleepingRooms' = sleepingRooms /\ \A r \in Rooms : Waiting(r)' => Waiting(r)
  <2>1. /\ sleepingRooms' = sleepingRooms
        /\ \A r \in Rooms : intents'[r] = intents[r] \/ intents'[r] = intents[r] \cup {<<u, runTime>>}
    BY <1>5 DEF PublishIntents, roomSets
  <2>2. \A t \in Times : <<u, runTime>> # <<System, t>>
    BY TickAssumption
  <2> QED BY <2>1, <2>2 DEF Waiting
<1>6. \/ UNCHANGED <<sleepingRooms, intents>>
      \/ \E r \in Rooms, now \in Times : PushIntentsForRoom(r, now)
      \/ \E u \in Users, s \in BOOLEAN : PublishIntents(u, s)
  BY DEF RunnerSide, Run, TakeRun, RunCloses, RunEnds, RunnerCrashes, RunnerConnects, RunUser, TakeUser,
         ReadIntentRooms, Deactivate, ResetCounts, NotifyProcessors, Terminated, vars, roomSets, lists
<1>7. UNCHANGED intents => \A r \in Rooms : Waiting(r)' => Waiting(r)
  BY DEF Waiting
<1> QED BY <1>3, <1>4, <1>5, <1>6, <1>7

(* An intent pushed to a room that may be asleep is never stranded there:  *)
(* the room is queued or held, or its alarm is no later than the next      *)
(* queue but one (model.ts pushIntentsForRoomNextTick, sleepRoomUntil).    *)
THEOREM PushedIntentsArrive == Spec => []PushedIntentsWake
<1>1. Init => Alarms
  BY DEF Init, Alarms, PushedIntentsWake
<1>2. TypeOK /\ Clocks /\ Barriers /\ Alarms /\ [Next]_vars => Alarms'
  BY Sides, AlarmsOfBeget, AlarmsOfMain, AlarmsOfProcessors, AlarmsOfRunners
<1>3. Alarms => PushedIntentsWake
  BY DEF Alarms
<1> QED BY <1>1, <1>2, <1>3, BarriersHold, PTL DEF Spec
-----------------------------------------------------------------------------
(***************************************************************************)
(* Wake-ups.                                                               *)
(***************************************************************************)
EveryMessageWakes ==
  \A i \in DOMAIN processorChannel : processorChannel[i].type = "process" => processorChannel[i].wake >= 1

ZeroedSome == \A u \in Users : userPc[u] \in {"reset", "notify"} => zeroed[u] # {}

\* what brings a worker to the queue of the tick main is in
Looking == \E w \in Workers : WillLook(w)
Asked ==
  \E i \in DOMAIN processorChannel : processorChannel[i].type = "process" /\ processorChannel[i].time = tickTime
Notifying == \E u \in Users : userPc[u] \in {"reset", "notify"} /\ runTime = tickTime
Attended == Looking \/ Asked \/ Notifying \/ tickTime \in abandonNotices

Awake ==
  /\ EveryMessageWakes /\ ZeroedSome
  /\ mainPc \in {"run", "listen"} /\ crashes = 0 /\ Available(tickTime) # {} => Attended

(* a request that is published asks; those published before still do *)
LEMMA AskedAppend ==
  ASSUME TypeOK, NEW m \in ProcessorMessages, processorChannel' = Append(processorChannel, m)
  PROVE  /\ tickTime' = tickTime /\ Asked => Asked'
         /\ m.type = "process" /\ m.time = tickTime' => Asked'
         /\ EveryMessageWakes /\ (m.type = "process" => m.wake >= 1) => EveryMessageWakes'
<1>1. processorChannel \in Seq(ProcessorMessages)
  BY DEF TypeOK, TypeChannels
<1> DEFINE next == Append(processorChannel, m)
<1>2. /\ \A i \in DOMAIN processorChannel : i \in DOMAIN next /\ next[i] = processorChannel[i]
      /\ \A i \in DOMAIN next :
           \/ i \in DOMAIN processorChannel /\ next[i] = processorChannel[i]
           \/ i = Len(processorChannel) + 1 /\ next[i] = m
      /\ Len(processorChannel) + 1 \in DOMAIN next /\ next[Len(processorChannel) + 1] = m
  BY <1>1, AppendMessages
<1>3. processorChannel' = next
  OBVIOUS
<1> HIDE DEF next
<1> QED BY <1>2, <1>3 DEF Asked, EveryMessageWakes

(* reading a message takes no request away but that one *)
LEMMA AskedTail ==
  ASSUME TypeOK, processorChannel # <<>>, processorChannel' = Tail(processorChannel), tickTime' = tickTime
  PROVE  /\ Asked /\ ~(Head(processorChannel).type = "process" /\ Head(processorChannel).time = tickTime) => Asked'
         /\ EveryMessageWakes => EveryMessageWakes' /\
              (Head(processorChannel).type = "process" => Head(processorChannel).wake >= 1)
         /\ Head(processorChannel) \in ProcessorMessages
<1>1. processorChannel \in Seq(ProcessorMessages)
  BY DEF TypeOK, TypeChannels
<1> DEFINE next == Tail(processorChannel)
<1>2. /\ 1 \in DOMAIN processorChannel /\ Head(processorChannel) = processorChannel[1]
      /\ \A i \in DOMAIN processorChannel : i # 1 => i - 1 \in DOMAIN next /\ next[i - 1] = processorChannel[i]
      /\ \A i \in DOMAIN next : i + 1 \in DOMAIN processorChannel /\ next[i] = processorChannel[i + 1]
  BY <1>1, TailMessages
<1>3. processorChannel' = next
  OBVIOUS
<1>4. Head(processorChannel) \in ProcessorMessages
  BY <1>1, QueueTypes
<1> HIDE DEF next
<1>5. EveryMessageWakes => EveryMessageWakes'
  BY <1>2, <1>3 DEF EveryMessageWakes
<1>6. EveryMessageWakes /\ Head(processorChannel).type = "process" => Head(processorChannel).wake >= 1
  BY <1>2 DEF EveryMessageWakes
<1>7. Asked /\ ~(Head(processorChannel).type = "process" /\ Head(processorChannel).time = tickTime) => Asked'
  BY <1>2, <1>3 DEF Asked
<1> QED BY <1>4, <1>5, <1>6, <1>7

(* there is a worker to wake *)
LEMMA SomeWorker ==
  /\ Everyone \in Nat /\ Everyone >= 1
  /\ \A S \in SUBSET Workers : IsFiniteSet(S) /\ Cardinality(S) \in Nat /\ (S # {} => Cardinality(S) >= 1)
<1>1. ASSUME NEW S \in SUBSET Workers
      PROVE  IsFiniteSet(S) /\ Cardinality(S) \in Nat /\ (S # {} => Cardinality(S) >= 1)
  BY FS_Subset, FS_CardinalityType, FS_EmptySet, TickAssumption
<1> QED BY <1>1, TickAssumption, EveryoneType DEF Everyone

(* main asks every worker to look when it starts a tick and when it abandons one *)
LEMMA AwakeOfMain ==
  ASSUME TypeOK, Clocks, Barriers, Awake, MainSide
  PROVE  Awake'
<1>1. UNCHANGED <<workerPc, currentTime, pendingTime, crashes, userPc, zeroed, runTime>>
  BY MainFrame DEF loopVars, runnerVars
<1>2. ZeroedSome'
  BY <1>1 DEF Awake, ZeroedSome
<1>3. /\ \A t \in Times : ProcessMessage(t, Everyone) \in ProcessorMessages
      /\ \A t \in Times : /\ ProcessMessage(t, Everyone).type = "process" /\ ProcessMessage(t, Everyone).time = t
                          /\ ProcessMessage(t, Everyone).wake >= 1
  BY MessageTypes, SomeWorker DEF ProcessMessage
<1>4. CASE StartTick
  <2>1. processorChannel' = Append(processorChannel, ProcessMessage(tickTime', Everyone)) /\ tickTime' \in Times
    BY <1>4 DEF StartTick, TypeOK, TypeMain
  <2> QED BY <1>2, <1>3, <2>1, AskedAppend DEF Awake, Attended
<1>5. ASSUME NEW t \in Times, PublishAbandoned(t) PROVE Awake'
  <2>1. /\ processorChannel' = Append(processorChannel, ProcessMessage(t, Everyone))
        /\ abandonNotices' = abandonNotices \ {t}
        /\ UNCHANGED <<mainVars, processRooms>>
    BY <1>5 DEF PublishAbandoned, tickKeys
  <2>2. UNCHANGED <<tickTime, mainPc, QueueTime>>
    BY <2>1 DEF mainVars, QueueTime
  <2>3. EveryMessageWakes' /\ (Asked => Asked') /\ (t = tickTime => Asked')
    BY <1>3, <2>1, <2>2, AskedAppend DEF Awake
  <2>4. (Looking' <=> Looking) /\ (Notifying' <=> Notifying)
    BY <1>1, <2>2 DEF Looking, WillLook, Notifying
  <2>5. Attended => Attended'
    BY <2>1, <2>2, <2>3, <2>4 DEF Attended
  <2>6. Available(tickTime)' = Available(tickTime)
    BY <2>1, <2>2 DEF Available
  <2> QED BY <1>1, <1>2, <2>2, <2>3, <2>5, <2>6 DEF Awake
<1>6. CASE AbandonIntents
  <2>1. UNCHANGED <<processorChannel, tickTime>> /\ tickTime \in abandonNotices'
    BY <1>6 DEF AbandonIntents
  <2>2. EveryMessageWakes'
    BY <2>1 DEF Awake, EveryMessageWakes
  <2> QED BY <1>2, <2>1, <2>2 DEF Awake, Attended
<1>7. CASE PublishRun \/ HandleRunnerConnected
  <2>1. UNCHANGED <<processorChannel, tickTime, processRooms, abandonNotices, nextTasks>>
        /\ mainPc \in {"run", "listen"} /\ mainPc' \in {"run", "listen"}
    BY <1>7 DEF PublishRun, HandleRunnerConnected, mainVars, tickKeys
  <2>2. UNCHANGED QueueTime
    BY <2>1 DEF QueueTime
  <2>3. EveryMessageWakes' /\ (Attended' <=> Attended)
    BY <1>1, <2>1, <2>2 DEF Awake, EveryMessageWakes, Attended, Looking, WillLook, Asked, Notifying
  <2>4. Available(tickTime)' = Available(tickTime)
    BY <2>1 DEF Available
  <2> QED BY <1>1, <1>2, <2>1, <2>3, <2>4 DEF Awake
<1>8. CASE HandleTickFinished \/ BegetRoomProcessQueue \/ AdvanceTime \/ EndTick
  <2>1. UNCHANGED processorChannel /\ mainPc' \notin {"run", "listen"}
    BY <1>8 DEF HandleTickFinished, BegetRoomProcessQueue, AdvanceTime, EndTick, channels
  <2>2. EveryMessageWakes'
    BY <2>1 DEF Awake, EveryMessageWakes
  <2> QED BY <1>2, <2>1, <2>2 DEF Awake
<1> QED BY <1>4, <1>5, <1>6, <1>7, <1>8 DEF MainSide, Main

(* while rooms of the tick are available no request to look at it is refused *)
LEMMA EveryoneWakeable ==
  ASSUME TypeOK, Clocks, Barriers, mainPc \in {"run", "listen"}, Available(tickTime) # {}
  PROVE  QueueTime = tickTime /\ \A w \in Workers : Wakeable(w, tickTime)
<1>1. QueueTime = tickTime /\ QueueTime \in Times /\ tickTime \in Int
  BY QueueTimeType DEF QueueTime, Barriers
<1>2. Available(tickTime) \subseteq Queue /\ Queue \subseteq Rooms
  BY <1>1 DEF Available, ZByScore, Queue, ZMembers, TypeOK, TypeStore
<1>3. Undone # {}
  BY <1>2 DEF Undone
<1>4. Pending # Null
  BY <1>3 DEF Barriers, Countdown
<1>5. finalizedTime < QueueTime
  BY <1>4 DEF Barriers, Phases, FinalizeLoop
<1>6. \A w \in Workers : currentTime[w] <= tickTime
  BY DEF Barriers, NobodyAhead
<1>7. finalizedTime \in Int /\ \A w \in Workers : currentTime[w] \in Int
  BY DEF TypeOK, TypeFinalize, TypeWorkers
<1> QED BY <1>1, <1>5, <1>6, <1>7 DEF Wakeable

(* a request to look at the tick starts an idle worker or stays with a busy one *)
LEMMA AwakeOfMessages ==
  ASSUME TypeOK, Clocks, Barriers, Awake, HandleProcess
  PROVE  Awake'
<1> DEFINE time == Head(processorChannel).time
<1> DEFINE activations == Head(processorChannel).wake
<1> DEFINE ready == {w \in Idle : Wakeable(w, time)}
<1> DEFINE busy == Workers \ Idle
<1>1. /\ UNCHANGED <<mainVars, tickKeys, runnerVars, abandonNotices>>
      /\ processorChannel # <<>> /\ Head(processorChannel).type = "process"
      /\ processorChannel' = Tail(processorChannel)
  BY DEF HandleProcess
<1>2. UNCHANGED <<mainPc, tickTime, QueueTime, processRooms, crashes, userPc, zeroed, runTime>>
  BY <1>1 DEF mainVars, tickKeys, runnerVars, QueueTime
<1>3. /\ EveryMessageWakes' /\ activations >= 1 /\ Head(processorChannel) \in ProcessorMessages
      /\ Asked /\ time # tickTime => Asked'
  BY <1>1, <1>2, AskedTail DEF Awake
<1>4. activations \in Int /\ time \in Times /\ time \in Int
  BY <1>3, EveryoneType DEF ProcessorMessages, Times
<1>5. ZeroedSome'
  BY <1>2 DEF Awake, ZeroedSome
<1>6. PICK started \in SUBSET ready, asked \in SUBSET busy :
        /\ Cardinality(started) = Smaller(activations, Cardinality(ready))
        /\ Cardinality(asked) = Smaller(activations - Cardinality(started), Cardinality(busy))
        /\ workerPc' = [w \in Workers |-> IF w \in started THEN "drain" ELSE workerPc[w]]
        /\ currentTime' = [w \in Workers |-> IF w \in started THEN time ELSE currentTime[w]]
        /\ pendingTime' = [w \in Workers |->
                            IF w \in started THEN Null
                            ELSE IF w \in asked /\ Wakeable(w, time) THEN Latch(w, time)
                            ELSE pendingTime[w]]
  BY DEF HandleProcess
<1>7. /\ started \subseteq Idle /\ Idle \subseteq Workers /\ ready \subseteq Workers /\ busy \subseteq Workers
      /\ started \subseteq Workers /\ asked \subseteq Workers
  BY DEF Idle
<1>8. SUFFICES ASSUME mainPc \in {"run", "listen"}, crashes = 0, Available(tickTime) # {} PROVE Attended'
  <2>1. Available(tickTime)' = Available(tickTime)
    BY <1>2 DEF Available
  <2> QED BY <1>2, <1>3, <1>5, <2>1 DEF Awake
<1>9. QueueTime = tickTime /\ \A w \in Workers : Wakeable(w, tickTime)
  BY <1>8, EveryoneWakeable
<1>10. time <= tickTime /\ tickTime \in Int
  <2>1. processorChannel \in Seq(ProcessorMessages)
    BY DEF TypeOK, TypeChannels
  <2>2. 1 \in DOMAIN processorChannel /\ Head(processorChannel) = processorChannel[1]
    BY <1>1, <2>1, TailMessages
  <2> QED BY <2>2, QueueTimeType DEF Barriers, NobodyAhead
<1>11. \A w \in Workers : pendingTime[w] # Null => pendingTime[w] \in Int /\ pendingTime[w] <= tickTime
  BY DEF Barriers, NobodyAhead, TypeOK, TypeWorkers, Times
<1>12. ASSUME NEW w \in Workers, WillLook(w) PROVE WillLook(w)'
  <2>1. workerPc[w] # "idle"
    BY <1>12 DEF WillLook
  <2>2. w \notin started
    BY <1>7, <2>1 DEF Idle
  <2>3. workerPc'[w] = workerPc[w] /\ currentTime'[w] = currentTime[w]
    BY <1>6, <2>2
  <2>4. ASSUME pendingTime[w] = QueueTime PROVE pendingTime'[w] = QueueTime
    <3>1. pendingTime[w] # Null
      BY <1>9, <1>10, <2>4, NullAssumption
    <3>2. ~(pendingTime[w] < time)
      BY <1>4, <1>9, <1>10, <2>4
    <3>3. Latch(w, time) = pendingTime[w]
      BY <3>1, <3>2 DEF Latch
    <3> HIDE DEF time
    <3> QED BY <1>6, <2>2, <2>4, <3>3
  <2> QED BY <1>2, <1>12, <2>3, <2>4 DEF WillLook
<1>13. ASSUME time = tickTime PROVE Looking'
  <2>1. ready = Idle
    BY <1>7, <1>9, <1>13
  <2>2. CASE started # {}
    <3>1. PICK w \in started : TRUE
      BY <2>2
    <3>2. workerPc'[w] = "drain" /\ currentTime'[w] = time
      BY <1>6, <1>7, <3>1
    <3> HIDE DEF time
    <3> QED BY <1>2, <1>7, <1>9, <1>13, <3>1, <3>2 DEF Looking, WillLook
  <2>3. CASE started = {}
    <3>1. Cardinality(started) = 0
      BY <2>3, FS_EmptySet
    <3>2. Cardinality(ready) \in Nat /\ Cardinality(busy) \in Nat
      BY <1>7, SomeWorker
    <3>3. Cardinality(ready) = 0
      BY <1>3, <1>4, <1>6, <3>1, <3>2 DEF Smaller
    <3>4. ready = {}
      BY <1>7, <3>3, SomeWorker
    <3>5. busy = Workers
      BY <2>1, <3>4
    <3>6. Cardinality(busy) >= 1
      BY <3>5, SomeWorker DEF Everyone
    <3>7. Cardinality(asked) >= 1
      <4> DEFINE n == Cardinality(busy)
      <4>1. Cardinality(asked) = Smaller(activations - 0, n) /\ n \in Int /\ n >= 1
        BY <1>6, <3>1, <3>2, <3>6
      <4> HIDE DEF n, activations
      <4> QED BY <1>3, <1>4, <4>1 DEF Smaller
    <3>8. asked # {}
      BY <3>7, FS_EmptySet
    <3>9. PICK w \in asked : TRUE
      BY <3>8
    <3>10. w \in Workers /\ workerPc[w] # "idle" /\ w \notin started
      BY <1>7, <2>3, <3>9 DEF Idle
    <3>11. workerPc'[w] = workerPc[w]
      BY <1>6, <3>10
    <3>12. Wakeable(w, time)
      BY <1>9, <1>13, <3>10
    <3>13. pendingTime'[w] = Latch(w, time)
      BY <1>6, <3>9, <3>10, <3>12
    <3>14. Latch(w, time) = time
      BY <1>4, <1>11, <1>13, <3>10 DEF Latch
    <3> HIDE DEF time
    <3> QED BY <1>2, <1>9, <1>13, <3>10, <3>11, <3>13, <3>14 DEF Looking, WillLook
  <2> QED BY <2>2, <2>3
<1>14. Looking => Looking'
  BY <1>12 DEF Looking
<1>15. Notifying => Notifying'
  BY <1>2 DEF Notifying
<1>16. Attended
  BY <1>8 DEF Awake
<1> HIDE DEF time
<1> QED BY <1>1, <1>2, <1>3, <1>13, <1>14, <1>15, <1>16 DEF Attended

(* a worker goes on looking until the queue of the tick has no room to take, and then goes on to the *)
(* tick it was asked for meanwhile                                                                   *)
LEMMA WorkerGoesOn ==
  ASSUME TypeOK, Clocks, Barriers, NEW w \in Workers, Worker(w), Available(QueueTime)' # {}
  PROVE  Available(QueueTime) # {} /\ (Looking => Looking')
<1>1. QueueTime' = QueueTime /\ QueueTime \in Times
  BY WorkerCounters, QueueTimeType DEF Barriers
<1>2. /\ workerPc \in [Workers -> {"idle", "drain", "send", "mark", "decr", "announce", "unwind"}]
      /\ currentTime \in [Workers -> 0 .. MaxTime + 1] /\ pendingTime \in [Workers -> Times \cup {Null}]
  BY DEF TypeOK, TypeWorkers
<1>3. /\ processRooms[QueueTime] \in SortedSet
      /\ \A r \in Rooms : PopRoom(w, r) =>
           /\ currentTime[w] = QueueTime /\ r \in Available(QueueTime)
           /\ processRooms' = [processRooms EXCEPT ![QueueTime] = ZRem(processRooms[QueueTime], {r})]
  BY <1>1, PopRoomKeys DEF Barriers, PopRoom, TypeOK, TypeStore, SortedSet
<1>4. Available(QueueTime) # {}
  <2>1. (\A r \in Rooms : ~PopRoom(w, r)) => UNCHANGED processRooms
    BY DEF Worker, StartRoom, SendIntents, MarkExtraRooms, RoomDidProcess, AnnounceFinalize, DrainEnds,
           WorkerSleeps, tickKeys
  <2> QED BY <1>1, <1>3, <2>1 DEF Available
<1>5. \A v \in Workers \ {w} : workerPc'[v] = workerPc[v] /\ currentTime'[v] = currentTime[v] /\ pendingTime'[v] = pendingTime[v]
  BY <1>2 DEF Worker, PopRoom, StartRoom, SendIntents, MarkExtraRooms, RoomDidProcess, AnnounceFinalize,
              DrainEnds, WorkerSleeps
<1>6. CASE DrainEnds(w)
  <2>1. UNCHANGED <<processRooms, currentTime, pendingTime>> /\ Available(currentTime[w]) = {} /\ workerPc'[w] = "unwind"
    BY <1>2, <1>6 DEF DrainEnds, tickKeys
  <2>2. currentTime[w] # QueueTime
    BY <1>4, <2>1
  <2>3. WillLook(w) => WillLook(w)'
    BY <1>1, <2>1, <2>2 DEF WillLook
  <2> QED BY <1>1, <1>4, <1>5, <2>3 DEF Looking, WillLook
<1>7. CASE WorkerSleeps(w)
  <2>1. pendingTime[w] = QueueTime => workerPc'[w] = "drain" /\ currentTime'[w] = QueueTime
    BY <1>1, <1>2, <1>7, NullAssumption DEF WorkerSleeps, Times
  <2>2. workerPc[w] = "unwind"
    BY <1>7 DEF WorkerSleeps
  <2>3. WillLook(w) => WillLook(w)'
    BY <1>1, <2>1, <2>2 DEF WillLook
  <2> QED BY <1>1, <1>4, <1>5, <2>3 DEF Looking, WillLook
<1>8. CASE ~DrainEnds(w) /\ ~WorkerSleeps(w)
  <2>1. UNCHANGED <<currentTime, pendingTime>>
    BY <1>8 DEF Worker, PopRoom, StartRoom, SendIntents, MarkExtraRooms, RoomDidProcess, AnnounceFinalize
  <2>2. workerPc'[w] \notin {"idle", "unwind"} /\ workerPc[w] \notin {"idle", "unwind"}
    BY <1>2, <1>8 DEF Worker, PopRoom, StartRoom, SendIntents, MarkExtraRooms, RoomDidProcess, AnnounceFinalize
  <2>3. WillLook(w) => WillLook(w)'
    BY <1>1, <2>1, <2>2 DEF WillLook
  <2> QED BY <1>1, <1>4, <1>5, <2>3 DEF Looking, WillLook
<1> QED BY <1>6, <1>7, <1>8

(* no request is lost in the processor service *)
LEMMA AwakeOfProcessors ==
  ASSUME TypeOK, Clocks, Barriers, Awake, ProcessorSide
  PROVE  Awake'
<1>1. UNCHANGED <<mainPc, tickTime, QueueTime, crashes, userPc, zeroed, runTime, abandonNotices>>
  BY ProcessorFrame DEF mainVars, runnerVars, QueueTime
<1>2. ZeroedSome'
  BY <1>1 DEF Awake, ZeroedSome
<1>3. Notifying => Notifying'
  BY <1>1 DEF Notifying
<1>4. ASSUME EveryMessageWakes', Asked => Asked',
             Available(tickTime)' # {} /\ mainPc \in {"run", "listen"} => Available(tickTime) # {} /\ (Looking => Looking')
      PROVE  Awake'
  BY <1>1, <1>2, <1>3, <1>4 DEF Awake, Attended
<1>5. CASE HandleFinalize
  <2>1. /\ processorChannel # <<>> /\ Head(processorChannel).type = "finalize"
        /\ processorChannel' = Tail(processorChannel)
        /\ UNCHANGED <<workerPc, currentTime, pendingTime, processRooms>>
    BY <1>5 DEF HandleFinalize, loopVars, tickKeys
  <2>2. EveryMessageWakes' /\ (Asked => Asked')
    BY <1>1, <2>1, AskedTail DEF Awake
  <2>3. (Looking => Looking') /\ Available(tickTime)' = Available(tickTime)
    BY <1>1, <2>1 DEF Looking, WillLook, Available
  <2> QED BY <1>4, <2>2, <2>3
<1>6. CASE FinishFinalize \/ \E w \in Workers : Finalize(w)
  <2>1. UNCHANGED <<workerPc, currentTime, pendingTime, processRooms, processorChannel>>
    BY <1>6 DEF FinishFinalize, Finalize, FinalizeRoom, FinalizeExtraRoom, RoomsDidFinalize, loopVars, tickKeys, channels
  <2>2. EveryMessageWakes' /\ (Asked => Asked')
    BY <1>1, <2>1 DEF Awake, EveryMessageWakes, Asked
  <2>3. (Looking => Looking') /\ Available(tickTime)' = Available(tickTime)
    BY <1>1, <2>1 DEF Looking, WillLook, Available
  <2> QED BY <1>4, <2>2, <2>3
<1>7. ASSUME NEW w \in Workers, Worker(w) PROVE Awake'
  <2>1. mainPc \in {"run", "listen"} => tickTime = QueueTime
    BY DEF QueueTime
  <2>2. Available(tickTime)' # {} /\ mainPc \in {"run", "listen"} => Available(tickTime) # {} /\ (Looking => Looking')
    <3>1. SUFFICES ASSUME Available(tickTime)' # {}, mainPc \in {"run", "listen"}
                   PROVE  Available(tickTime) # {} /\ (Looking => Looking')
      OBVIOUS
    <3>2. Available(QueueTime)' # {}
      BY <1>1, <2>1, <3>1 DEF Available
    <3> QED BY <1>7, <2>1, <3>1, <3>2, WorkerGoesOn
  <2>3. CASE UNCHANGED processorChannel
    <3>1. EveryMessageWakes' /\ (Asked => Asked')
      BY <1>1, <2>3 DEF Awake, EveryMessageWakes, Asked
    <3> QED BY <1>4, <2>2, <3>1
  <2>4. CASE AnnounceFinalize(w)
    <3>1. currentTime[w] \in Times /\ processorChannel' = Append(processorChannel, FinalizeMessage(currentTime[w]))
      BY <2>4 DEF AnnounceFinalize, Clocks, WorkerClock
    <3>2. FinalizeMessage(currentTime[w]) \in ProcessorMessages /\ FinalizeMessage(currentTime[w]).type # "process"
      BY <3>1, MessageTypes DEF FinalizeMessage
    <3>3. EveryMessageWakes' /\ (Asked => Asked')
      BY <1>1, <3>1, <3>2, AskedAppend DEF Awake
    <3> QED BY <1>4, <2>2, <3>3
  <2> QED BY <1>7, <2>3, <2>4 DEF Worker, PopRoom, StartRoom, SendIntents, MarkExtraRooms, RoomDidProcess,
                                  DrainEnds, WorkerSleeps, channels
<1> QED BY <1>5, <1>6, <1>7, AwakeOfMessages DEF ProcessorSide, Service

(* a player's publication that frees a room is followed by a request, unless the runner dies between *)
LEMMA AwakeOfPlayers ==
  ASSUME TypeOK, Clocks, Barriers, Awake, NEW u \in Users, RunUser(u)
  PROVE  Awake'
<1>1. /\ UNCHANGED <<mainVars, loopVars, abandonNotices>>
  BY RunnerFrame DEF RunnerSide
<1>2. UNCHANGED <<mainPc, tickTime, QueueTime, abandonNotices, runTime, crashes>>
  BY <1>1 DEF mainVars, QueueTime, RunUser, TakeUser, ReadIntentRooms, Deactivate, PublishIntents, ResetCounts,
              NotifyProcessors, runnerVars
<1>3. Looking => Looking'
  BY <1>1, <1>2 DEF Looking, WillLook, loopVars
<1>4. /\ userPc \in [Users -> {"none", "read", "deactivate", "run", "reset", "notify"}]
      /\ zeroed \in [Users -> SUBSET Rooms] /\ userRooms \in [Users -> SUBSET Rooms]
      /\ processRooms \in [Times -> SortedSet]
  BY DEF TypeOK, TypeRunner, TypeStore, SortedSet
<1>5. CASE TakeUser(u) \/ ReadIntentRooms(u) \/ Deactivate(u)
  <2>1. UNCHANGED <<processorChannel, processRooms, zeroed>>
    BY <1>5 DEF TakeUser, ReadIntentRooms, Deactivate, channels, tickKeys
  <2>2. \A v \in Users : userPc'[v] \in {"reset", "notify"} <=> userPc[v] \in {"reset", "notify"}
    BY <1>4, <1>5 DEF TakeUser, ReadIntentRooms, Deactivate
  <2>3. EveryMessageWakes' /\ ZeroedSome' /\ (Asked => Asked') /\ (Notifying => Notifying')
    BY <1>2, <2>1, <2>2 DEF Awake, EveryMessageWakes, ZeroedSome, Asked, Notifying
  <2>4. Available(tickTime)' = Available(tickTime)
    BY <1>2, <2>1 DEF Available
  <2> QED BY <1>2, <1>3, <2>3, <2>4 DEF Awake, Attended
<1>6. ASSUME NEW success \in BOOLEAN, PublishIntents(u, success) PROVE Awake'
  <2> DEFINE queue == processRooms[runTime]
  <2> DEFINE counted == ZIncrXX(queue, userRooms[u], -1)
  <2> DEFINE done == {r \in userRooms[u] : queue[r] # Null /\ counted[r] <= 0}
  <2>1. /\ UNCHANGED processorChannel /\ userPc[u] = "run"
        /\ processRooms' = [processRooms EXCEPT ![runTime] = counted]
        /\ zeroed' = [zeroed EXCEPT ![u] = done]
        /\ userPc' = [userPc EXCEPT ![u] = IF \E r \in done : counted[r] < 0 THEN "reset"
                                           ELSE IF done # {} THEN "notify" ELSE "none"]
    BY <1>6 DEF PublishIntents, channels
  <2>2. zeroed'[u] = done /\ (userPc'[u] \in {"reset", "notify"} <=> done # {})
    BY <1>4, <2>1
  <2>3. \A v \in Users \ {u} : userPc'[v] = userPc[v] /\ zeroed'[v] = zeroed[v]
    BY <1>4, <2>1
  <2>4. EveryMessageWakes' /\ (Asked => Asked')
    BY <1>2, <2>1 DEF Awake, EveryMessageWakes, Asked
  <2>5. ZeroedSome'
    BY <2>2, <2>3 DEF Awake, ZeroedSome
  <2>6. Notifying => Notifying'
    BY <1>2, <2>1, <2>3 DEF Notifying
  <2>7. runTime \in Times /\ queue \in SortedSet
    BY <1>4, <2>1 DEF Clocks, RunClock
  <2>8. runTime # tickTime => Available(tickTime)' = Available(tickTime)
    BY <1>2, <1>4, <2>1, <2>7 DEF Available
  <2>9. ASSUME runTime = tickTime, done = {} PROVE Available(tickTime)' \subseteq Available(tickTime)
    <3>1. processRooms'[tickTime] = counted
      BY <1>4, <2>1, <2>7, <2>9
    <3>2. ASSUME NEW r \in Rooms, counted[r] # Null, 0 <= counted[r], counted[r] <= 0
          PROVE  queue[r] # Null /\ counted[r] = queue[r]
      <4>1. counted[r] = IF r \in userRooms[u] /\ queue[r] # Null THEN queue[r] + -1 ELSE queue[r]
        BY <2>7 DEF ZIncrXX, SortedSet
      <4>2. ~(r \in userRooms[u] /\ queue[r] # Null)
        BY <2>9, <3>2
      <4> QED BY <3>2, <4>1, <4>2
    <3>3. DOMAIN counted = Rooms /\ DOMAIN queue = Rooms
      BY <2>7 DEF ZIncrXX, SortedSet
    <3>4. \A r \in ZByScore(counted, 0, 0) : r \in ZByScore(queue, 0, 0)
      <4> HIDE DEF counted, queue
      <4> QED BY <3>2, <3>3 DEF ZByScore, ZMembers
    <3> QED BY <1>2, <2>9, <3>1, <3>4 DEF Available
  <2>10. runTime = tickTime /\ done # {} => Notifying'
    BY <1>2, <2>2 DEF Notifying
  <2> HIDE DEF done
  <2> QED BY <1>2, <1>3, <2>4, <2>5, <2>6, <2>8, <2>9, <2>10 DEF Awake, Attended
<1>7. CASE ResetCounts(u)
  <2>1. /\ UNCHANGED <<processorChannel, zeroed>> /\ userPc[u] = "reset" /\ userPc' = [userPc EXCEPT ![u] = "notify"]
        /\ processRooms' = [processRooms EXCEPT ![runTime] = ZAddXX(processRooms[runTime], negative[u], 0)]
    BY <1>7 DEF ResetCounts, channels
  <2>2. \A v \in Users : userPc'[v] \in {"reset", "notify"} <=> userPc[v] \in {"reset", "notify"}
    BY <1>4, <2>1
  <2>3. EveryMessageWakes' /\ ZeroedSome' /\ (Asked => Asked') /\ (Notifying => Notifying')
    BY <1>2, <2>1, <2>2 DEF Awake, EveryMessageWakes, ZeroedSome, Asked, Notifying
  <2>4. runTime # tickTime => Available(tickTime)' = Available(tickTime)
    <3>1. runTime \in Times
      BY <2>1 DEF Clocks, RunClock
    <3> QED BY <1>2, <1>4, <2>1, <3>1 DEF Available
  <2>5. runTime = tickTime => Notifying'
    BY <1>2, <1>4, <2>1 DEF Notifying
  <2> QED BY <1>2, <1>3, <2>3, <2>4, <2>5 DEF Awake, Attended
<1>8. CASE NotifyProcessors(u)
  <2> DEFINE wake == Smaller(Cardinality(zeroed[u]), Everyone)
  <2>1. /\ userPc[u] = "notify" /\ UNCHANGED processRooms
        /\ processorChannel' = Append(processorChannel, ProcessMessage(runTime, wake))
        /\ zeroed' = [zeroed EXCEPT ![u] = {}] /\ userPc' = [userPc EXCEPT ![u] = "none"]
    BY <1>8 DEF NotifyProcessors, tickKeys
  <2>2. zeroed[u] # {} /\ runTime \in Times
    BY <2>1 DEF Awake, ZeroedSome, Clocks, RunClock
  <2>3. Cardinality(zeroed[u]) \in Nat /\ Cardinality(zeroed[u]) >= 1
    <3>1. zeroed[u] \subseteq Rooms
      BY <1>4
    <3>2. IsFiniteSet(zeroed[u]) /\ Cardinality(zeroed[u]) \in Nat
      BY <3>1, FS_Subset, FS_CardinalityType, TickAssumption
    <3>3. Cardinality(zeroed[u]) # 0
      BY <2>2, <3>2, FS_EmptySet
    <3> QED BY <3>2, <3>3
  <2>4. wake \in 0 .. Everyone /\ wake >= 1
    <3> DEFINE n == Cardinality(zeroed[u])
    <3>1. n \in Nat /\ n >= 1 /\ Everyone \in Nat /\ Everyone >= 1
      BY <2>3, SomeWorker
    <3>2. wake = Smaller(n, Everyone)
      OBVIOUS
    <3> HIDE DEF n, wake
    <3> QED BY <3>1, <3>2 DEF Smaller
  <2> HIDE DEF wake
  <2>5. /\ ProcessMessage(runTime, wake) \in ProcessorMessages /\ ProcessMessage(runTime, wake).type = "process"
        /\ ProcessMessage(runTime, wake).time = runTime /\ ProcessMessage(runTime, wake).wake >= 1
    BY <2>2, <2>4, MessageTypes DEF ProcessMessage
  <2>6. EveryMessageWakes' /\ (Asked => Asked') /\ (runTime = tickTime => Asked')
    BY <1>2, <2>1, <2>5, AskedAppend DEF Awake
  <2>7. userPc'[u] = "none" /\ \A v \in Users \ {u} : userPc'[v] = userPc[v] /\ zeroed'[v] = zeroed[v]
    BY <1>4, <2>1
  <2>8. ZeroedSome'
    BY <2>7 DEF Awake, ZeroedSome
  <2>9. runTime # tickTime => ~Notifying
    BY DEF Notifying
  <2>10. Available(tickTime)' = Available(tickTime)
    BY <1>2, <2>1 DEF Available
  <2> QED BY <1>2, <1>3, <2>6, <2>8, <2>9, <2>10 DEF Awake, Attended
<1> QED BY <1>5, <1>6, <1>7, <1>8 DEF RunUser

(* a run begins and ends with no player to notify for; a runner that dies is counted *)
LEMMA AwakeOfRunners ==
  ASSUME TypeOK, Clocks, Barriers, Awake, RunnerSide
  PROVE  Awake'
<1>1. UNCHANGED <<mainVars, loopVars, abandonNotices>>
  BY RunnerFrame
<1>2. UNCHANGED <<mainPc, tickTime, QueueTime>>
  BY <1>1 DEF mainVars, QueueTime
<1>3. Looking => Looking'
  BY <1>1, <1>2 DEF Looking, WillLook, loopVars
<1>4. CASE Run \/ RunnerConnects \/ Terminated \/ UNCHANGED vars \/ \E r \in Rooms, now \in Times : PushIntentsForRoom(r, now)
  <2>1. UNCHANGED <<processorChannel, processRooms, zeroed, userPc, crashes>>
    BY <1>4 DEF Run, TakeRun, RunCloses, RunEnds, RunnerConnects, Terminated, vars, PushIntentsForRoom, channels,
                tickKeys, runnerVars
  <2>2. Notifying => runTime' = runTime
    <3>1. Notifying => runTime \in Times /\ runTime # 0 /\ ~(\A u \in Users : userPc[u] = "none")
      BY DEF Notifying, Clocks, RunClock, Times
    <3> QED BY <1>4, <3>1 DEF Run, TakeRun, RunCloses, RunEnds, RunnerConnects, Terminated, vars,
                              PushIntentsForRoom, runnerVars
  <2>3. EveryMessageWakes' /\ ZeroedSome' /\ (Asked => Asked') /\ (Notifying => Notifying')
    BY <1>2, <2>1, <2>2 DEF Awake, EveryMessageWakes, ZeroedSome, Asked, Notifying
  <2>4. Available(tickTime)' = Available(tickTime)
    BY <1>2, <2>1 DEF Available
  <2> QED BY <1>1, <1>2, <1>3, <2>1, <2>3, <2>4 DEF Awake, Attended
<1>5. CASE RunnerCrashes
  <2>1. UNCHANGED processorChannel /\ crashes' = crashes + 1 /\ userPc' = [u \in Users |-> "none"]
    BY <1>5 DEF RunnerCrashes
  <2>2. crashes' # 0
    BY <2>1 DEF TypeOK, TypeRunner
  <2>3. EveryMessageWakes' /\ ZeroedSome'
    BY <2>1 DEF Awake, EveryMessageWakes, ZeroedSome
  <2> QED BY <2>2, <2>3 DEF Awake
<1> QED BY <1>4, <1>5, AwakeOfPlayers DEF RunnerSide

(* No lost wake-up: as long as the runner does not die, a room that waits  *)
(* for nobody is never left behind while every worker sleeps and no        *)
(* request to look at the queue is on its way, whatever the number of      *)
(* workers and however requests, drains and finalizations interleave       *)
(* (processor.ts requestWorkerWake, wakeable-worker.ts).                   *)
THEOREM NoWakeUpLost == Spec => []NoLostWake
<1>1. Init => Awake
  BY DEF Init, Awake, EveryMessageWakes, ZeroedSome
<1>2. TypeOK /\ Clocks /\ Barriers /\ Awake /\ [Next]_vars => Awake'
  BY Sides, AwakeOfMain, AwakeOfProcessors, AwakeOfRunners
<1>3. Awake => NoLostWake
  BY DEF Awake, NoLostWake, Attended, Looking, Asked, Notifying
<1> QED BY <1>1, <1>2, <1>3, BarriersHold, PTL DEF Spec
-----------------------------------------------------------------------------
(***************************************************************************)
(* Ticks are bulk-synchronous: each step is the abstract step it stands    *)
(* for, or invisible to the abstract specification.                        *)
(***************************************************************************)
\* what the abstract specification sees besides who may act and who has answered
Working == UNION {InHand(w) : w \in Workers}
Touched == IF BulkPhase = "process" THEN TickRooms ELSE Unfinalized
Given == Abandoned(QueueTime)

bulkView == <<QueueTime, BulkPhase, Queue, Working, Touched, users, answered, Given>>

(* the abstract variables are these *)
LEMMA BulkStutter == UNCHANGED bulkView => UNCHANGED Bulk!vars
BY DEF bulkView, Bulk!vars, Queue, Working, Touched, TickRooms, Given

(* the abstract actions, said of these: a player's intents arrive *)
LEMMA BulkAnswer ==
  ASSUME NEW u \in Users, answered' = answered \cup {u},
         UNCHANGED <<QueueTime, BulkPhase, Queue, Working, Touched, users, Given>>
  PROVE  Bulk!Next
<1>1. Bulk!Answer(u)
  BY DEF Bulk!Answer, Queue, Working, Touched, TickRooms, Given
<1> QED BY <1>1 DEF Bulk!Next

(* the timer: the tick waits for nobody *)
LEMMA BulkAbandon ==
  ASSUME Given', UNCHANGED <<QueueTime, BulkPhase, Queue, Working, Touched, users, answered>>
  PROVE  Bulk!Next
<1>1. Bulk!Abandon
  BY DEF Bulk!Abandon, Queue, Working, Touched, TickRooms, Given, Abandoned
<1> QED BY <1>1 DEF Bulk!Next

(* a room whose players have answered is taken to be processed *)
LEMMA BulkClaim ==
  ASSUME NEW r \in Rooms, BulkPhase = "process", r \in Queue, Given \/ users[r] \subseteq answered,
         Queue' = Queue \ {r}, Working' = Working \cup {r},
         UNCHANGED <<QueueTime, BulkPhase, Touched, users, answered, Given>>
  PROVE  Bulk!Next
<1>1. Bulk!Claim(r)
  BY DEF Bulk!Claim, Queue, Working, Touched, TickRooms, Given
<1> QED BY <1>1 DEF Bulk!Next

(* a room that is being processed sends intents to others *)
LEMMA BulkSend ==
  ASSUME NEW targets \in SUBSET Rooms, BulkPhase = "process", Working # {}, Touched' = Touched \cup targets,
         UNCHANGED <<QueueTime, BulkPhase, Queue, Working, users, answered, Given>>
  PROVE  Bulk!Next
<1>1. Bulk!Send(targets)
  BY DEF Bulk!Send, Queue, Working, Touched, TickRooms, Given
<1> QED BY <1>1 DEF Bulk!Next

(* a room is done *)
LEMMA BulkProcessed ==
  ASSUME NEW r \in Rooms, r \in Working, Working' = Working \ {r},
         UNCHANGED <<QueueTime, BulkPhase, Queue, Touched, users, answered, Given>>
  PROVE  Bulk!Next
<1>1. Bulk!Processed(r)
  BY DEF Bulk!Processed, Queue, Working, Touched, TickRooms, Given
<1> QED BY <1>1 DEF Bulk!Next

(* the second phase begins *)
LEMMA BulkStartFinalize ==
  ASSUME BulkPhase = "process", Queue = {}, Working = {}, BulkPhase' = "finalize",
         UNCHANGED <<QueueTime, Queue, Working, Touched, users, answered, Given>>
  PROVE  Bulk!Next
<1>1. Bulk!StartFinalize
  BY DEF Bulk!StartFinalize, Queue, Working, Touched, TickRooms, Given
<1> QED BY <1>1 DEF Bulk!Next

(* a room is finalized, and who may act in it may change *)
LEMMA BulkSettle ==
  ASSUME NEW r \in Rooms, NEW ps \in SUBSET Users, BulkPhase = "finalize", r \in Touched,
         Touched' = Touched \ {r}, users' = [users EXCEPT ![r] = ps],
         UNCHANGED <<QueueTime, BulkPhase, Queue, Working, answered, Given>>
  PROVE  Bulk!Next
<1>1. Bulk!Settle(r)
  BY DEF Bulk!Settle, Queue, Working, Touched, TickRooms, Given
<1> QED BY <1>1 DEF Bulk!Next

(* the next tick begins, with every room that has players *)
LEMMA BulkNextTick ==
  ASSUME NEW rooms \in SUBSET Rooms, BulkPhase = "finalize", Touched = {}, QueueTime' = QueueTime + 1,
         \A r \in Rooms : users[r] # {} => r \in rooms,
         Queue' = rooms, Touched' = rooms, BulkPhase' = IF rooms = {} THEN "finalize" ELSE "process",
         answered' = {}, ~Given', UNCHANGED <<Working, users>>
  PROVE  Bulk!Next
<1>1. Bulk!NextTick
  BY DEF Bulk!NextTick, Queue, Working, Touched, TickRooms, Given, Abandoned
<1> QED BY <1>1 DEF Bulk!Next

(* the phase is told by the pending counter; while a worker has a room in hand it is the first *)
LEMMA PhaseOf ==
  ASSUME TypeOK, Clocks, Barriers
  PROVE  /\ BulkPhase = IF Pending = Null THEN "finalize" ELSE "process"
         /\ \A w \in Workers : InHand(w) # {} => BulkPhase = "process"
         /\ Queue # {} => BulkPhase = "process"
         /\ Queue \subseteq Rooms /\ \A w \in Workers : InHand(w) \subseteq Rooms
<1>1. BulkPhase = IF Pending = Null THEN "finalize" ELSE "process"
  BY DEF BulkPhase, Pending
<1>2. \A w \in Workers : InHand(w) # {} => Pending # Null
  BY ListensInTick
<1>3. Queue \subseteq Rooms
  BY QueueTimeType DEF Barriers, Queue, ZMembers, TypeOK, TypeStore
<1>4. Queue # {} => Pending # Null
  BY <1>3 DEF Barriers, Countdown, Undone
<1>5. \A w \in Workers : InHand(w) \subseteq Rooms
  BY DEF InHand, TypeOK, TypeWorkers
<1> QED BY <1>1, <1>2, <1>3, <1>4, <1>5

(* what a step leaves of the abstract state that touches neither the tick's keys nor a worker's hands *)
LEMMA SameBulk ==
  ASSUME UNCHANGED keyView
  PROVE  /\ UNCHANGED <<QueueTime, BulkPhase, Queue>>
         /\ UNCHANGED <<held, room>> => UNCHANGED Working
         /\ (\A w \in Workers : Kept(w)' = Kept(w)) => UNCHANGED Touched
<1>1. UNCHANGED <<QueueTime, BulkPhase, Queue, TickRooms, Extra>>
  BY DEF keyView, BulkPhase, Pending
<1>2. UNCHANGED <<held, room>> => UNCHANGED Working
  <2>1. UNCHANGED <<held, room>> => \A w \in Workers : InHand(w)' = InHand(w)
    BY DEF InHand
  <2> QED BY <2>1 DEF Working
<1>3. (\A w \in Workers : Kept(w)' = Kept(w)) => UNCHANGED Unfinalized
  BY <1>1 DEF Unfinalized, Kept, Extra
<1> QED BY <1>1, <1>2, <1>3 DEF Touched

(* main abandons the tick or does nothing the abstract specification sees ... *)
LEMMA BulkOfMain ==
  ASSUME TypeOK, Clocks, Barriers, MainSide, ~BegetRoomProcessQueue
  PROVE  Bulk!Next \/ UNCHANGED bulkView
<1>1. UNCHANGED keyView
  BY MainKeys DEF Barriers
<1>2. UNCHANGED <<held, room, users>> /\ \A w \in Workers : Kept(w)' = Kept(w)
  BY MainFrame, KeptSame DEF loopVars
<1>3. UNCHANGED answered
  BY MainPlayers
<1>4. UNCHANGED <<QueueTime, BulkPhase, Queue, Working, Touched>>
  BY <1>1, <1>2, SameBulk
<1>5. Given => Given'
  BY AbandonedStays DEF Given, Next, MainSide
<1>6. Given' => Bulk!Next
  BY <1>2, <1>3, <1>4, BulkAbandon
<1>7. ~Given' => UNCHANGED Given
  BY <1>5 DEF Given, Abandoned
<1> QED BY <1>2, <1>3, <1>4, <1>6, <1>7 DEF bulkView

(* ... until it begins the next tick *)
LEMMA BulkOfBeget ==
  ASSUME TypeOK, Clocks, Barriers, ActiveCountsPlayers, BegetRoomProcessQueue
  PROVE  Bulk!Next
<1>1. /\ QueueTime = tickTime /\ QueueTime' = tickTime + 1 /\ tickTime \in Int /\ Pending = Null /\ Unfinalized = {}
      /\ \A w \in Workers : Kept(w) = {}
  BY BegetAfterTick
<1>2. /\ processRooms'[QueueTime'] = activeRooms' /\ Queue' = ZMembers(activeRooms') /\ TickRooms' = Queue'
      /\ Extra' = {} /\ Queue' \subseteq Rooms
      /\ Pending' = IF Queue' = {} THEN Null ELSE Cardinality(Queue')
  BY BegetKeys
<1>3. MainSide
  BY DEF MainSide, Main
<1>4. UNCHANGED <<held, room, users, tickTime>> /\ answered' = {}
  BY DEF BegetRoomProcessQueue, loopVars
<1>5. \A w \in Workers : Kept(w)' = {}
  BY <1>1, <1>3, KeptSame
<1>6. Unfinalized' = {}
  BY <1>2, <1>5 DEF Unfinalized, Kept, Extra
<1>7. UNCHANGED Working
  BY <1>4 DEF Working, InHand
<1>8. ~Given'
  BY <1>1, <1>4 DEF Given, Abandoned
<1>9. Queue' # {} => Cardinality(Queue') # Null
  BY <1>2, RoomsCardType, NullAssumption
<1>10. BulkPhase' = IF Queue' = {} THEN "finalize" ELSE "process"
  BY <1>2, <1>9 DEF BulkPhase, Pending
<1>11. Touched' = Queue'
  BY <1>2, <1>6, <1>10 DEF Touched
<1>12. BulkPhase = "finalize" /\ Touched = {}
  BY <1>1 DEF BulkPhase, Pending, Touched
<1>13. \A r \in Rooms : users[r] # {} => r \in Queue'
  <2>1. ActiveCountsPlayers' /\ DOMAIN activeRooms' = Rooms
    BY <1>3, BegetCounts, NextTypes DEF Next, MainSide, TypeOK, TypeStore
  <2> QED BY <1>2, <1>4, <2>1 DEF ActiveCountsPlayers, ZMembers
<1> QED BY <1>1, <1>2, <1>4, <1>7, <1>8, <1>10, <1>11, <1>12, <1>13, BulkNextTick

(* the runners answer or do nothing the abstract specification sees *)
LEMMA BulkOfRunners ==
  ASSUME TypeOK, Clocks, Barriers, RunnerSide
  PROVE  Bulk!Next \/ UNCHANGED bulkView
<1>1. UNCHANGED keyView
  BY RunnerKeys DEF Barriers
<1>2. UNCHANGED <<held, room, users, tickTime, timer>> /\ \A w \in Workers : Kept(w)' = Kept(w)
  BY RunnerFrame, KeptSame DEF loopVars, mainVars
<1>3. UNCHANGED <<QueueTime, BulkPhase, Queue, Working, Touched>>
  BY <1>1, <1>2, SameBulk
<1>4. UNCHANGED Given
  BY <1>2, <1>3 DEF Given, Abandoned
<1>5. answered' = answered \/ \E u \in Users : answered' = answered \cup {u}
  BY DEF RunnerSide, Run, TakeRun, RunCloses, RunEnds, RunnerCrashes, RunnerConnects, RunUser, TakeUser,
         ReadIntentRooms, Deactivate, PublishIntents, ResetCounts, NotifyProcessors, PushIntentsForRoom,
         Terminated, vars, blobs
<1> QED BY <1>2, <1>3, <1>4, <1>5, BulkAnswer DEF bulkView

(* a room is finalized at most once, in the second phase *)
LEMMA BulkOfFinalize ==
  ASSUME TypeOK, Clocks, Barriers, NEW w \in Workers, Finalize(w)
  PROVE  Bulk!Next \/ UNCHANGED bulkView
<1>1. ProcessorSide
  BY DEF ProcessorSide
<1>2. UNCHANGED <<QueueTime, tickTime, timer, answered>>
  BY <1>1, ProcessorPlayers
<1>3. UNCHANGED Given
  BY <1>2 DEF Given, Abandoned
<1>4. UNCHANGED <<held, room>>
  BY DEF Finalize, FinalizeRoom, FinalizeExtraRoom, RoomsDidFinalize, loopVars
<1>5. UNCHANGED Working
  BY <1>4 DEF Working, InHand
<1>6. ASSUME NEW r \in Rooms, FinalizeRoom(w, r) \/ FinalizeExtraRoom(w, r) PROVE Bulk!Next
  <2>1. /\ Pending = Null /\ UNCHANGED <<Queue, Pending, TickRooms>>
        /\ r \in Unfinalized /\ Unfinalized' = Unfinalized \ {r}
    BY <1>6, FinalizeTakes
  <2>2. PICK ps \in SUBSET Users : users' = [users EXCEPT ![r] = ps]
    BY <1>6 DEF FinalizeRoom, FinalizeExtraRoom, SettleRoom
  <2>3. BulkPhase = "finalize" /\ UNCHANGED BulkPhase
    BY <2>1 DEF BulkPhase, Pending
  <2>4. r \in Touched /\ Touched' = Touched \ {r}
    BY <2>1, <2>3 DEF Touched
  <2> QED BY <1>2, <1>3, <1>5, <2>1, <2>2, <2>3, <2>4, BulkSettle
<1>7. CASE RoomsDidFinalize(w)
  <2>1. UNCHANGED <<Queue, Pending, TickRooms, Extra>>
    BY <1>7, RoomsDidFinalizeKeys DEF Barriers
  <2>2. UNCHANGED <<users, processed, unfinalized, servicePc>>
    BY <1>7 DEF RoomsDidFinalize, blobs
  <2>3. UNCHANGED BulkPhase
    BY <2>1 DEF BulkPhase, Pending
  <2>4. UNCHANGED Unfinalized
    BY <2>1, <2>2 DEF Unfinalized, Extra
  <2>5. UNCHANGED Touched
    BY <2>1, <2>3, <2>4 DEF Touched
  <2> QED BY <1>2, <1>3, <1>5, <2>1, <2>2, <2>3, <2>5 DEF bulkView
<1> QED BY <1>6, <1>7 DEF Finalize

(* a worker takes a room whose players have answered, sends its intents, is done with it, and begins *)
(* the second phase when every room is done                                                          *)
LEMMA BulkOfWorkers ==
  ASSUME TypeOK, Clocks, Barriers, PlayersBeforeRoom', NEW w \in Workers, Worker(w)
  PROVE  Bulk!Next \/ UNCHANGED bulkView
<1>1. ProcessorSide
  BY DEF ProcessorSide
<1>2. UNCHANGED <<QueueTime, tickTime, timer, answered>>
  BY <1>1, ProcessorPlayers
<1>3. UNCHANGED Given
  BY <1>2 DEF Given, Abandoned
<1>4. /\ UNCHANGED <<users, finalizeExtraRooms>> \/ MarkExtraRooms(w)
      /\ UNCHANGED <<users, servicePc, unfinalized>>
  BY DEF Worker, PopRoom, StartRoom, SendIntents, MarkExtraRooms, RoomDidProcess, AnnounceFinalize, DrainEnds,
         WorkerSleeps, blobs, finalizeVars, tickKeys
<1>5. MainStages /\ OthersQuiet /\ WorkerShape /\ Countdown /\ Apart /\ Accounted
  BY DEF Barriers
<1>6. /\ held \in [Workers -> SUBSET Rooms] /\ room \in [Workers -> Rooms \cup {Null}]
      /\ workerPc \in [Workers -> {"idle", "drain", "send", "mark", "decr", "announce", "unwind"}]
  BY DEF TypeOK, TypeWorkers
<1>7. /\ room[w] # Null <=> workerPc[w] \in {"send", "mark", "decr"}
      /\ room[w] # Null => room[w] \in Working /\ BulkPhase = "process"
  <2>1. room[w] # Null => room[w] \in InHand(w)
    BY DEF InHand
  <2> QED BY <1>5, <2>1, PhaseOf DEF WorkerShape, Working
<1>8. ASSUME NEW r \in Rooms, PopRoom(w, r) PROVE Bulk!Next
  <2>1. currentTime[w] = QueueTime /\ r \in Queue /\ Queue' = Queue \ {r} /\ UNCHANGED <<Pending, TickRooms>>
    BY <1>5, <1>8, PopRoomKeys
  <2>2. held' = [held EXCEPT ![w] = held[w] \cup {r}] /\ UNCHANGED <<room, currentTime, processed>>
    BY <1>8 DEF PopRoom, finalizeVars
  <2>3. BulkPhase = "process" /\ UNCHANGED BulkPhase
    BY <2>1, PhaseOf DEF BulkPhase, Pending
  <2>4. UNCHANGED Touched
    BY <2>1, <2>3 DEF Touched
  <2>5. InHand(w)' = InHand(w) \cup {r} /\ \A v \in Workers \ {w} : InHand(v)' = InHand(v)
    BY <1>6, <2>2 DEF InHand
  <2>6. Working' = Working \cup {r}
    BY <2>5 DEF Working
  <2>7. Given \/ users[r] \subseteq answered
    <3>1. SUFFICES ASSUME ~Given PROVE users[r] \subseteq answered
      OBVIOUS
    <3>2. ~Abandoned(currentTime[w])' /\ currentTime'[w] = QueueTime'
      BY <1>2, <1>3, <2>1, <2>2, <3>1 DEF Given, Abandoned
    <3>3. r \in InHand(w)'
      BY <2>5
    <3>4. users'[r] \subseteq answered'
      BY <3>2, <3>3 DEF PlayersBeforeRoom
    <3> QED BY <1>2, <1>4, <3>4
  <2> QED BY <1>2, <1>3, <1>4, <2>1, <2>3, <2>4, <2>6, <2>7, BulkClaim
<1>9. ASSUME NEW r \in Rooms, StartRoom(w, r) PROVE UNCHANGED bulkView
  <2>1. /\ r \in held[w] /\ workerPc[w] = "drain" /\ held' = [held EXCEPT ![w] = held[w] \ {r}]
        /\ room' = [room EXCEPT ![w] = r] /\ UNCHANGED tickKeys
    BY <1>9 DEF StartRoom
  <2>2. UNCHANGED <<Queue, Pending, TickRooms>>
    BY <1>2, <2>1 DEF tickKeys, Queue, Pending, TickRooms
  <2>3. InHand(w) # {}
    BY <2>1 DEF InHand
  <2>4. BulkPhase = "process" /\ UNCHANGED BulkPhase
    BY <2>2, <2>3, PhaseOf DEF BulkPhase, Pending
  <2>5. UNCHANGED Touched
    BY <2>2, <2>4 DEF Touched
  <2>6. room[w] = Null
    BY <1>7, <2>1
  <2>7. \A v \in Workers : InHand(v)' = InHand(v)
    BY <1>6, <2>1, <2>6, TickAssumption DEF InHand
  <2>8. UNCHANGED Working
    BY <2>7 DEF Working
  <2> QED BY <1>2, <1>3, <1>4, <2>2, <2>4, <2>5, <2>8 DEF bulkView
<1>10. ASSUME NEW targets \in SUBSET Rooms, SendIntents(w, targets) PROVE Bulk!Next
  <2>1. TickRooms' = TickRooms \cup targets /\ UNCHANGED <<Queue, Pending>>
    BY <1>5, <1>10, SendIntentsKeys
  <2>2. workerPc[w] = "send" /\ UNCHANGED <<held, room>>
    BY <1>10 DEF SendIntents
  <2>3. BulkPhase = "process" /\ Working # {} /\ UNCHANGED BulkPhase
    BY <1>7, <2>1, <2>2 DEF BulkPhase, Pending
  <2>4. Touched' = Touched \cup targets
    BY <2>1, <2>3 DEF Touched
  <2>5. UNCHANGED Working
    BY <2>2 DEF Working, InHand
  <2> QED BY <1>2, <1>3, <1>4, <2>1, <2>3, <2>4, <2>5, BulkSend
<1>11. CASE MarkExtraRooms(w)
  <2>1. UNCHANGED <<Queue, Pending, TickRooms>>
    BY <1>5, <1>11, MarkExtraRoomsKeys
  <2>2. workerPc[w] = "mark" /\ UNCHANGED <<held, room>>
    BY <1>11 DEF MarkExtraRooms
  <2>3. BulkPhase = "process" /\ UNCHANGED BulkPhase
    BY <1>7, <2>1, <2>2 DEF BulkPhase, Pending
  <2>4. UNCHANGED Touched
    BY <2>1, <2>3 DEF Touched
  <2>5. UNCHANGED Working
    BY <2>2 DEF Working, InHand
  <2> QED BY <1>2, <1>3, <1>4, <2>1, <2>3, <2>4, <2>5 DEF bulkView
<1>12. CASE RoomDidProcess(w)
  <2>1. Pending' = DecrBy(Pending, 1) /\ UNCHANGED <<Queue, TickRooms>>
    BY <1>5, <1>12, RoomDidProcessKeys
  <2>2. workerPc[w] = "decr" /\ UNCHANGED held /\ room' = [room EXCEPT ![w] = Null]
    BY <1>12 DEF RoomDidProcess
  <2>3. room[w] \in Rooms /\ room[w] \in Working /\ BulkPhase = "process"
    BY <1>6, <1>7, <2>2
  <2>4. Pending # Null /\ Pending' \in Int
    BY <2>1, <2>3, DecrType, QueueTimeType DEF BulkPhase, Pending, Barriers, TypeOK, TypeStore
  <2>5. UNCHANGED BulkPhase
    BY <2>4, NullAssumption DEF BulkPhase, Pending
  <2>6. UNCHANGED Touched
    BY <2>1, <2>3, <2>5 DEF Touched
  <2>7. room[w] \in Kept(w) /\ room[w] \notin held[w]
    BY <1>5, <2>3, TickAssumption DEF Apart
  <2>8. \A v \in Workers \ {w} : room[w] \notin InHand(v) /\ InHand(v)' = InHand(v)
    <3>1. \A v \in Workers : InHand(v) \subseteq Mine(v)
      BY <1>5 DEF InHand, Mine, Apart
    <3>2. room[w] \in Mine(w)
      BY <2>7 DEF Mine
    <3> QED BY <1>5, <1>6, <2>2, <3>1, <3>2 DEF Apart, InHand
  <2>9. InHand(w)' = InHand(w) \ {room[w]}
    BY <1>6, <2>2, <2>3, <2>7, TickAssumption DEF InHand
  <2>10. Working' = Working \ {room[w]}
    BY <2>8, <2>9 DEF Working
  <2> QED BY <1>2, <1>3, <1>4, <2>1, <2>3, <2>5, <2>6, <2>10, BulkProcessed
<1>13. CASE AnnounceFinalize(w)
  <2>1. TickRooms' = {} /\ Pending' = Null /\ UNCHANGED <<Queue, Extra>>
    BY <1>5, <1>13, AnnounceFinalizeKeys
  <2>2. UNCHANGED <<held, room, processed>> /\ workerPc[w] = "announce"
    BY <1>13 DEF AnnounceFinalize, finalizeVars
  <2>3. Pending = 0 /\ Pending # Null
    BY <1>5, <2>2, NullAssumption DEF Countdown
  <2>4. Undone = {}
    BY <1>5, <2>3, UndoneType DEF Countdown
  <2>5. Queue = {} /\ \A v \in Workers : held[v] = {} /\ room[v] = Null /\ unmarked[v] = {}
    BY <2>4, NoneInHand
  <2>6. Working = {} /\ UNCHANGED Working
    BY <2>2, <2>5 DEF Working, InHand
  <2>7. UNCHANGED Unfinalized
    BY <1>2, <1>4, <2>1, <2>2 DEF Unfinalized, Extra
  <2>8. TickRooms = Unfinalized
    <3>1. \A r \in Rooms : r \in TickRooms <=> r \in Unfinalized
      BY <1>5, <2>3, <2>5, UnfinalizedMembers DEF Accounted, Mine
    <3>2. TickRooms \subseteq Rooms
      BY QueueTimeType DEF TickRooms, Barriers, TypeOK, TypeStore
    <3>3. Unfinalized \subseteq Rooms
      BY QueueTimeType DEF Unfinalized, Barriers, TypeOK, TypeStore, TypeFinalize
    <3> QED BY <3>1, <3>2, <3>3
  <2>9. BulkPhase = "process" /\ BulkPhase' = "finalize"
    BY <2>1, <2>3 DEF BulkPhase, Pending
  <2>10. UNCHANGED Touched
    BY <2>7, <2>8, <2>9 DEF Touched
  <2> QED BY <1>2, <1>3, <1>4, <2>1, <2>5, <2>6, <2>9, <2>10, BulkStartFinalize
<1>14. CASE DrainEnds(w) \/ WorkerSleeps(w)
  <2>1. UNCHANGED <<held, room, finalizeVars, tickKeys>>
    BY <1>14 DEF DrainEnds, WorkerSleeps
  <2>2. UNCHANGED keyView
    BY <1>2, <2>1 DEF keyView, tickKeys, Queue, Pending, Remaining, TickRooms, Extra
  <2>3. \A v \in Workers : Kept(v)' = Kept(v)
    BY <2>1 DEF Kept, finalizeVars
  <2> QED BY <1>2, <1>3, <1>4, <2>1, <2>2, <2>3, SameBulk DEF bulkView
<1> QED BY <1>8, <1>9, <1>10, <1>11, <1>12, <1>13, <1>14 DEF Worker

(* the processors' steps are steps of the abstract specification or invisible to it *)
LEMMA BulkOfProcessors ==
  ASSUME TypeOK, Clocks, Barriers, PlayersBeforeRoom', ProcessorSide
  PROVE  Bulk!Next \/ UNCHANGED bulkView
<1>1. CASE Service
  <2>1. UNCHANGED <<tickKeys, held, room, mainVars, users, answered>>
    BY <1>1 DEF Service, HandleProcess, HandleFinalize, FinishFinalize, loopVars, blobs
  <2>2. UNCHANGED <<QueueTime, Given>>
    BY <2>1 DEF mainVars, QueueTime, Given, Abandoned
  <2>3. UNCHANGED keyView
    BY <2>1, <2>2 DEF keyView, tickKeys, Queue, Pending, Remaining, TickRooms, Extra
  <2>4. \A v \in Workers : Kept(v)' = Kept(v)
    BY <1>1, KeptSame
  <2> QED BY <2>1, <2>2, <2>3, <2>4, SameBulk DEF bulkView
<1> QED BY <1>1, BulkOfWorkers, BulkOfFinalize DEF ProcessorSide

(* the first tick begins with every room queued and nobody having answered *)
LEMMA BulkInit == Init => Bulk!Init
<1> SUFFICES ASSUME Init PROVE Bulk!Init
  OBVIOUS
<1>1. QueueTime = 1 /\ tickTime = 0 /\ timer = "off" /\ 1 \in Times
  BY TickAssumption DEF Init, QueueTime, Times
<1>2. \A r \in Rooms : Cardinality(users[r]) \in Int
  BY FS_Subset, FS_CardinalityType, TickAssumption DEF Init
<1>3. ZMembers(processRooms[QueueTime]) = Rooms
  BY <1>1, <1>2, NullAssumption DEF Init, ZMembers
<1>4. BulkPhase = "process"
  BY <1>1, RoomsCardType, NullAssumption DEF Init, BulkPhase
<1>5. UNION {InHand(w) : w \in Workers} = {}
  BY DEF Init, InHand
<1>6. ~Abandoned(QueueTime)
  BY <1>1 DEF Abandoned
<1> QED BY <1>1, <1>3, <1>4, <1>5, <1>6 DEF Init, Bulk!Init, Abandoned

(* Ticks are bulk-synchronous: whatever the interleaving of main, the      *)
(* workers, the runner and the timer, every step of the protocol is a step *)
(* of the abstract specification or invisible to it, so no room is         *)
(* processed twice or left out, none before its players, none while        *)
(* another is finalized, and every touched room is finalized in its tick.  *)
THEOREM TicksAreBulkSynchronous == Spec => BulkSynchronous
<1>1. Init => Bulk!Init
  BY BulkInit
<1>2. TypeOK /\ Clocks /\ Barriers /\ ActiveCountsPlayers /\ PlayersBeforeRoom' /\ [Next]_vars
        => [Bulk!Next]_(Bulk!vars)
  BY Sides, BulkOfMain, BulkOfBeget, BulkOfProcessors, BulkOfRunners, BulkStutter
<1> QED BY <1>1, <1>2, BarriersHold, ActiveCounts, PlayersFirst, PTL DEF Spec, BulkSynchronous, Bulk!Spec
=============================================================================
