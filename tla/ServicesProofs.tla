--------------------------- MODULE ServicesProofs ---------------------------
(***************************************************************************)
(* Theorems about the life of the services, for any number of processors,  *)
(* rooms and operator's requests.                                          *)
(***************************************************************************)
EXTENDS Services, TLAPS

(***************************************************************************)
(* The tick's own state follows main's.  Finalization runs only inside     *)
(* tick(); it leaves one tickFinished behind, which main has read before   *)
(* it begets the next queue; and nobody is woken outside of tick().        *)
(***************************************************************************)
Unfinished(q) == \A i \in DOMAIN q : q[i][1] # "tickFinished"

FinishedOnce(q) ==
  \A i, j \in DOMAIN q : q[i][1] = "tickFinished" /\ q[j][1] = "tickFinished" => i = j

FinishFollowsWork ==
  /\ FinishedOnce(inbox)
  /\ work # "none" \/ mainPc \in {"down", "init", "beget"} => Unfinished(inbox)

WorkFollowsMain ==
  /\ work = "finalize" => mainPc = "tick" /\ finalizers # {}
  /\ work # "finalize" => finalizers = {}
  /\ mainPc = "beget" => work = "none"

WakesFollowMain ==
  mainPc \notin {"tick", "beget"} => awake = {} /\ \A p \in Processors : "process" \notin mail[p]

TickState == FinishFollowsWork /\ WorkFollowsMain /\ WakesFollowMain
-----------------------------------------------------------------------------
(***************************************************************************)
(* What reading and publishing do to the service channel.                  *)
(***************************************************************************)
(* reading the oldest message: at most one tickFinished is left, none if it was that one *)
LEMMA ReadOne ==
  ASSUME NEW q \in Seq(ServiceMessages), q # <<>>
  PROVE  /\ Head(q) \in ServiceMessages /\ Tail(q) \in Seq(ServiceMessages)
         /\ FinishedOnce(q) => FinishedOnce(Tail(q))
         /\ Unfinished(q) => Unfinished(Tail(q)) /\ Head(q)[1] # "tickFinished"
         /\ FinishedOnce(q) /\ Head(q)[1] = "tickFinished" => Unfinished(Tail(q))
<1>1. Head(q) \in ServiceMessages /\ Tail(q) \in Seq(ServiceMessages)
  OBVIOUS
<1>2. 1 \in DOMAIN q /\ Head(q) = q[1]
  OBVIOUS
<1>3. \A i \in DOMAIN Tail(q) : i \in Nat \ {0} /\ i + 1 \in DOMAIN q /\ Tail(q)[i] = q[i + 1]
  OBVIOUS
<1>4. FinishedOnce(q) => FinishedOnce(Tail(q))
  BY <1>3 DEF FinishedOnce
<1>5. Unfinished(q) => Unfinished(Tail(q)) /\ Head(q)[1] # "tickFinished"
  BY <1>2, <1>3 DEF Unfinished
<1>6. FinishedOnce(q) /\ Head(q)[1] = "tickFinished" => Unfinished(Tail(q))
  BY <1>2, <1>3 DEF FinishedOnce, Unfinished
<1> QED BY <1>1, <1>4, <1>5, <1>6

(* publishing a message: a second tickFinished only if there was one already *)
LEMMA PublishOne ==
  ASSUME NEW q \in Seq(ServiceMessages), NEW m \in ServiceMessages
  PROVE  /\ Append(q, m) \in Seq(ServiceMessages)
         /\ Unfinished(q) => FinishedOnce(Append(q, m))
         /\ FinishedOnce(q) /\ m[1] # "tickFinished" => FinishedOnce(Append(q, m))
         /\ Unfinished(q) /\ m[1] # "tickFinished" => Unfinished(Append(q, m))
<1>1. Append(q, m) \in Seq(ServiceMessages)
  OBVIOUS
<1>2. Len(q) \in Nat /\ DOMAIN q = 1 .. Len(q) /\ DOMAIN Append(q, m) = 1 .. Len(q) + 1
  OBVIOUS
<1>3. (\A i \in 1 .. Len(q) : Append(q, m)[i] = q[i]) /\ Append(q, m)[Len(q) + 1] = m
  OBVIOUS
<1>4. ASSUME NEW i \in DOMAIN Append(q, m)
      PROVE  (i \in DOMAIN q /\ Append(q, m)[i] = q[i]) \/ (i = Len(q) + 1 /\ Append(q, m)[i] = m)
  <2>1. i \in 1 .. Len(q) \/ i = Len(q) + 1
    BY <1>2
  <2> QED BY <1>2, <1>3, <2>1
<1> QED BY <1>1, <1>4 DEF FinishedOnce, Unfinished
-----------------------------------------------------------------------------
(* what is told to waiting processors is a message they know *)
LEMMA TellTypes ==
  ASSUME TypeOK, NEW ps, NEW m \in {"mainConnected", "shutdown"}
  PROVE  Tell(ps, m) \in [Processors -> Seq({"mainConnected", "shutdown"})]
BY DEF TypeOK, Tell

(* so is what is sent to listening ones; nobody is sent "process" by another message *)
LEMMA SendTypes ==
  ASSUME TypeOK, NEW ps, NEW m \in {"process", "finalize", "shutdown"}
  PROVE  /\ Send(ps, m) \in [Processors -> SUBSET {"process", "finalize", "shutdown"}]
         /\ \A p \in Processors : m # "process" /\ "process" \in Send(ps, m)[p] => "process" \in mail[p]
BY DEF TypeOK, Send

(* the services start with no tick *)
LEMMA InitTypes == Init => TypeOK /\ TickState
<1> SUFFICES ASSUME Init PROVE TypeOK /\ TickState
  OBVIOUS
<1>1. inbox \in Seq(ServiceMessages) /\ requests \in 0 .. MaxRequests
  BY ServicesAssumption DEF Init
<1>2. heard \in [Processors -> Seq({"mainConnected", "shutdown"})]
  BY DEF Init
<1>3. TypeOK
  BY <1>1, <1>2 DEF Init, TypeOK
<1>4. TickState
  BY DEF Init, TickState, FinishFollowsWork, WorkFollowsMain, WakesFollowMain, FinishedOnce, Unfinished
<1> QED BY <1>3, <1>4
-----------------------------------------------------------------------------
(***************************************************************************)
(* Every step keeps the types and the tick's state.                        *)
(***************************************************************************)
(* every step of main keeps the types and the tick's state *)
LEMMA MainSteps ==
  ASSUME TypeOK, TickState, Main
  PROVE  (TypeOK /\ TickState)'
<1> USE DEF TickState
<1>1. CASE MainConnects
  <2>1. TypeOK'
    BY <1>1, TellTypes DEF MainConnects, TypeOK, tickVars, operator, Waiting
  <2>2. TickState'
    BY <1>1 DEF MainConnects, FinishFollowsWork, WorkFollowsMain, WakesFollowMain, tickVars,
        operator, FinishedOnce, Unfinished
  <2> QED BY <2>1, <2>2
<1>2. CASE InitHandles
  <2>1. inbox \in Seq(ServiceMessages) /\ inbox # <<>> /\ inbox' = Tail(inbox)
    BY <1>2 DEF TypeOK, InitHandles, HandleServiceMessage, Reads
  <2>2. TypeOK'
    BY <1>2, <2>1, ReadOne, TellTypes DEF InitHandles, TypeOK, roomVars, operator,
        HandleServiceMessage, Common
  <2>3. TickState'
    BY <1>2, <2>1, ReadOne DEF InitHandles, FinishFollowsWork, WorkFollowsMain, WakesFollowMain,
        roomVars, operator, HandleServiceMessage, Reads, Common
  <2> QED BY <2>2, <2>3
<1>3. CASE StartTick
  <2>1. TypeOK'
    BY <1>3, SendTypes DEF StartTick, TypeOK, tickVars, roomVars, operator, Listening
  <2>2. TickState'
    BY <1>3 DEF StartTick, FinishFollowsWork, WorkFollowsMain, WakesFollowMain, tickVars, roomVars,
        operator
  <2> QED BY <2>1, <2>2
<1>4. CASE TickHandles
  <2>1. inbox \in Seq(ServiceMessages) /\ inbox # <<>> /\ inbox' = Tail(inbox)
    BY <1>4 DEF TypeOK, TickHandles, HandleServiceMessage, Reads
  <2>2. heard' \in [Processors -> Seq({"mainConnected", "shutdown"})]
    BY <1>4, TellTypes DEF TickHandles, HandleServiceMessage, TypeOK
  <2>3. mail' \in [Processors -> SUBSET {"process", "finalize", "shutdown"}]
    BY <1>4, SendTypes DEF TickHandles, TypeOK
  <2>4. TypeOK'
    BY <1>4, <2>1, <2>2, <2>3, ReadOne DEF TickHandles, TypeOK, tickVars, roomVars, operator,
        HandleServiceMessage
  <2>5. TickState'
    BY <1>4, <2>1, ReadOne DEF TickHandles, FinishFollowsWork, WorkFollowsMain, WakesFollowMain,
        tickVars, roomVars, operator, HandleServiceMessage, Reads, Common
  <2> QED BY <2>4, <2>5
<1>5. CASE Beget
  <2>1. <<"tickFinished", "none">> \in ServiceMessages
    BY <1>5 DEF ServiceMessages
  <2>2. TypeOK'
    BY <1>5, <2>1, PublishOne DEF Beget, TypeOK, roomVars, operator
  <2>3. TickState'
    BY <1>5, <2>1, PublishOne DEF Beget, FinishFollowsWork, WorkFollowsMain, WakesFollowMain,
        roomVars, operator, TypeOK
  <2> QED BY <2>2, <2>3
<1>6. CASE DelayEnds
  <2>1. TypeOK'
    BY <1>6 DEF DelayEnds, TypeOK, tickVars, processorVars, roomVars, operator
  <2>2. TickState'
    BY <1>6 DEF DelayEnds, FinishFollowsWork, WorkFollowsMain, WakesFollowMain, tickVars,
        processorVars, roomVars, operator
  <2> QED BY <2>1, <2>2
<1>7. CASE PausedHandles
  <2>1. inbox \in Seq(ServiceMessages) /\ inbox # <<>> /\ inbox' = Tail(inbox)
    BY <1>7 DEF TypeOK, PausedHandles, HandleServiceMessage, Reads
  <2>2. TypeOK'
    BY <1>7, <2>1, ReadOne, TellTypes DEF PausedHandles, TypeOK, tickVars, roomVars, operator,
        HandleServiceMessage, Common, Waiting
  <2>3. TickState'
    BY <1>7, <2>1, ReadOne DEF PausedHandles, FinishFollowsWork, WorkFollowsMain, WakesFollowMain,
        tickVars, roomVars, operator, HandleServiceMessage, Reads, Common
  <2> QED BY <2>2, <2>3
<1>8. CASE MainCloses
  <2>1. TypeOK'
    BY <1>8, SendTypes DEF MainCloses, TypeOK, tickVars, roomVars, operator, Listening
  <2>2. TickState'
    BY <1>8 DEF MainCloses, FinishFollowsWork, WorkFollowsMain, WakesFollowMain, tickVars, roomVars,
        operator, FinishedOnce, Unfinished, Send, TypeOK
  <2> QED BY <2>1, <2>2
<1> QED BY <1>1, <1>2, <1>3, <1>4, <1>5, <1>6, <1>7, <1>8 DEF Main

(* ... of a processor *)
LEMMA ProcessorSteps ==
  ASSUME TypeOK, TickState, NEW p \in Processors, Processor(p)
  PROVE  (TypeOK /\ TickState)'
<1> USE DEF TickState
<1>1. CASE ProcessorConnects(p)
  <2>1. <<"processorConnected", p>> \in ServiceMessages
    BY <1>1 DEF ServiceMessages
  <2>2. inbox' \in Seq(ServiceMessages)
    BY <1>1, <2>1, PublishOne DEF ProcessorConnects, Publish, TypeOK
  <2>3. TypeOK'
    BY <1>1, <2>2 DEF ProcessorConnects, TypeOK, tickVars, roomVars, operator
  <2>4. TickState'
    BY <1>1, <2>1, PublishOne DEF ProcessorConnects, FinishFollowsWork, WorkFollowsMain,
        WakesFollowMain, tickVars, roomVars, operator, Publish, TypeOK
  <2> QED BY <2>3, <2>4
<1>2. CASE ProcessorHears(p)
  <2>1. TypeOK'
    BY <1>2 DEF ProcessorHears, TypeOK, mainVars, tickVars, roomVars, operator
  <2>2. TickState'
    BY <1>2 DEF ProcessorHears, FinishFollowsWork, WorkFollowsMain, WakesFollowMain, mainVars,
        tickVars, roomVars, operator
  <2> QED BY <2>1, <2>2
<1>3. CASE ProcessorInitialized(p)
  <2>1. <<"processorInitialized", p>> \in ServiceMessages
    BY <1>3 DEF ServiceMessages
  <2>2. inbox' \in Seq(ServiceMessages)
    BY <1>3, <2>1, PublishOne DEF ProcessorInitialized, Publish, TypeOK
  <2>3. TypeOK'
    BY <1>3, <2>2 DEF ProcessorInitialized, TypeOK, tickVars, roomVars, operator
  <2>4. TickState'
    BY <1>3, <2>1, PublishOne DEF ProcessorInitialized, FinishFollowsWork, WorkFollowsMain,
        WakesFollowMain, tickVars, roomVars, operator, Publish, TypeOK
  <2> QED BY <2>3, <2>4
<1>4. ASSUME NEW r \in Rooms, TakeRoom(p, r) PROVE (TypeOK /\ TickState)'
  <2>1. TypeOK'
    BY <1>4 DEF TakeRoom, TypeOK, mainVars, tickVars, processorVars, operator
  <2>2. TickState'
    BY <1>4 DEF TakeRoom, FinishFollowsWork, WorkFollowsMain, WakesFollowMain, mainVars, tickVars,
        processorVars, operator
  <2> QED BY <2>1, <2>2
<1>5. ASSUME NEW r \in Rooms, RoomInitialized(p, r) PROVE (TypeOK /\ TickState)'
  <2>1. TypeOK'
    BY <1>5 DEF RoomInitialized, TypeOK, mainVars, tickVars, processorVars, operator
  <2>2. TickState'
    BY <1>5 DEF RoomInitialized, FinishFollowsWork, WorkFollowsMain, WakesFollowMain, mainVars,
        tickVars, processorVars, operator
  <2> QED BY <2>1, <2>2
<1>6. CASE HandleProcess(p)
  <2>1. TypeOK'
    BY <1>6 DEF HandleProcess, TypeOK, mainVars, roomVars, operator
  <2>2. TickState'
    BY <1>6 DEF HandleProcess, FinishFollowsWork, WorkFollowsMain, WakesFollowMain, mainVars,
        roomVars, operator, TypeOK
  <2> QED BY <2>1, <2>2
<1>7. CASE HandleFinalize(p)
  <2>1. TypeOK'
    BY <1>7 DEF HandleFinalize, TypeOK, mainVars, tickVars, roomVars, operator
  <2>2. TickState'
    BY <1>7 DEF HandleFinalize, FinishFollowsWork, WorkFollowsMain, WakesFollowMain, mainVars,
        tickVars, roomVars, operator, TypeOK
  <2> QED BY <2>1, <2>2
<1>8. CASE RoomsFinalized(p)
  <2>1. <<"tickFinished", "none">> \in ServiceMessages
    BY <1>8 DEF ServiceMessages
  <2>2. mainPc = "tick" /\ work = "finalize" /\ Unfinished(inbox) /\ FinishedOnce(inbox)
    BY <1>8 DEF RoomsFinalized, FinishFollowsWork, WorkFollowsMain
  <2>3. inbox' = IF finalizers' = {} THEN Append(inbox, <<"tickFinished", "none">>) ELSE inbox
    BY <1>8, <2>2 DEF RoomsFinalized, Publish
  <2>4. inbox' \in Seq(ServiceMessages) /\ FinishedOnce(inbox') /\ (finalizers' # {} =>
      Unfinished(inbox'))
    BY <1>8, <2>1, <2>2, <2>3, PublishOne DEF TypeOK
  <2>5. TypeOK'
    BY <1>8, <2>4 DEF RoomsFinalized, TypeOK, processorVars, roomVars, operator
  <2>6. TickState'
    BY <1>8, <2>2, <2>4 DEF RoomsFinalized, FinishFollowsWork, WorkFollowsMain, WakesFollowMain,
        processorVars, roomVars, operator
  <2> QED BY <2>5, <2>6
<1>9. CASE FinalizeReturns(p)
  <2>1. TypeOK'
    BY <1>9 DEF FinalizeReturns, TypeOK, mainVars, tickVars, roomVars, operator
  <2>2. TickState'
    BY <1>9 DEF FinalizeReturns, FinishFollowsWork, WorkFollowsMain, WakesFollowMain, mainVars,
        tickVars, roomVars, operator
  <2> QED BY <2>1, <2>2
<1>10. CASE HandleShutdown(p)
  <2>1. TypeOK'
    BY <1>10 DEF HandleShutdown, TypeOK, mainVars, tickVars, roomVars, operator
  <2>2. TickState'
    BY <1>10 DEF HandleShutdown, FinishFollowsWork, WorkFollowsMain, WakesFollowMain, mainVars,
        tickVars, roomVars, operator
  <2> QED BY <2>1, <2>2
<1>11. CASE ProcessorHalts(p)
  <2>1. TypeOK'
    BY <1>11 DEF ProcessorHalts, TypeOK, mainVars, tickVars, roomVars, operator
  <2>2. TickState'
    BY <1>11 DEF ProcessorHalts, FinishFollowsWork, WorkFollowsMain, WakesFollowMain, mainVars,
        tickVars, roomVars, operator
  <2> QED BY <2>1, <2>2
<1> QED BY <1>1, <1>2, <1>3, <1>4, <1>5, <1>6, <1>7, <1>8, <1>9, <1>10, <1>11 DEF Processor

(* ... of the rooms, the operator and the launcher *)
LEMMA OtherSteps ==
  ASSUME TypeOK, TickState,
         \/ \E ps \in SUBSET Processors : ProcessRooms(ps)
         \/ \E type \in {"pause", "unpause", "pausedTick"} : Request(type)
         \/ Interrupt \/ LauncherShutsDown
  PROVE  (TypeOK /\ TickState)'
<1> USE DEF TickState
<1>1. ASSUME NEW ps \in SUBSET Processors, ProcessRooms(ps) PROVE (TypeOK /\ TickState)'
  <2>1. TypeOK'
    BY <1>1, SendTypes DEF ProcessRooms, TypeOK, mainVars, roomVars, operator, Listening
  <2>2. TickState'
    BY <1>1, SendTypes DEF ProcessRooms, FinishFollowsWork, WorkFollowsMain, WakesFollowMain,
        mainVars, roomVars, operator, Send, TypeOK
  <2> QED BY <2>1, <2>2
<1>2. ASSUME NEW type \in {"pause", "unpause", "pausedTick"}, Request(type) PROVE (TypeOK /\ TickState)'
  <2>1. <<type, "none">> \in ServiceMessages
    BY <1>2 DEF ServiceMessages
  <2>2. inbox' \in Seq(ServiceMessages)
    BY <1>2, <2>1, PublishOne DEF Request, Publish, TypeOK
  <2>3. TypeOK'
    BY <1>2, <2>2, ServicesAssumption DEF Request, TypeOK, tickVars, processorVars, roomVars
  <2>4. TickState'
    BY <1>2, <2>1, PublishOne DEF Request, FinishFollowsWork, WorkFollowsMain, WakesFollowMain,
        tickVars, processorVars, roomVars, Publish, TypeOK
  <2> QED BY <2>3, <2>4
<1>3. CASE Interrupt
  <2>1. TypeOK'
    BY <1>3 DEF Interrupt, TypeOK, mainVars, tickVars, processorVars, roomVars
  <2>2. TickState'
    BY <1>3 DEF Interrupt, FinishFollowsWork, WorkFollowsMain, WakesFollowMain, mainVars, tickVars,
        processorVars, roomVars
  <2> QED BY <2>1, <2>2
<1>4. CASE LauncherShutsDown
  <2>1. <<"shutdown", "none">> \in ServiceMessages
    BY <1>4 DEF ServiceMessages
  <2>2. inbox' \in Seq(ServiceMessages)
    BY <1>4, <2>1, PublishOne DEF LauncherShutsDown, Publish, TypeOK
  <2>3. TypeOK'
    BY <1>4, <2>2, TellTypes DEF LauncherShutsDown, TypeOK, tickVars, roomVars, Waiting
  <2>4. TickState'
    BY <1>4, <2>1, PublishOne DEF LauncherShutsDown, FinishFollowsWork, WorkFollowsMain,
        WakesFollowMain, tickVars, roomVars, Publish, TypeOK
  <2> QED BY <2>3, <2>4
<1> QED BY <1>1, <1>2, <1>3, <1>4

(* no step breaks the types or the tick's state *)
LEMMA NextTypes == TypeOK /\ TickState /\ [Next]_vars => (TypeOK /\ TickState)'
<1> SUFFICES ASSUME TypeOK, TickState, [Next]_vars PROVE (TypeOK /\ TickState)'
  OBVIOUS
<1>1. CASE Main
  BY <1>1, MainSteps
<1>2. ASSUME NEW p \in Processors, Processor(p) PROVE (TypeOK /\ TickState)'
  BY <1>2, ProcessorSteps
<1>3. CASE \/ \E ps \in SUBSET Processors : ProcessRooms(ps)
           \/ \E type \in {"pause", "unpause", "pausedTick"} : Request(type)
           \/ Interrupt \/ LauncherShutsDown
  BY <1>3, OtherSteps
<1>4. CASE Terminated \/ UNCHANGED vars
  BY <1>4 DEF Terminated, vars, mainVars, tickVars, processorVars, roomVars, operator, TypeOK, TickState,
              FinishFollowsWork, WorkFollowsMain, WakesFollowMain, FinishedOnce, Unfinished
<1> QED BY <1>1, <1>2, <1>3, <1>4 DEF Next

(* Types, whatever the processors, main, the launcher and the operator do  *)
(* and however their messages are delayed.                                 *)
THEOREM TypeCorrect == Spec => []TypeOK
<1> QED BY InitTypes, NextTypes, PTL DEF Spec

(* The work of a tick follows main's program counter.                      *)
LEMMA TickStateHolds == Spec => []TickState
<1> QED BY InitTypes, NextTypes, PTL DEF Spec

(* Main stops only between two ticks: whenever the shutdown message comes, *)
(* when main closes no room is half finalized and no worker is processing  *)
(* one, so what the shard saves on closing is the state of a whole tick.   *)
THEOREM ClosesCleanly == Spec => []ClosesBetweenTicks
<1>1. TypeOK /\ TickState => ClosesBetweenTicks
  BY DEF TypeOK, TickState, WorkFollowsMain, WakesFollowMain, ClosesBetweenTicks
<1> QED BY <1>1, TypeCorrect, TickStateHolds, PTL
-----------------------------------------------------------------------------
(***************************************************************************)
(* Every processor is told of the tick: woken, about to be, or reported.   *)
(***************************************************************************)
Reported(q, p) == \E i \in DOMAIN q : q[i] = <<"processorInitialized", p>>

Told(p) == p \in awake \/ "process" \in mail[p] \/ Reported(inbox, p)

(* reading another message leaves a report in the channel *)
LEMMA ReportStays ==
  ASSUME NEW q \in Seq(ServiceMessages), q # <<>>, Head(q)[1] # "processorInitialized",
         NEW p, Reported(q, p)
  PROVE  Reported(Tail(q), p)
<1>1. PICK i \in DOMAIN q : q[i] = <<"processorInitialized", p>>
  BY DEF Reported
<1>2. i # 1
  BY <1>1
<1>3. i - 1 \in DOMAIN Tail(q) /\ Tail(q)[i - 1] = q[i]
  BY <1>1, <1>2
<1> QED BY <1>1, <1>3 DEF Reported

(* so does publishing one, and one's own report is then in the channel *)
LEMMA ReportArrives ==
  ASSUME NEW q \in Seq(ServiceMessages), NEW m \in ServiceMessages, NEW p
  PROVE  /\ Reported(q, p) => Reported(Append(q, m), p)
         /\ m = <<"processorInitialized", p>> => Reported(Append(q, m), p)
<1>1. \A i \in DOMAIN q : i \in DOMAIN Append(q, m) /\ Append(q, m)[i] = q[i]
  OBVIOUS
<1>2. Len(q) + 1 \in DOMAIN Append(q, m) /\ Append(q, m)[Len(q) + 1] = m
  OBVIOUS
<1> QED BY <1>1, <1>2 DEF Reported

(* publishing a message while a tick runs keeps every report *)
LEMMA PublishKeepsReports ==
  ASSUME TypeOK, NEW type, NEW from, <<type, from>> \in ServiceMessages, Publish(type, from),
         NEW p, Reported(inbox, p)
  PROVE  Reported(inbox, p)'
<1>1. inbox' = inbox \/ inbox' = Append(inbox, <<type, from>>)
  BY DEF Publish
<1>2. Reported(inbox', p)
  BY <1>1, ReportArrives DEF TypeOK
<1> QED BY <1>2 DEF Reported

(* whoever is told stays told until the tick's rooms are processed; who starts to listen reports *)
LEMMA TellsEveryone ==
  ASSUME TypeOK, TickState, EveryProcessorTold, [Next]_vars
  PROVE  EveryProcessorTold'
<1> SUFFICES ASSUME (mainPc = "tick")', (work = "process")', NEW p \in Processors, (p \in Listening)'
             PROVE  (p \in awake \/ "process" \in mail[p] \/ Reported(inbox, p))'
  BY DEF EveryProcessorTold, Listening, Reported
<1>1. mainPc = "tick" /\ work = "process" /\ p \in Listening => Told(p)
  BY DEF EveryProcessorTold, Told, Reported
<1>2. CASE Main
  <2>1. CASE StartTick
    BY <2>1 DEF StartTick, Send, Listening, TypeOK
  <2>2. CASE TickHandles
    <3>1. mainPc = "tick" /\ work = "process" /\ p \in Listening /\ awake' = awake
      BY <2>2 DEF TickHandles, tickVars, Listening
    <3>2. inbox \in Seq(ServiceMessages) /\ inbox # <<>> /\ inbox' = Tail(inbox)
      BY <2>2 DEF TypeOK, TickHandles, HandleServiceMessage, Reads
    <3>3. CASE Head(inbox)[1] = "processorInitialized"
      <4>1. mail' = Send(ToldAgain, "process")
        BY <2>2, <3>3 DEF TickHandles, HandleServiceMessage, Common, Reads
      <4> QED BY <3>1, <4>1 DEF Send, ToldAgain, Listening, TypeOK
    <3>4. CASE Head(inbox)[1] # "processorInitialized"
      <4>1. mail' = mail
        BY <2>2, <3>4 DEF TickHandles, Reads
      <4>2. Reported(inbox, p) => Reported(Tail(inbox), p)
        BY <3>2, <3>4, ReportStays
      <4>3. Reported(inbox, p) => Reported(inbox, p)'
        BY <3>2, <4>2 DEF Reported
      <4> QED BY <1>1, <3>1, <4>1, <4>3 DEF Told
    <3> QED BY <3>3, <3>4
  <2>3. CASE MainConnects \/ InitHandles \/ Beget \/ DelayEnds \/ PausedHandles \/ MainCloses
    BY <2>3 DEF MainConnects, InitHandles, HandleServiceMessage, Beget, DelayEnds, PausedHandles,
                MainCloses
  <2> QED BY <1>2, <2>1, <2>2, <2>3 DEF Main
<1>3. ASSUME NEW q \in Processors, Processor(q)
      PROVE  (p \in awake \/ "process" \in mail[p] \/ Reported(inbox, p))'
  <2>1. CASE ProcessorConnects(q)
    <3>1. <<"processorConnected", q>> \in ServiceMessages
      BY DEF ServiceMessages
    <3>2. Told(p) /\ awake' = awake /\ mail' = mail /\ Publish("processorConnected", q)
      BY <1>1, <2>1 DEF ProcessorConnects, tickVars, Listening, TypeOK
    <3> QED BY <3>1, <3>2, PublishKeepsReports DEF Told
  <2>2. CASE ProcessorInitialized(q)
    <3>1. <<"processorInitialized", q>> \in ServiceMessages
      BY DEF ServiceMessages
    <3>2. mainPc = "tick" /\ work = "process" /\ awake' = awake /\ mail' = mail
          /\ Publish("processorInitialized", q)
      BY <2>2 DEF ProcessorInitialized, tickVars
    <3>3. CASE p = q
      <4>1. inbox' = Append(inbox, <<"processorInitialized", q>>)
        BY <3>2 DEF Publish
      <4>2. Reported(inbox', p)
        BY <3>1, <3>3, <4>1, ReportArrives DEF TypeOK
      <4> QED BY <4>2 DEF Reported
    <3>4. CASE p # q
      <4>1. Told(p)
        BY <1>1, <2>2, <3>2, <3>4 DEF ProcessorInitialized, Listening, TypeOK
      <4> QED BY <3>1, <3>2, <4>1, PublishKeepsReports DEF Told
    <3> QED BY <3>3, <3>4
  <2>3. CASE HandleProcess(q)
    <3>1. Told(p) /\ inbox' = inbox
      BY <1>1, <2>3 DEF HandleProcess, mainVars, Listening
    <3> QED BY <2>3, <3>1 DEF HandleProcess, Told, Reported, TypeOK
  <2>4. CASE HandleFinalize(q)
    <3>1. Told(p) /\ inbox' = inbox /\ awake' = awake
      BY <1>1, <2>4 DEF HandleFinalize, mainVars, tickVars, Listening, TypeOK
    <3> QED BY <2>4, <3>1 DEF HandleFinalize, Told, Reported, TypeOK
  <2>5. ~RoomsFinalized(q)
    BY DEF RoomsFinalized, TickState, WorkFollowsMain
  <2>6. CASE \/ ProcessorHears(q) \/ FinalizeReturns(q) \/ HandleShutdown(q) \/ ProcessorHalts(q)
             \/ \E r \in Rooms : TakeRoom(q, r) \/ RoomInitialized(q, r)
    <3>1. mainPc = "tick" /\ work = "process" /\ inbox' = inbox /\ awake' = awake /\ mail' = mail
      BY <2>6 DEF ProcessorHears, FinalizeReturns, HandleShutdown, ProcessorHalts, TakeRoom,
                  RoomInitialized, mainVars, tickVars, processorVars
    <3>2. p \in Listening
      BY <2>6 DEF ProcessorHears, FinalizeReturns, HandleShutdown, ProcessorHalts, TakeRoom,
                  RoomInitialized, processorVars, Listening, TypeOK
    <3> QED BY <1>1, <3>1, <3>2 DEF Told, Reported
  <2> QED BY <1>3, <2>1, <2>2, <2>3, <2>4, <2>5, <2>6 DEF Processor
<1>4. ASSUME NEW ps \in SUBSET Processors, ProcessRooms(ps) PROVE FALSE
  BY <1>4 DEF ProcessRooms
<1>5. ASSUME NEW type \in {"pause", "unpause", "pausedTick"}, Request(type)
      PROVE  (p \in awake \/ "process" \in mail[p] \/ Reported(inbox, p))'
  <2>1. <<type, "none">> \in ServiceMessages
    BY DEF ServiceMessages
  <2>2. Told(p) /\ awake' = awake /\ mail' = mail /\ Publish(type, "none")
    BY <1>1, <1>5 DEF Request, tickVars, processorVars, Listening
  <2> QED BY <2>1, <2>2, PublishKeepsReports DEF Told
<1>6. CASE LauncherShutsDown
  <2>1. <<"shutdown", "none">> \in ServiceMessages
    BY DEF ServiceMessages
  <2>2. Told(p) /\ awake' = awake /\ mail' = mail /\ Publish("shutdown", "none")
    BY <1>1, <1>6 DEF LauncherShutsDown, tickVars, Listening
  <2> QED BY <2>1, <2>2, PublishKeepsReports DEF Told
<1>7. CASE Interrupt \/ Terminated \/ UNCHANGED vars
  <2>1. Told(p) /\ inbox' = inbox /\ awake' = awake /\ mail' = mail
    BY <1>1, <1>7 DEF Interrupt, Terminated, vars, mainVars, tickVars, processorVars, Listening
  <2> QED BY <2>1 DEF Told, Reported
<1> QED BY <1>2, <1>3, <1>4, <1>5, <1>6, <1>7 DEF Next

(* No processor sits a tick out: while a tick waits to be processed, every *)
(* processor that listens has been woken for it, will be, or its report is *)
(* on its way to main, for any number of processors and whenever they join *)
(* (main.ts 124-126).                                                      *)
THEOREM NobodySitsOut == Spec => []EveryProcessorTold
<1>1. Init => EveryProcessorTold
  BY DEF Init, EveryProcessorTold
<1> QED BY <1>1, TellsEveryone, TypeCorrect, TickStateHolds, PTL DEF Spec
=============================================================================
