------------------------------ MODULE Services ------------------------------
(***************************************************************************)
(* The life of the main and processor services of a shard: the handshake   *)
(* and room initialisation before the first tick, main's loop around       *)
(* tick() with its pause and delay, and shutdown (engine/service/main.ts,  *)
(* processor.ts, launcher.ts).  What happens inside a tick is module       *)
(* Tick's subject; here a tick has work or has none, processors do it, and *)
(* tickFinished is published.  Times are left out: a message about an      *)
(* earlier tick is dropped when the next begins, as its receivers do.      *)
(***************************************************************************)
EXTENDS Naturals, Sequences, FiniteSets

CONSTANTS
  Processors,     \* processor services started by the launcher
  Rooms,
  EmptyTicks,     \* may every room be asleep, so that a tick has nothing to process
  Interrupts,     \* may the operator interrupt the launcher
  MaxRequests     \* bound: pause, unpause and pausedTick messages from the command line

ASSUME ServicesAssumption ==
  /\ IsFiniteSet(Processors) /\ Processors # {}
  /\ IsFiniteSet(Rooms) /\ Rooms # {}
  /\ EmptyTicks \in BOOLEAN /\ Interrupts \in BOOLEAN /\ MaxRequests \in Nat

VARIABLES
  mainPc,         \* where main is: "down", "init", "start", "tick", "beget", "delay", "paused", "closing", "stopped"
  inbox,          \* service channel messages main has not read: <<type, processor or none>>
  paused, willContinue,
  work,           \* the begotten tick's rooms: "none" | "process" | "finalize"
  finalizers,     \* processors that processed rooms of this tick and have not finalized them
  processorPc,    \* "down", "waiting", "initializing", "listen", "finalize", "failed", "stopped"
  heard,          \* service channel messages a waiting processor has not read
  mail,           \* processor channel messages a listening processor has not read
  awake,          \* processors whose workers were woken for this tick
  halted,         \* processors that saw the interrupt
  uninitialized, initializing,   \* initializeRooms, and what each processor took from it
  interrupted, announced,        \* the operator interrupted; the launcher published shutdown
  requests

mainVars == <<mainPc, inbox, paused, willContinue>>
tickVars == <<work, finalizers, awake>>
processorVars == <<processorPc, heard, mail, halted>>
roomVars == <<uninitialized, initializing>>
operator == <<interrupted, announced, requests>>
vars == <<mainVars, tickVars, processorVars, roomVars, operator>>

Waiting == {p \in Processors : processorPc[p] = "waiting"}

\* mutant: a processor that is finalizing does not hear the channel
Unoccupied == {p \in Processors : processorPc[p] = "listen"}

\* Only a processor whose iterable() is attached hears the processor channel
Listening == {p \in Processors : processorPc[p] \in {"listen", "finalize"}}

Send(ps, message) == [p \in Processors |-> IF p \in ps THEN mail[p] \cup {message} ELSE mail[p]]

\* mutant: the greeting is echoed, not answered
Echo(ps, message) ==
  [p \in Processors |-> IF p \in ps THEN Append(heard[p], "processorConnected") ELSE heard[p]]

Tell(ps, message) == [p \in Processors |-> IF p \in ps THEN Append(heard[p], message) ELSE heard[p]]

Init ==
  /\ mainPc = "down" /\ inbox = <<>> /\ paused = FALSE /\ willContinue = TRUE
  /\ work = "none" /\ finalizers = {} /\ awake = {}
  /\ processorPc = [p \in Processors |-> "down"]
  /\ heard = [p \in Processors |-> <<>>] /\ mail = [p \in Processors |-> {}]
  /\ halted = {} /\ uninitialized = {} /\ initializing = [p \in Processors |-> {}]
  /\ interrupted = FALSE /\ announced = FALSE /\ requests = 0
-----------------------------------------------------------------------------
(***************************************************************************)
(* main                                                                    *)
(***************************************************************************)
\* mutant: processors that were up first are not told
MainConnectsQuietly ==
  /\ mainPc = "down"
  /\ mainPc' = "init"
  /\ uninitialized' = Rooms
  /\ UNCHANGED <<inbox, paused, willContinue, tickVars, processorVars, initializing, operator>>

\* flush the scratch store, list the rooms to initialise, listen and announce
MainConnects ==
  /\ mainPc = "down"
  /\ mainPc' = "init"
  /\ uninitialized' = Rooms
  /\ heard' = Tell(Waiting, "mainConnected")
  /\ UNCHANGED <<inbox, paused, willContinue, tickVars, processorPc, mail, halted, initializing, operator>>

\* read the next service message
Reads(type) == inbox # <<>> /\ Head(inbox)[1] = type /\ inbox' = Tail(inbox)

\* handleServiceMessage, and what the loop it is called from drops
HandleServiceMessage(kinds) ==
  /\ \E type \in kinds : Reads(type)
  /\ LET type == Head(inbox)[1]
     IN /\ paused' = IF type = "pause" THEN TRUE ELSE IF type = "unpause" THEN FALSE ELSE paused
        /\ heard' = IF type = "processorConnected" THEN Tell(Waiting, "mainConnected") ELSE heard

Common == {"pause", "unpause", "processorConnected"}

\* zCard(activeRooms) === rooms.length
AllInitialized == uninitialized = {} /\ \A p \in Processors : initializing[p] = {}

\* before the first tick: it starts when a processor reports and every room has been initialised
InitHandles ==
  /\ mainPc = "init"
  /\ \/ /\ Reads("processorInitialized")
        /\ mainPc' = IF AllInitialized THEN "start" ELSE "init"
        /\ work' = IF AllInitialized THEN "process" ELSE work
        /\ UNCHANGED <<paused, heard>>
     \/ Reads("shutdown") /\ mainPc' = "closing" /\ UNCHANGED <<paused, heard, work>>
     \/ HandleServiceMessage(Common \cup {"pausedTick"}) /\ UNCHANGED <<mainPc, work>>
  /\ UNCHANGED <<willContinue, finalizers, awake, processorPc, mail, halted, roomVars, operator>>

StartTick ==
  /\ mainPc = "start"
  /\ mainPc' = "tick" /\ willContinue' = TRUE
  /\ mail' = Send(Listening, "process")
  /\ UNCHANGED <<inbox, paused, tickVars, processorPc, heard, halted, roomVars, operator>>

\* mutant: a processor that comes late is not told
TellNobody == {}

\* a processor that becomes ready during the tick is told of it
ToldAgain == Listening

TickHandles ==
  /\ mainPc = "tick"
  /\ \/ /\ Reads("processorInitialized")
        /\ mail' = Send(ToldAgain, "process")
        /\ UNCHANGED <<mainPc, paused, willContinue, heard>>
     \/ Reads("tickFinished") /\ mainPc' = "beget" /\ UNCHANGED <<paused, willContinue, mail, heard>>
     \/ Reads("shutdown") /\ willContinue' = FALSE /\ UNCHANGED <<mainPc, paused, mail, heard>>
     \/ HandleServiceMessage(Common \cup {"pausedTick"}) /\ UNCHANGED <<mainPc, willContinue, mail>>
  /\ UNCHANGED <<tickVars, processorPc, halted, roomVars, operator>>

\* begetRoomProcessQueue and the rest of the loop's turn: stop, pause, or wait out the delay, of
\* which nothing may be left
Beget ==
  /\ mainPc = "beget"
  /\ work' \in {"process"} \cup (IF EmptyTicks THEN {"none"} ELSE {})
  /\ inbox' = IF work' = "none" THEN Append(inbox, <<"tickFinished", "none">>) ELSE inbox
  /\ awake' = {}
  /\ mail' = [p \in Processors |-> mail[p] \ {"process"}]
  /\ mainPc' \in IF ~willContinue THEN {"closing"} ELSE IF paused THEN {"paused"} ELSE {"delay", "start"}
  /\ UNCHANGED <<paused, willContinue, finalizers, processorPc, heard, halted, roomVars, operator>>

DelayEnds ==
  /\ mainPc = "delay"
  /\ mainPc' = "start"
  /\ UNCHANGED <<inbox, paused, willContinue, tickVars, processorVars, roomVars, operator>>

\* while paused only the operator's messages count; every other message is read and dropped
PausedHandles ==
  /\ mainPc = "paused"
  /\ \/ Reads("pausedTick") /\ mainPc' = "start" /\ UNCHANGED <<paused, heard>>
     \/ Reads("shutdown") /\ mainPc' = "closing" /\ UNCHANGED <<paused, heard>>
     \/ /\ HandleServiceMessage(Common \cup {"processorInitialized", "tickFinished"})
        /\ mainPc' = IF paused' THEN "paused" ELSE "start"
  /\ UNCHANGED <<willContinue, tickVars, processorPc, mail, halted, roomVars, operator>>

MainCloses ==
  /\ mainPc = "closing"
  /\ mainPc' = "stopped" /\ inbox' = <<>>
  /\ mail' = Send(Listening, "shutdown")
  /\ UNCHANGED <<paused, willContinue, tickVars, processorPc, heard, halted, roomVars, operator>>

Main ==
  \/ MainConnects \/ InitHandles \/ StartTick \/ TickHandles \/ Beget \/ DelayEnds
  \/ PausedHandles \/ MainCloses
-----------------------------------------------------------------------------
(***************************************************************************)
(* A processor service                                                     *)
(***************************************************************************)
\* a service message reaches main once it has subscribed
Publish(type, from) ==
  inbox' = IF mainPc \in {"down", "stopped"} THEN inbox ELSE Append(inbox, <<type, from>>)

ProcessorConnects(p) ==
  /\ processorPc[p] = "down"
  /\ processorPc' = [processorPc EXCEPT ![p] = "waiting"]
  /\ Publish("processorConnected", p)
  /\ UNCHANGED <<mainPc, paused, willContinue, tickVars, heard, mail, halted, roomVars, operator>>

ProcessorHears(p) ==
  /\ processorPc[p] = "waiting" /\ heard[p] # <<>>
  /\ heard' = [heard EXCEPT ![p] = Tail(heard[p])]
  /\ processorPc' = [processorPc EXCEPT ![p] =
                       IF Head(heard[p]) = "shutdown" \/ p \in halted THEN "failed" ELSE "initializing"]
  /\ UNCHANGED <<mainVars, tickVars, mail, halted, roomVars, operator>>

TakeRoom(p, r) ==
  /\ processorPc[p] = "initializing" /\ r \in uninitialized
  /\ uninitialized' = uninitialized \ {r}
  /\ initializing' = [initializing EXCEPT ![p] = initializing[p] \cup {r}]
  /\ UNCHANGED <<mainVars, tickVars, processorVars, operator>>

RoomInitialized(p, r) ==
  /\ r \in initializing[p]
  /\ initializing' = [initializing EXCEPT ![p] = initializing[p] \ {r}]
  /\ UNCHANGED <<mainVars, tickVars, processorVars, uninitialized, operator>>

\* its workers found no more rooms, or stopped early: listen, then report
ProcessorInitialized(p) ==
  /\ processorPc[p] = "initializing"
  /\ initializing[p] = {} /\ (uninitialized = {} \/ p \in halted)
  /\ processorPc' = [processorPc EXCEPT ![p] = "listen"]
  /\ Publish("processorInitialized", p)
  /\ UNCHANGED <<mainPc, paused, willContinue, tickVars, heard, mail, halted, roomVars, operator>>

HandleProcess(p) ==
  /\ processorPc[p] = "listen" /\ "process" \in mail[p]
  /\ mail' = [mail EXCEPT ![p] = mail[p] \ {"process"}]
  /\ awake' = awake \cup {p}
  /\ UNCHANGED <<mainVars, work, finalizers, processorPc, heard, halted, roomVars, operator>>

\* the woken processors `ps` process the tick's rooms and the last of them announces finalization
ProcessRooms(ps) ==
  /\ work = "process" /\ ps # {} /\ ps \subseteq awake
  /\ work' = "finalize" /\ finalizers' = ps
  /\ mail' = Send(Listening, "finalize")
  /\ UNCHANGED <<mainVars, awake, processorPc, heard, halted, roomVars, operator>>

HandleFinalize(p) ==
  /\ processorPc[p] = "listen" /\ "finalize" \in mail[p]
  /\ mail' = [mail EXCEPT ![p] = mail[p] \ {"finalize"}]
  /\ processorPc' = [processorPc EXCEPT ![p] = "finalize"]
  /\ UNCHANGED <<mainVars, tickVars, heard, halted, roomVars, operator>>

\* its workers answer the finalize request; the last one has published tickFinished before that
RoomsFinalized(p) ==
  /\ processorPc[p] = "finalize" /\ p \in finalizers
  /\ finalizers' = finalizers \ {p}
  /\ work' = IF finalizers' = {} THEN "none" ELSE work
  /\ IF finalizers' = {} THEN Publish("tickFinished", "none") ELSE UNCHANGED inbox
  /\ UNCHANGED <<mainPc, paused, willContinue, awake, processorVars, roomVars, operator>>

\* "We check for interrupts at the end of tick"
FinalizeReturns(p) ==
  /\ processorPc[p] = "finalize" /\ p \notin finalizers
  /\ processorPc' = [processorPc EXCEPT ![p] = IF p \in halted THEN "stopped" ELSE "listen"]
  /\ UNCHANGED <<mainVars, tickVars, heard, mail, halted, roomVars, operator>>

HandleShutdown(p) ==
  /\ processorPc[p] = "listen" /\ mail[p] = {"shutdown"}
  /\ processorPc' = [processorPc EXCEPT ![p] = "stopped"]
  /\ UNCHANGED <<mainVars, tickVars, heard, mail, halted, roomVars, operator>>

\* the interrupt reaches every thread by itself (signal.ts); under the launcher it only sets a flag
ProcessorHalts(p) ==
  /\ interrupted /\ p \notin halted
  /\ halted' = halted \cup {p}
  /\ UNCHANGED <<mainVars, tickVars, processorPc, heard, mail, roomVars, operator>>

Processor(p) ==
  \/ ProcessorConnects(p) \/ ProcessorHears(p) \/ ProcessorInitialized(p)
  \/ \E r \in Rooms : TakeRoom(p, r) \/ RoomInitialized(p, r)
  \/ HandleProcess(p) \/ HandleFinalize(p) \/ RoomsFinalized(p) \/ FinalizeReturns(p)
  \/ HandleShutdown(p) \/ ProcessorHalts(p)
-----------------------------------------------------------------------------
(***************************************************************************)
(* The operator and the launcher                                           *)
(***************************************************************************)
Request(type) ==
  /\ requests < MaxRequests /\ mainPc \notin {"down", "stopped"}
  /\ requests' = requests + 1
  /\ Publish(type, "none")
  /\ UNCHANGED <<mainPc, paused, willContinue, tickVars, processorVars, roomVars, interrupted, announced>>

Interrupt ==
  /\ Interrupts /\ ~interrupted /\ mainPc # "down"
  /\ interrupted' = TRUE
  /\ UNCHANGED <<mainVars, tickVars, processorVars, roomVars, announced, requests>>

\* mutant: the interrupt breaks the tick's loop too
LauncherBreaksTick ==
  /\ interrupted /\ ~announced
  /\ announced' = TRUE
  /\ Publish("shutdown", "none")
  /\ mainPc' = IF mainPc \in {"delay", "tick"} THEN "closing" ELSE mainPc
  /\ heard' = Tell(Waiting, "shutdown")
  /\ UNCHANGED <<paused, willContinue, tickVars, processorPc, mail, halted, roomVars, interrupted, requests>>

\* the launcher publishes shutdown: main queues it, and a tick delay under way is cut short
LauncherShutsDown ==
  /\ interrupted /\ ~announced
  /\ announced' = TRUE
  /\ Publish("shutdown", "none")
  /\ mainPc' = IF mainPc = "delay" THEN "closing" ELSE mainPc
  /\ heard' = Tell(Waiting, "shutdown")
  /\ UNCHANGED <<paused, willContinue, tickVars, processorPc, mail, halted, roomVars, interrupted, requests>>

Terminated ==
  /\ mainPc = "stopped"
  /\ UNCHANGED vars

Next ==
  \/ Main
  \/ \E p \in Processors : Processor(p)
  \/ \E ps \in SUBSET Processors : ProcessRooms(ps)
  \/ \E type \in {"pause", "unpause", "pausedTick"} : Request(type)
  \/ Interrupt \/ LauncherShutsDown \/ Terminated

Spec == Init /\ [][Next]_vars

\* Every service's event loop keeps turning; the operator owes nothing.
Fairness ==
  /\ WF_vars(Main) /\ WF_vars(LauncherShutsDown)
  /\ \A p \in Processors : WF_vars(Processor(p))
  /\ WF_vars(\E ps \in SUBSET Processors : ProcessRooms(ps))

FairSpec == Spec /\ Fairness
-----------------------------------------------------------------------------
(***************************************************************************)
(* Properties                                                              *)
(***************************************************************************)
ServiceMessages ==
  {"processorConnected", "processorInitialized", "tickFinished", "pause", "unpause", "pausedTick", "shutdown"}
    \X (Processors \cup {"none"})

TypeOK ==
  /\ mainPc \in {"down", "init", "start", "tick", "beget", "delay", "paused", "closing", "stopped"}
  /\ inbox \in Seq(ServiceMessages)
  /\ paused \in BOOLEAN /\ willContinue \in BOOLEAN
  /\ work \in {"none", "process", "finalize"}
  /\ finalizers \subseteq Processors /\ awake \subseteq Processors /\ halted \subseteq Processors
  /\ processorPc \in [Processors -> {"down", "waiting", "initializing", "listen", "finalize", "failed", "stopped"}]
  /\ heard \in [Processors -> Seq({"mainConnected", "shutdown"})]
  /\ mail \in [Processors -> SUBSET {"process", "finalize", "shutdown"}]
  /\ uninitialized \subseteq Rooms /\ initializing \in [Processors -> SUBSET Rooms]
  /\ interrupted \in BOOLEAN /\ announced \in BOOLEAN /\ requests \in 0 .. MaxRequests

\* While a tick waits to be processed every processor that listens has been woken for it, will be,
\* or has a report on its way to main (main.ts:124-126): no processor sits a tick out.
EveryProcessorTold ==
  mainPc = "tick" /\ work = "process" => \A p \in Listening :
    p \in awake \/ "process" \in mail[p] \/ \E i \in DOMAIN inbox : inbox[i] = <<"processorInitialized", p>>

\* Main never closes in the middle of a tick: the shutdown message, whenever it arrives, is obeyed
\* between two ticks, with every room finalized (main.ts:147-149, 163-167).
ClosesBetweenTicks ==
  mainPc \in {"closing", "stopped"} => work # "finalize" /\ finalizers = {} /\ awake = {}

\* The handshake works whichever side is up first: main leaves its initial wait.
Starts == mainPc = "init" ~> mainPc # "init"

\* A tick that has rooms to process finishes, until the operator interrupts.
BusyTicksFinish ==
  mainPc = "tick" /\ work = "process" /\ ~interrupted ~> mainPc = "beget" \/ interrupted

\* "the main loop will sit on and eventually process" the tickFinished of a tick with no room to
\* process (model.ts:199): so that every tick finishes.
TicksFinish == mainPc = "tick" ~> mainPc = "beget"

\* "main owns shutdown via the processor channel" (processor.ts:20-21): once interrupted, main stops.
ShutdownStops == interrupted ~> mainPc = "stopped"
=============================================================================
