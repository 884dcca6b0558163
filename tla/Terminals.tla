------------------------------- MODULE Terminals -------------------------------
(***************************************************************************)
(* Sends from terminal to terminal (mods/market/processor.ts).  The        *)
(* sender's room, while it is processed, adds the amount to the            *)
(* destination's counter of outstanding sends and reads the destination as *)
(* it was when the tick began; it sends what still fits.  The destination  *)
(* gets what was sent when it is finalized, after every room has been      *)
(* processed, and clears the counter.  One kind of resource; the energy    *)
(* that a send costs and the reasons to refuse it that concern only the    *)
(* sender (cooldown, range) are left out.                                  *)
(*                                                                         *)
(* One rule that the code does not enforce is a guard of Move: nobody      *)
(* takes from a terminal what it is about to send.                         *)
(***************************************************************************)
EXTENDS Integers, FiniteSetsExt

CONSTANTS
  Rooms,      \* each with a terminal
  Capacity,
  MaxAmount,  \* bound: what is sent or moved at once
  MaxTime,    \* bound
  Stored,     \* bound: what the terminals may hold at first
  Flows       \* bound: what creeps bring or take at once

Assumptions ==
  /\ {Capacity, MaxAmount, MaxTime} \subseteq Nat /\ Stored \subseteq 0..Capacity
  /\ Flows \subseteq Int /\ IsFiniteSet(Rooms)

VARIABLES
  stock,      \* the terminals' contents, as each room has it
  saved,      \* as stored for the current time
  ingress,    \* scratch: room/<name>/terminalIngress, 0 when absent
  send,       \* the send of each terminal in this tick
  inbox,      \* terminalSend intents for each room, by sender
  phase,      \* of each room: "intents", "tasks", "processed", "finalized"
  time

vars == <<stock, saved, ingress, send, inbox, phase, time>>

Amounts == 1..MaxAmount
NoSend == [pc |-> "none"]
Empty == [r \in Rooms |-> 0]
AllIn(phases) == \A r \in Rooms : phase[r] \in phases

Init ==
  /\ stock \in [Rooms -> Stored] /\ saved = stock
  /\ ingress = Empty
  /\ send = [r \in Rooms |-> NoSend]
  /\ inbox = [r \in Rooms |-> Empty]
  /\ phase = [r \in Rooms |-> "intents"] /\ time = 0

\* the 'send' intent and its checks
Send(r, to, amount) ==
  /\ phase[r] = "intents" /\ send[r] = NoSend /\ to # r
  /\ amount <= stock[r]
  /\ send' = [send EXCEPT ![r] = [pc |-> "count", to |-> to, amount |-> amount]]
  /\ UNCHANGED <<stock, saved, ingress, inbox, phase, time>>

Leaving(r) == IF send[r] = NoSend THEN 0 ELSE send[r].amount

\* creeps transfer and withdraw
Move(r, amount) ==
  /\ phase[r] = "intents"
  /\ stock[r] + amount \in Leaving(r)..Capacity
  /\ stock' = [stock EXCEPT ![r] = @ + amount]
  /\ UNCHANGED <<saved, ingress, send, inbox, phase, time>>

IntentsEnd(r) ==
  /\ phase[r] = "intents" /\ phase' = [phase EXCEPT ![r] = "tasks"]
  /\ UNCHANGED <<stock, saved, ingress, send, inbox, time>>

\* mutant: sends see only themselves
Alone(s, before) == s.amount

\* "Check other outstanding sends to this terminal"
Total(s, before) == before + s.amount

\* clamp(0, amount, capacity + amount - totalAmount)
Fits(s, before) == Max({0, Min({s.amount, Capacity - saved[s.to] + s.amount - Total(s, before)})})

\* incrBy and loadRoom
Counts(r) ==
  /\ send[r].pc = "count" /\ phase[r] = "tasks"
  /\ LET s == send[r]
     IN /\ ingress' = [ingress EXCEPT ![s.to] = @ + s.amount]
        /\ send' = [send EXCEPT ![r] = [pc |-> "sent", to |-> s.to, amount |-> Fits(s, ingress[s.to])]]
  /\ UNCHANGED <<stock, saved, inbox, phase, time>>

\* the task's finalizer, and the publication of the room's intents for others
Processed(r) ==
  /\ phase[r] = "tasks" /\ send[r].pc \in {"none", "sent"}
  /\ phase' = [phase EXCEPT ![r] = "processed"]
  /\ IF send[r] = NoSend THEN UNCHANGED <<stock, inbox>>
     ELSE /\ stock' = [stock EXCEPT ![r] = @ - send[r].amount]
          /\ inbox' = [inbox EXCEPT ![send[r].to][r] = send[r].amount]
  /\ send' = [send EXCEPT ![r] = NoSend]
  /\ UNCHANGED <<saved, ingress, time>>

\* 'terminalSend', once for each sender: nothing is sent where nothing fitted
Finalize(r) ==
  /\ AllIn({"processed", "finalized"}) /\ phase[r] = "processed"
  /\ LET received == MapThenSumSet(LAMBDA from : inbox[r][from], Rooms)
     IN /\ stock' = [stock EXCEPT ![r] = @ + received]
        /\ ingress' = [ingress EXCEPT ![r] = IF received > 0 THEN 0 ELSE @]
  /\ phase' = [phase EXCEPT ![r] = "finalized"]
  /\ inbox' = [inbox EXCEPT ![r] = Empty]
  /\ UNCHANGED <<saved, send, time>>

\* the rooms as finalized are those of the next time
NextTick ==
  /\ AllIn({"finalized"})
  /\ time < MaxTime /\ time' = time + 1
  /\ saved' = stock
  /\ phase' = [r \in Rooms |-> "intents"]
  /\ UNCHANGED <<stock, ingress, send, inbox>>

Next ==
  \/ \E r \in Rooms :
       \/ \E to \in Rooms, amount \in Amounts : Send(r, to, amount)
       \/ \E amount \in Flows : Move(r, amount)
       \/ IntentsEnd(r) \/ Counts(r) \/ Processed(r) \/ Finalize(r)
  \/ NextTick

Spec == Init /\ [][Next]_vars
-----------------------------------------------------------------------------
OnItsWay(r) == MapThenSumSet(LAMBDA from : inbox[r][from], Rooms)
Promised(r) ==
  MapThenSumSet(LAMBDA from : IF send[from].pc = "sent" /\ send[from].to = r THEN send[from].amount ELSE 0, Rooms)

(* However many rooms send to a terminal in one tick, in whatever order     *)
(* they are processed, what they send together fits into it as it was when  *)
(* the tick began (processor.ts: "Check other outstanding sends").          *)
SendsFit ==
  \A r \in Rooms : phase[r] # "finalized" => saved[r] + Promised(r) + OnItsWay(r) <= Max({Capacity, saved[r]})
=============================================================================
