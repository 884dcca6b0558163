------------------------------- MODULE Channel -------------------------------
(***************************************************************************)
(* A subscription read by loops (engine/db/channel.ts): iterable() starts  *)
(* to keep messages at once, and its loop takes them one by one, waiting   *)
(* on a promise when there is none.  A promise that is resolved resumes    *)
(* the loop later; messages and disconnect() may come before it does, and  *)
(* while the loop's body awaits something.                                 *)
(*                                                                         *)
(* Two rules that the code does not enforce are guards of Disconnect: a    *)
(* loop that has not begun would wait for ever, and one that was just      *)
(* handed a message has no promise left, so that disconnect() throws.      *)
(***************************************************************************)
EXTENDS Naturals, Sequences, FiniteSets, SequencesExt

CONSTANTS
  Loops,        \* iterables of the subscription
  MaxMessages   \* bound: messages that arrive

VARIABLES
  loop,       \* "idle": not begun, "waiting", "resuming", "body", "returned"
  queue,      \* messages kept for a loop
  deferred,   \* has the loop's closure a promise to resolve
  value,      \* what the promise was resolved with: a message, or 0 by disconnect()
  attached,   \* loops in disconnectListeners
  disconnected,
  arrived,    \* messages so far
  yielded     \* history: what the loop's body got

vars == <<loop, queue, deferred, value, attached, disconnected, arrived, yielded>>

Init ==
  /\ loop = [i \in Loops |-> "idle"] /\ queue = [i \in Loops |-> <<>>] /\ deferred = {}
  /\ value = [i \in Loops |-> 0] /\ attached = {} /\ disconnected = FALSE
  /\ arrived = 0 /\ yielded = [i \in Loops |-> <<>>]

\* loops whose listener is on the subscription
Listening == {i \in Loops : loop[i] # "returned"}

\* the listener of each iterable, in one turn: resolve the promise, or keep the message
Arrive ==
  /\ ~disconnected /\ arrived < MaxMessages
  /\ arrived' = arrived + 1
  /\ LET handed == Listening \cap deferred
     IN /\ value' = [i \in Loops |-> IF i \in handed THEN arrived' ELSE value[i]]
        /\ loop' = [i \in Loops |-> IF i \in handed THEN "resuming" ELSE loop[i]]
        /\ queue' = [i \in Loops |-> IF i \in Listening \ handed THEN Append(queue[i], arrived') ELSE queue[i]]
        /\ deferred' = deferred \ handed
  /\ UNCHANGED <<attached, disconnected, yielded>>

\* after each yield; a loop that begins does not look
Stops(i) == disconnected /\ loop[i] = "body"

Yields(i, m) == yielded' = [yielded EXCEPT ![i] = Append(@, m)]

\* the body is done and asks for the next message
Continue(i) ==
  /\ loop[i] \in {"idle", "body"}
  /\ IF Stops(i)
     THEN loop' = [loop EXCEPT ![i] = "returned"] /\ UNCHANGED <<queue, deferred, attached, yielded>>
     ELSE IF queue[i] # <<>>
     THEN /\ loop' = [loop EXCEPT ![i] = "body"]
          /\ queue' = [queue EXCEPT ![i] = Tail(@)] /\ Yields(i, Head(queue[i]))
          /\ UNCHANGED <<deferred, attached>>
     ELSE /\ loop' = [loop EXCEPT ![i] = "waiting"]
          /\ deferred' = deferred \cup {i} /\ attached' = attached \cup {i}
          /\ UNCHANGED <<queue, yielded>>
  /\ UNCHANGED <<value, disconnected, arrived>>

\* mutant: what came while the loop was resuming goes first
ResumeWithQueue(i) ==
  /\ loop[i] = "resuming"
  /\ attached' = attached \ {i}
  /\ IF value[i] = 0
     THEN loop' = [loop EXCEPT ![i] = "returned"] /\ UNCHANGED <<queue, yielded>>
     ELSE /\ loop' = [loop EXCEPT ![i] = "body"]
          /\ Yields(i, Head(Append(queue[i], value[i])))
          /\ queue' = [queue EXCEPT ![i] = Tail(Append(@, value[i]))]
  /\ UNCHANGED <<deferred, value, disconnected, arrived>>

\* the loop goes on behind its await
Resume(i) ==
  /\ loop[i] = "resuming"
  /\ attached' = attached \ {i}
  /\ IF value[i] = 0
     THEN loop' = [loop EXCEPT ![i] = "returned"] /\ UNCHANGED yielded
     ELSE loop' = [loop EXCEPT ![i] = "body"] /\ Yields(i, value[i])
  /\ UNCHANGED <<queue, deferred, value, disconnected, arrived>>

\* the body leaves the loop
Break(i) ==
  /\ loop[i] = "body"
  /\ loop' = [loop EXCEPT ![i] = "returned"]
  /\ UNCHANGED <<queue, deferred, value, attached, disconnected, arrived, yielded>>

\* every attached loop's promise is resolved, then the flag is set
Disconnect ==
  /\ ~disconnected /\ disconnected' = TRUE
  /\ attached \subseteq deferred /\ \A i \in Loops : loop[i] # "idle"
  /\ value' = [i \in Loops |-> IF i \in attached THEN 0 ELSE value[i]]
  /\ loop' = [i \in Loops |-> IF i \in attached THEN "resuming" ELSE loop[i]]
  /\ UNCHANGED <<queue, deferred, attached, arrived, yielded>>

Next ==
  \/ Arrive \/ Disconnect
  \/ \E i \in Loops : Continue(i) \/ Resume(i) \/ Break(i)

Spec == Init /\ [][Next]_vars
-----------------------------------------------------------------------------
(* A loop gets the messages that came since iterable(), in order and each   *)
(* once, also those that come between a promise and the loop's resumption.  *)
(* And none waits for a promise that nothing is left to resolve: not after  *)
(* disconnect(), whatever it was doing then, and not while there is a       *)
(* message for it that it has not had.                                      *)
YieldsAll ==
  \A i \in Loops :
    /\ yielded[i] = [m \in 1..Len(yielded[i]) |-> m]
    /\ loop[i] = "waiting" => ~disconnected /\ Len(yielded[i]) = arrived
=============================================================================
