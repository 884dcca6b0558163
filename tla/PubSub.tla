------------------------------- MODULE PubSub -------------------------------
(***************************************************************************)
(* One channel of the local pubsub provider (engine/db/storage/local/      *)
(* pubsub.ts): the top thread keeps the subscriptions, and threads and     *)
(* sibling processes reach it over a port, in order both ways.  A client   *)
(* subscribes upstream once for all its subscriptions, and forwards its    *)
(* own messages to them itself when the top thread has acknowledged them.  *)
(*                                                                         *)
(* Two rules that the provider does not enforce are guards of Subscribe    *)
(* and Unsubscribe: a client's subscriptions to a channel do not begin     *)
(* while its first is not acknowledged, and its last one does not end      *)
(* while another begins.                                                   *)
(***************************************************************************)
EXTENDS Integers, Sequences, FiniteSets, SequencesExt

CONSTANTS
  Clients,      \* worker threads and sibling processes
  Top,          \* the top thread
  Subscribers,  \* subscriptions that users make
  Place,        \* the client of each subscription, or Top
  Nobody,       \* a message published on the channel, not by a subscription
  MaxMessages,  \* bound: messages published
  MaxAttempts   \* bound: calls of subscribe

PubSubAssumption ==
  /\ Top \notin Clients /\ Nobody \notin Clients \cup Subscribers /\ Clients \cap Subscribers = {}
  /\ Place \in [Subscribers -> Clients \cup {Top}]
  /\ MaxMessages \in Nat /\ MaxAttempts \in Nat

VARIABLES
  references,    \* subscriptionsByKey of the parent: subscriptions of its own thread, clients otherwise
  up, down,      \* the ports
  syn,           \* what a client's unacknowledged messages are to do when they are
  entry,         \* does the client's subscriptionsByKey have the channel
  member,        \* subscriptions in the set of that entry
  status,        \* of a subscription: "none", "subscribing", "active"
  log,           \* history: messages in the order in which the top thread handled them
  since,         \* history: how many it had handled when it acknowledged the subscription
  heard,         \* history: messages the listener was called with
  published, attempts

ports == <<up, down, syn>>
clientVars == <<entry, member>>
history == <<log, since, heard>>
bounds == <<published, attempts>>
vars == <<references, ports, clientVars, status, history, bounds>>

Init ==
  /\ references = {} /\ up = [c \in Clients |-> <<>>] /\ down = [c \in Clients |-> <<>>]
  /\ syn = [c \in Clients |-> <<>>] /\ entry = {} /\ member = {}
  /\ status = [s \in Subscribers |-> "none"]
  /\ log = <<>> /\ since = [s \in Subscribers |-> 0] /\ heard = [s \in Subscribers |-> <<>>]
  /\ published = 0 /\ attempts = 0

Of(c) == {s \in Subscribers : Place[s] = c}
Sends(c, message) == up' = [up EXCEPT ![c] = Append(@, message)]

\* the listeners of these subscriptions are called
Hear(ss, m) == heard' = [s \in Subscribers |-> IF s \in ss THEN Append(heard[s], m) ELSE heard[s]]
-----------------------------------------------------------------------------
(***************************************************************************)
(* The top thread                                                          *)
(***************************************************************************)
\* send(): to every subscription but the one that published it
Others(source) == references \ {source}

\* references of clients are sent the message, those of the thread's own are called
Forward(m, by, source) ==
  /\ log' = Append(log, [id |-> m, by |-> by])
  /\ down' = [c \in Clients |-> IF c \in Others(source) THEN Append(down[c], [type |-> "publish", id |-> m])
                                ELSE down[c]]
  /\ Hear(Others(source) \cap Of(Top), m)

\* ParentSubscription.publish, or publish() of the provider
TopPublishes(by) ==
  /\ published < MaxMessages /\ published' = published + 1
  /\ by # Nobody => Place[by] = Top /\ status[by] = "active"
  /\ Forward(published + 1, by, by)
  /\ UNCHANGED <<references, up, syn, clientVars, status, since, attempts>>

TopSubscribes(s) ==
  /\ Place[s] = Top /\ status[s] = "none" /\ attempts < MaxAttempts
  /\ attempts' = attempts + 1
  /\ references' = references \cup {s}
  /\ status' = [status EXCEPT ![s] = "active"]
  /\ since' = [since EXCEPT ![s] = Len(log)] /\ heard' = [heard EXCEPT ![s] = <<>>]
  /\ UNCHANGED <<ports, clientVars, log, published>>

TopUnsubscribes(s) ==
  /\ Place[s] = Top /\ status[s] = "active"
  /\ references' = references \ {s}
  /\ status' = [status EXCEPT ![s] = "none"]
  /\ UNCHANGED <<ports, clientVars, history, bounds>>

Receives(c, type) == up[c] # <<>> /\ Head(up[c]).type = type /\ up' = [up EXCEPT ![c] = Tail(@)]
Acknowledge(c) == down' = [down EXCEPT ![c] = Append(@, [type |-> "ack"])]

\* the acknowledgement follows what others were sent
HandlePublish(c) ==
  /\ Receives(c, "publish")
  /\ LET message == Head(up[c])
         recipients == Others(c)
     IN /\ log' = Append(log, [id |-> message.id, by |-> message.by])
        /\ down' = [q \in Clients |->
             LET forwarded == IF q \in recipients THEN Append(down[q], [type |-> "publish", id |-> message.id])
                              ELSE down[q]
             IN IF q = c THEN Append(forwarded, [type |-> "ack"]) ELSE forwarded]
        /\ Hear(recipients \cap Of(Top), message.id)
  /\ UNCHANGED <<references, syn, clientVars, status, since, bounds>>

HandleSyn(c) ==
  /\ Receives(c, "syn")
  /\ Acknowledge(c)
  /\ since' = [since EXCEPT ![Head(up[c]).by] = Len(log)]
  /\ UNCHANGED <<references, syn, clientVars, status, log, heard, bounds>>

HandleSubscribe(c) ==
  /\ Receives(c, "subscribe")
  /\ references' = references \cup {c}
  /\ Acknowledge(c)
  /\ since' = [since EXCEPT ![Head(up[c]).by] = Len(log)]
  /\ UNCHANGED <<syn, clientVars, status, log, heard, bounds>>

HandleUnsubscribe(c) ==
  /\ Receives(c, "unsubscribe")
  /\ references' = references \ {c}
  /\ UNCHANGED <<down, syn, clientVars, status, history, bounds>>
-----------------------------------------------------------------------------
(***************************************************************************)
(* A client                                                                *)
(***************************************************************************)
Awaits(c, what) == syn' = [syn EXCEPT ![c] = Append(@, what)]

\* send()
Publish(c, by) ==
  /\ published < MaxMessages /\ published' = published + 1
  /\ by # Nobody => Place[by] = c /\ status[by] = "active"
  /\ Sends(c, [type |-> "publish", id |-> published + 1, by |-> by])
  /\ Awaits(c, [type |-> "publish", id |-> published + 1, by |-> by])
  /\ UNCHANGED <<references, down, clientVars, status, history, attempts>>

Members(c) == member \cap Of(c)
Beginning(c) == {s \in Of(c) : status[s] = "subscribing"}

\* what the client asks of the top thread
Request(c) == IF Members(c) = {} THEN "subscribe" ELSE "syn"

Subscribe(s) ==
  LET c == Place[s]
  IN /\ c \in Clients /\ status[s] = "none" /\ attempts < MaxAttempts
     /\ Members(c) = {} => Beginning(c) = {}
     /\ attempts' = attempts + 1
     /\ entry' = entry \cup {c}
     /\ status' = [status EXCEPT ![s] = "subscribing"]
     /\ heard' = [heard EXCEPT ![s] = <<>>]
     /\ Sends(c, [type |-> Request(c), by |-> s])
     /\ Awaits(c, [type |-> "subscribe", by |-> s])
     /\ UNCHANGED <<references, down, member, log, since, published>>

\* mutant: the top thread is told of every subscription that ends
Always(c, s) == TRUE

\* the client has no other subscription
IsLast(c, s) == Members(c) = {s}

Unsubscribe(s) ==
  LET c == Place[s]
  IN /\ c \in Clients /\ status[s] = "active"
     /\ Members(c) = {s} => Beginning(c) = {}
     /\ member' = member \ {s}
     /\ status' = [status EXCEPT ![s] = "none"]
     /\ IF IsLast(c, s)
        THEN entry' = entry \ {c} /\ Sends(c, [type |-> "unsubscribe"])
        ELSE UNCHANGED <<entry, up>>
     /\ UNCHANGED <<references, down, syn, history, bounds>>

Delivered(c, type) == down[c] # <<>> /\ Head(down[c]).type = type /\ down' = [down EXCEPT ![c] = Tail(@)]

\* local subscribers that hear a message of this client
Local(c, by) == Members(c) \ {by}

\* resolves the oldest promise; what awaits it goes on before the port's next message
HearAck(c) ==
  /\ Delivered(c, "ack")
  /\ syn' = [syn EXCEPT ![c] = Tail(@)]
  /\ LET what == Head(syn[c])
     IN IF what.type = "publish"
        THEN /\ Hear(IF c \in entry THEN Local(c, what.by) ELSE {}, what.id)
             /\ UNCHANGED <<member, status>>
        ELSE /\ member' = member \cup {what.by}
             /\ status' = [status EXCEPT ![what.by] = "active"]
             /\ UNCHANGED heard
  /\ UNCHANGED <<references, up, entry, log, since, bounds>>

HearPublish(c) ==
  /\ Delivered(c, "publish")
  /\ Hear(IF c \in entry THEN Members(c) ELSE {}, Head(down[c]).id)
  /\ UNCHANGED <<references, up, syn, clientVars, status, log, since, bounds>>

Handles(c) == HandlePublish(c) \/ HandleSyn(c) \/ HandleSubscribe(c) \/ HandleUnsubscribe(c)
Hears(c) == HearAck(c) \/ HearPublish(c)

Next ==
  \/ \E by \in Subscribers \cup {Nobody} : TopPublishes(by) \/ \E c \in Clients : Publish(c, by)
  \/ \E s \in Subscribers : TopSubscribes(s) \/ TopUnsubscribes(s) \/ Subscribe(s) \/ Unsubscribe(s)
  \/ \E c \in Clients : Handles(c) \/ Hears(c)

Spec == Init /\ [][Next]_vars
-----------------------------------------------------------------------------
\* what a subscription that began at `from` is told by the first n messages: not its own
Telling(messages, from, s) ==
  LET told[n \in Nat] ==
        IF n <= from THEN <<>>
        ELSE IF messages[n].by = s THEN told[n - 1]
        ELSE Append(told[n - 1], messages[n].id)
  IN told

\* what it is to hear: everything since it began, except what it publishes itself
Due(s) == Telling(log, since[s], s)[Len(log)]

(* While it lasts, a subscription hears the messages of all threads in the  *)
(* one order of the top thread, each once, its own left out and none from   *)
(* before it began; and when nothing is on its way any more it has heard    *)
(* all of them, whatever else its client published, subscribed or ended     *)
(* (send, subscribe and unsubscribe of both sides).                         *)
HearsAll ==
  \A s \in Subscribers : status[s] = "active" =>
    /\ IsPrefix(heard[s], Due(s))
    /\ (\A c \in Clients : up[c] = <<>> /\ down[c] = <<>>) => heard[s] = Due(s)
=============================================================================
