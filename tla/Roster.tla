-------------------------------- MODULE Roster --------------------------------
(***************************************************************************)
(* The power creeps of an account (mods/powercreep/model.ts, driver.ts).   *)
(* The roster is one blob, which requests change by compare-and-swap and   *)
(* a bounded number of attempts; whoever changed it publishes the fact,    *)
(* and the runner loads the blob again before the player's next tick.      *)
(* Names are taken to be at most 50 characters, which none is cut to.      *)
(***************************************************************************)
EXTENDS Integers, Sequences, FiniteSetsExt

CONSTANTS
  Clients,       \* requests that the backend handles
  Ids, Names,
  Absent,        \* no blob
  Levels,        \* the account's global power level
  Attempts,
  Cooldown,
  MaxTime,       \* bound
  MaxRequests    \* bound

Assumptions ==
  /\ {Levels, Attempts, Cooldown, MaxTime, MaxRequests} \subseteq Nat
  /\ Attempts > 0 /\ Cooldown > 0

VARIABLES
  roster,     \* the blob: a set of creeps, or Absent
  now,
  client,     \* the request of each client and how far it is
  requests,   \* bounded
  mail,       \* 'updated' messages on their way to the runner
  dirty,
  runner,     \* "off", "subscribed", "loading", "loaded", "running"
  view        \* the roster that the player's sandbox has

vars == <<roster, now, client, requests, mail, dirty, runner, view>>
notRunner == <<roster, now, client, requests>>

Idle == [pc |-> "idle"]
Creep(id, name) == [id |-> id, name |-> name, level |-> 0, deleteTime |-> 0]
IsLive(creep, time) == creep.deleteTime = 0 \/ creep.deleteTime > time
Live(blob, time) == IF blob = Absent THEN {} ELSE {creep \in blob : IsLive(creep, time)}
Used(creeps) == MapThenSumSet(LAMBDA creep : creep.level + 1, creeps)

Init ==
  /\ roster = Absent /\ now = 0 /\ requests = 0
  /\ client = [c \in Clients |-> Idle]
  /\ mail = 0 /\ dirty = FALSE /\ runner = "off" /\ view = Absent
-----------------------------------------------------------------------------
(***************************************************************************)
(* The routes' mutations: the check, and what becomes of the live creeps   *)
(***************************************************************************)
NameIsFree(name, live) == \A creep \in live : creep.name # name
FreeLevels(live) == Levels - Used(live)
With(live, id, Change(_)) == {IF creep.id = id THEN Change(creep) ELSE creep : creep \in live}

Create(id, name) == [type |-> "create", id |-> id, name |-> name]
Upgrade(id) == [type |-> "upgrade", id |-> id]
Rename(id, name) == [type |-> "rename", id |-> id, name |-> name]
ScheduleDelete(id) == [type |-> "scheduleDelete", id |-> id]
CancelDelete(id) == [type |-> "cancelDelete", id |-> id]

Operations ==
  {Create(id, name) : id \in Ids, name \in Names} \cup {Rename(id, name) : id \in Ids, name \in Names}
    \cup {Upgrade(id) : id \in Ids} \cup {ScheduleDelete(id) : id \in Ids} \cup {CancelDelete(id) : id \in Ids}

Known(id, live) == \E creep \in live : creep.id = id

\* generateId: a new creep's id is not in use
Check(op, live) ==
  CASE op.type = "create" -> FreeLevels(live) > 0 /\ NameIsFree(op.name, live) /\ ~Known(op.id, live)
    [] op.type = "upgrade" -> Known(op.id, live) /\ FreeLevels(live) > 0
    [] op.type = "rename" -> Known(op.id, live) /\ NameIsFree(op.name, live)
    [] OTHER -> TRUE

Apply(op, live, time) ==
  CASE op.type = "create" -> live \cup {Creep(op.id, op.name)}
    [] op.type = "upgrade" -> With(live, op.id, LAMBDA creep : [creep EXCEPT !.level = @ + 1])
    [] op.type = "rename" -> With(live, op.id, LAMBDA creep : [creep EXCEPT !.name = op.name])
    [] op.type = "scheduleDelete" ->
         With(live, op.id, LAMBDA creep : [creep EXCEPT !.deleteTime = IF @ = 0 THEN time + Cooldown ELSE @])
    [] op.type = "cancelDelete" -> With(live, op.id, LAMBDA creep : [creep EXCEPT !.deleteTime = 0])
-----------------------------------------------------------------------------
(***************************************************************************)
(* mutate                                                                  *)
(***************************************************************************)
Request(c, op) ==
  /\ client[c] = Idle /\ requests < MaxRequests
  /\ client' = [client EXCEPT ![c] = [pc |-> "read", op |-> op, attempt |-> 1]]
  /\ requests' = requests + 1
  /\ UNCHANGED <<roster, now, mail, dirty, runner, view>>

Goes(c, to) == client' = [client EXCEPT ![c] = to]

Reads(c) ==
  /\ client[c].pc = "read"
  /\ LET live == Live(roster, now)
     IN Goes(c, IF Check(client[c].op, live)
                THEN [pc |-> "write", op |-> client[c].op, attempt |-> client[c].attempt,
                      prior |-> roster, next |-> Apply(client[c].op, live, now)]
                ELSE Idle)
  /\ UNCHANGED <<roster, now, requests, mail, dirty, runner, view>>

\* mutant: the last one writes
Whatever(c) == TRUE
\* 'NX' or 'EQ'
Unchanged(c) == roster = client[c].prior

Stores(c) ==
  /\ client[c].pc = "write" /\ Unchanged(c)
  /\ roster' = client[c].next
  /\ Goes(c, [pc |-> "publish"])
  /\ UNCHANGED <<now, requests, mail, dirty, runner, view>>

\* 'Roster busy' after the last attempt
Retries(c) ==
  /\ client[c].pc = "write" /\ ~Unchanged(c)
  /\ Goes(c, IF client[c].attempt = Attempts THEN Idle
             ELSE [pc |-> "read", op |-> client[c].op, attempt |-> client[c].attempt + 1])
  /\ UNCHANGED <<roster, now, requests, mail, dirty, runner, view>>

\* a runner that has not subscribed is not told
Publishes(c) ==
  /\ client[c].pc = "publish" /\ Goes(c, Idle)
  /\ mail' = IF runner = "off" THEN 0 ELSE mail + 1
  /\ UNCHANGED <<roster, now, requests, dirty, runner, view>>
-----------------------------------------------------------------------------
(***************************************************************************)
(* runnerConnector                                                         *)
(***************************************************************************)
Subscribes ==
  /\ runner = "off" /\ runner' = "subscribed"
  /\ UNCHANGED <<notRunner, mail, dirty, view>>

Hears ==
  /\ mail > 0 /\ mail' = mail - 1
  /\ dirty' = TRUE
  /\ UNCHANGED <<notRunner, runner, view>>

Initialize ==
  /\ runner = "subscribed" /\ runner' = "loading"
  /\ UNCHANGED <<notRunner, mail, dirty, view>>

Refresh ==
  /\ runner = "running" /\ dirty
  /\ dirty' = FALSE /\ runner' = "loading"
  /\ UNCHANGED <<notRunner, mail, view>>

\* the store's answer, which the sandbox gets with its next payload
LoadPowerCreepsBlob ==
  /\ runner = "loading" /\ runner' = "loaded"
  /\ view' = roster
  /\ UNCHANGED <<notRunner, mail, dirty>>

\* mutant: the flag is reset when the blob has arrived
LoadedAndClean ==
  /\ runner = "loaded" /\ runner' = "running"
  /\ dirty' = FALSE
  /\ UNCHANGED <<notRunner, mail, view>>

Loaded ==
  /\ runner = "loaded" /\ runner' = "running"
  /\ UNCHANGED <<notRunner, mail, dirty, view>>

TimePasses ==
  /\ now < MaxTime /\ now' = now + 1
  /\ UNCHANGED <<roster, client, requests, mail, dirty, runner, view>>

Next ==
  \/ \E c \in Clients :
       \/ \E op \in Operations : Request(c, op)
       \/ Reads(c) \/ Stores(c) \/ Retries(c) \/ Publishes(c)
  \/ Subscribes \/ Hears \/ Initialize \/ Refresh \/ LoadPowerCreepsBlob \/ Loaded \/ TimePasses

Spec == Init /\ [][Next]_vars
-----------------------------------------------------------------------------
(* Requests that race change the roster one after another: each write is a  *)
(* mutation of the roster that it replaces, which passes the checks (names  *)
(* are unique, levels are earned) as of a moment before; none is lost.      *)
MutatesAtomically ==
  [][roster' # roster => \E op \in Operations, when \in 0..now :
       LET live == Live(roster, when)
       IN Check(op, live) /\ roster' = Apply(op, live, when)]_roster

(* A runner that has no news to hear and none to look at has the roster,    *)
(* also when a change met its subscription, its first load or a refresh.    *)
RunnerCurrent ==
  /\ runner = "running" /\ ~dirty /\ mail = 0
  /\ \A c \in Clients : client[c].pc # "publish"
  => view = roster
=============================================================================
