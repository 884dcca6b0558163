-------------------------------- MODULE MCMods --------------------------------
(***************************************************************************)
(* Room ownership and the protocols of ModsParts on small instances, side  *)
(* by side: a behaviour is one of claims, of terminals, of creeps that     *)
(* change rooms, of moves in a room, of a roster, or of notifications.     *)
(* They share no state, so nothing is lost by running one while the others *)
(* stay as they were at first.                                             *)
(***************************************************************************)
EXTENDS Claims, ModsParts, TLC

CONSTANTS
  a, b, c, d,                     \* Crossing and Movement: creeps
  t1, t2, t3, t4,                 \* Movement: tiles
  m1, m2                          \* Notifications: rows

VARIABLE part

Withdrawals == {-2}
OwnerOf == a :> 1 @@ b :> 1 @@ c :> 2
Placements == {a :> t1 @@ b :> t2 @@ c :> t3 @@ d :> t4}
HostileSets == {{}, {c, d}}
DueAt == m1 :> 0 @@ m2 :> 2

ASSUME Term!Assumptions /\ Walk!Assumptions /\ Power!Assumptions /\ Notes!Assumptions

claims == <<level, roomUser, user, controlled, gcl, present, known, asked, raced, entitled, phase, sent,
            task, time>>
terminals == <<stock, saved, ingress, send, inbox, terminalPhase, day>>
crossings == <<tick, crossing, blob, cached, live, updated, outbox, fresh, finalIntents, processing,
               extra, active, dead>>
moves == <<hostile, start, pos, target, listed, resolved, moved, movePhase>>
power == <<roster, rosterTime, client, requests, mail, dirty, runner, view>>
notes == <<now, count, index, dueUsers, throttle, recorder, drain, recorded, delivered, overlapped>>
all == <<part, claims, terminals, crossings, moves, power, notes>>

ModsInit ==
  /\ part \in {"claims", "terminals", "crossing", "moves", "power", "notes"}
  /\ Init /\ (part # "claims" => present = {})
  /\ Term!Init /\ (part # "terminals" => stock = Term!Empty)
  /\ Cross!Init /\ dead = (IF part = "crossing" THEN {} ELSE {a, b, c})
  /\ Walk!Init /\ (part # "moves" => hostile = {})
  /\ Power!Init /\ Notes!Init

\* bound: at a time one user asks for spawns, of any rooms, as a tick begins, and they are processed in it;
\* a request that comes later, or is processed later, could have waited; three claims run at once
Early == \A r \in Rooms : phase[r] = "intents" /\ sent[r] = <<>> /\ \A u \in Users : task[r][u] = NoTask
Bounded ==
  /\ ~(asked' \subseteq asked) => Early /\ \A p, q \in asked' : p[2] = q[2]
  /\ time' # time => asked = {}
  /\ Cardinality({claim \in Rooms \X Users : task'[claim[1]][claim[2]] # NoTask}) <= 3

Only(name, next, others) == part = name /\ next /\ UNCHANGED <<part, others>>

ModsNext ==
  \/ Only("claims", Next /\ Bounded, <<terminals, crossings, moves, power, notes>>)
  \/ Only("terminals", Term!Next, <<claims, crossings, moves, power, notes>>)
  \/ Only("crossing", Cross!Next, <<claims, terminals, moves, power, notes>>)
  \/ Only("moves", Walk!Next, <<claims, terminals, crossings, power, notes>>)
  \/ Only("power", Power!Next, <<claims, terminals, crossings, moves, notes>>)
  \/ Only("notes", Notes!Next, <<claims, terminals, crossings, moves, power>>)

ModsSpec == ModsInit /\ [][ModsNext]_all

Symmetry == Permutations(Users) \cup Permutations(Rooms)
=============================================================================
