------------------------------- MODULE Movement -------------------------------
(***************************************************************************)
(* The movement of creeps (engine/processor/movement.ts).  Intents         *)
(* announce moves; when all intents of the room have been processed,       *)
(* dispatch() withdraws what cannot move after all and resolves the rest   *)
(* by power: a creep in the way is asked to move first, recursively, and a *)
(* circuit of creeps turns as a whole.  The powers are left out: equal     *)
(* ones are ordered at random, so the moves are resolved in any order.     *)
(* Power, fatigue and pulling only decide that order.                      *)
(*                                                                         *)
(* One rule that the code does not enforce is a guard of Withdraw: a move  *)
(* is not withdrawn when two others want its tile, because the list that   *)
(* keeps them apart goes with it.                                          *)
(***************************************************************************)
EXTENDS Naturals, Sequences, FiniteSets, Functions

CONSTANTS
  Creeps,
  Tiles,
  Walls,        \* tiles without a road that are terrain walls
  Unmoving,     \* the target of a creep without a move
  Starts,       \* bound: the placements considered, with one creep on a tile
  Hostiles      \* bound: the sets of hostile creeps considered

Assumptions ==
  /\ IsFiniteSet(Creeps) /\ Walls \subseteq Tiles /\ Hostiles \subseteq SUBSET Creeps
  /\ \A at \in Starts : at \in [Creeps -> Tiles \ Walls] /\ IsInjective(at)
  /\ Unmoving \notin Tiles

VARIABLES
  hostile,    \* in safe mode the creeps that do not belong to the controller's user, otherwise none
  start,      \* where each creep was
  pos,
  target,     \* the move of each creep: movesByObject
  listed,     \* creeps whose move is in the list of its tile: movesByLocation
  resolved,
  moved,
  phase       \* "announce", "withdraw", "resolve"

vars == <<hostile, start, pos, target, listed, resolved, moved, phase>>

Movers == {c \in Creeps : target[c] # Unmoving}

Init ==
  /\ hostile \in Hostiles /\ start \in Starts
  /\ pos = start
  /\ target = [c \in Creeps |-> Unmoving]
  /\ listed = {} /\ resolved = {} /\ moved = {} /\ phase = "announce"

\* makeObstacleChecker: the safe user's creeps pass through the others'
InTheWay(d, c) == d # c /\ (c \notin hostile => d \notin hostile)

Announce(c, tile) ==
  /\ phase = "announce" /\ c \notin Movers /\ tile # start[c]
  /\ target' = [target EXCEPT ![c] = tile]
  /\ listed' = listed \cup {c}
  /\ UNCHANGED <<hostile, start, pos, resolved, moved, phase>>

Dispatch ==
  /\ phase = "announce" /\ phase' = "withdraw"
  /\ UNCHANGED <<hostile, start, pos, target, listed, resolved, moved>>

Rivals(c) == {d \in Movers \ {c} : target[d] = target[c]}

\* the creep died, or turned out to have no power to move: its tile's whole list goes
Withdraw(c) ==
  /\ phase = "withdraw" /\ c \in Movers /\ Cardinality(Rivals(c)) < 2
  /\ target' = [target EXCEPT ![c] = Unmoving]
  /\ listed' = {d \in listed : target[d] # target[c]}
  /\ UNCHANGED <<hostile, start, pos, resolved, moved, phase>>

AllWithdrawn ==
  /\ phase = "withdraw" /\ phase' = "resolve"
  /\ UNCHANGED <<hostile, start, pos, target, listed, resolved, moved>>
-----------------------------------------------------------------------------
\* creeps on the tile of a creep's move that have not moved yet
Obstacles(c) == {d \in Creeps : pos[d] = target[c] /\ d \notin moved /\ InTheWay(d, c)}

\* mutant: the obstacles that are there now are enough
NoConflicts(c, gone) == {}
\* creeps that have moved to that tile before it
Conflicts(c, gone) == {d \in listed \cap gone : target[d] = target[c] /\ InTheWay(d, c)}

\* mutant: a move that failed has been resolved
Final(stack, willMove) == TRUE
\* "Unconditionally resolve this move if it's the top object. Or, if an object with
\* higher priority is pushing this one out the way"
Settles(stack, willMove) == Len(stack) = 1 \/ willMove

\* stacks of creeps, each waiting for the next to get out of the way
Stacks == {stack \in Seq(Creeps) : IsInjective(stack)}

Unchanged == [ok |-> TRUE, pos |-> pos, resolved |-> resolved, moved |-> moved]
Refused == [Unchanged EXCEPT !.ok = FALSE]

\* the end of resolve(), once the obstacle has answered
Moves(stack, room) ==
  LET last == stack[Len(stack)]
      willMove == room.ok /\ Conflicts(last, room.moved) = {}
  IN [ok |-> willMove,
      pos |-> IF willMove THEN [room.pos EXCEPT ![last] = target[last]] ELSE room.pos,
      resolved |-> IF Settles(stack, willMove) THEN room.resolved \cup {last} ELSE room.resolved,
      moved |-> IF willMove THEN room.moved \cup {last} ELSE room.moved]

(* resolve(): whether the last creep of a stack moves, and the room after   *)
(* it.  Nothing changes before the last call, so the arguments of all are   *)
(* those of the first.                                                      *)
Resolve[stack \in Stacks] ==
  LET last == stack[Len(stack)]
      asked == CHOOSE d \in Obstacles(last) : TRUE
  IN IF target[last] \in Walls THEN [Refused EXCEPT !.resolved = resolved \cup {last}]
     ELSE Moves(stack,
       IF Obstacles(last) = {} THEN Unchanged
       ELSE IF asked \notin Movers \/ asked \in resolved THEN Refused
       ELSE IF asked = stack[1] THEN Unchanged            \* "Completing a circuit"
       ELSE IF asked \in Range(stack) THEN Refused        \* "Prevent cycles"
       ELSE Resolve[Append(stack, asked)])

ResolveMove(c) ==
  /\ phase = "resolve" /\ c \in Movers \ resolved
  /\ LET room == Resolve[<<c>>]
     IN pos' = room.pos /\ resolved' = room.resolved /\ moved' = room.moved
  /\ UNCHANGED <<hostile, start, target, listed, phase>>

Next ==
  \/ \E c \in Creeps :
       \/ \E tile \in Tiles : Announce(c, tile)
       \/ Withdraw(c) \/ ResolveMove(c)
  \/ Dispatch \/ AllWithdrawn

Spec == Init /\ [][Next]_vars
-----------------------------------------------------------------------------
\* creeps that exchange places
Circuit(circle) == circle \subseteq Movers /\ {target[c] : c \in circle} = {start[c] : c \in circle}

\* A circuit counts on its first creep, which moves last: it stays, and so does whoever
\* waits for it, where a creep of the safe user went through the next one to its tile.
Broken(circle) ==
  circle \subseteq hostile /\ \E c \in circle \ moved, d \in moved \ hostile : target[d] = target[c]

(* Whatever moves meet, in chains, circuits and contests for a tile, no two *)
(* creeps that are in each other's way stand on one tile (dispatch: "Check  *)
(* current obstacles", "Check moved obstacles"), except two of a circuit    *)
(* of hostile creeps in safe mode that has been broken.                     *)
NeverCollide ==
  \A c, d \in Creeps : pos[c] = pos[d] /\ InTheWay(c, d) /\ InTheWay(d, c)
    => \E circle \in SUBSET Creeps : {c, d} \subseteq circle /\ Circuit(circle) /\ Broken(circle)

\* a free tile that somebody moves to
FreeTileTaken ==
  \A c \in Movers :
    target[c] \notin Walls /\ (\A d \in Creeps : start[d] # target[c])
      => \E d \in moved : target[d] = target[c]

\* creeps that exchange places, with nobody who may enter one of them without a push
CircuitsTurn ==
  \A circle \in SUBSET Movers :
    /\ Circuit(circle)
    /\ \A c \in circle, d \in Movers : target[d] = start[c] => InTheWay(c, d)
    => circle \subseteq moved

(* Nobody blocks another for nothing, however often they pushed before: a   *)
(* tile that was free is taken by one of those who wanted it, and two or    *)
(* any circuit of creeps that exchange places all move, also when others    *)
(* want their places and push them first ("Completing a circuit").          *)
MovesGoThrough == Movers \subseteq resolved /\ phase = "resolve" => FreeTileTaken /\ CircuitsTurn
=============================================================================
