------------------------------ MODULE ModsParts ------------------------------
(***************************************************************************)
(* The protocols of mods, each with constants and state of its own: what   *)
(* is sent between terminals, creeps that change rooms, moves in a room,   *)
(* rosters of power creeps, and notifications.                             *)
(***************************************************************************)
CONSTANTS
  Depots, Capacity, MaxAmount, Stocks, Flows, MaxDay,                               \* Terminals
  Sectors, Travellers, Owner, None, MaxTick,                                        \* Crossing
  Creeps, Tiles, Walls, Unmoving, Starts, Hostiles,                                 \* Movement
  Clients, Ids, Names, Absent, Levels, Attempts, Cooldown, MaxRosterTime, MaxRequests,   \* Roster
  Recorders, Rows, Due, Unscheduled, Interval, MaxNoteTime, MaxRecords              \* Notifications

VARIABLES
  stock, saved, ingress, send, inbox, terminalPhase, day,
  tick, crossing, blob, cached, live, updated, outbox, fresh, finalIntents, processing, extra, active, dead,
  hostile, start, pos, target, listed, resolved, moved, movePhase,
  roster, rosterTime, client, requests, mail, dirty, runner, view,
  now, count, index, dueUsers, throttle, recorder, drain, recorded, delivered, overlapped

Term == INSTANCE Terminals WITH
  Rooms <- Depots, Stored <- Stocks, MaxTime <- MaxDay, phase <- terminalPhase, time <- day
Cross == INSTANCE Crossing WITH
  Rooms <- Sectors, Creeps <- Travellers, MaxTime <- MaxTick, phase <- crossing, time <- tick
Walk == INSTANCE Movement WITH phase <- movePhase
Power == INSTANCE Roster WITH MaxTime <- MaxRosterTime, now <- rosterTime
Notes == INSTANCE Notifications WITH MaxTime <- MaxNoteTime, Nothing <- Unscheduled

(* What several rooms send to a terminal in one tick fits (Terminals).      *)
SendsFit == Term!SendsFit

(* Creeps that change rooms are in one room, awake (Crossing).              *)
NobodyGetsLost == Cross!NobodyGetsLost

(* Creeps that are in each other's way never share a tile (Movement).       *)
NeverCollide == Walk!NeverCollide

(* Free tiles that somebody wants are taken, and circuits turn (Movement).  *)
MovesGoThrough == Walk!MovesGoThrough

(* Each write of a roster is a checked change of the one before (Roster).   *)
MutatesAtomically == Power!MutatesAtomically

(* A runner without news has the roster (Roster).                           *)
RunnerCurrent == Power!RunnerCurrent

(* No notification is left without a drain to come (Notifications).         *)
NothingStranded == Notes!NothingStranded

(* Every occurrence is delivered once or still counted (Notifications).     *)
CountsConverge == Notes!CountsConverge
=============================================================================
