----------------------------- MODULE Notifications -----------------------------
(***************************************************************************)
(* The notifications of a user (mods/notifications/model.ts, main.ts).     *)
(* Processors, runners and the backend record them: a row that counts, an  *)
(* entry of the user's index by the time when its group is due, and the    *)
(* time of the user's next drain.  Main drains: it takes the user off the  *)
(* schedule, delivers the rows that are due, removes them, and puts him    *)
(* back for what is left.  The store handles one operation at a time.      *)
(* A row's count stands for the row; its content is written with it.       *)
(***************************************************************************)
EXTENDS Integers, FiniteSetsExt, Functions

CONSTANTS
  Recorders,
  Rows,          \* what a row's id is hashed from: type, group and message
  Due,           \* the due time of each row's group; 0 for the engine's own
  Nothing,
  Interval,      \* the shortest time between two deliveries
  MaxTime,       \* bound
  MaxRecords     \* bound

Assumptions ==
  /\ IsFiniteSet(Recorders) /\ IsFiniteSet(Rows)
  /\ Due \in [Rows -> 0..MaxTime] /\ Nothing \notin Int
  /\ {Interval, MaxTime, MaxRecords} \subseteq Nat

VARIABLES
  now,
  count,       \* rows: occurrences, 0 without a row
  index,       \* userIndexKey
  dueUsers,    \* when the user's next drain is due, or Nothing
  throttle,    \* lastNotifyDate + interval
  recorder,    \* what each recorder does next, with which row
  drain,       \* what drainUser does next, with which rows
  recorded, delivered,
  overlapped   \* history: whether one was recorded while the user was drained

rows == <<count, index, dueUsers>>
vars == <<now, rows, throttle, recorder, drain, recorded, delivered, overlapped>>

Quiet == [pc |-> "none"]

Init ==
  /\ now = 0 /\ throttle = 0
  /\ count = [row \in Rows |-> 0] /\ index = {} /\ dueUsers = Nothing
  /\ recorder = [r \in Recorders |-> Quiet]
  /\ drain = Quiet
  /\ recorded = 0 /\ delivered = 0 /\ overlapped = FALSE

NobodyRecords == \A r \in Recorders : recorder[r] = Quiet

\* mutant: the last one who schedules decides
ScheduleLast(time) == dueUsers' = time
\* scheduleUserDrain: "keeping the sooner of any existing entry"
ScheduleUserDrain(time) ==
  dueUsers' = IF dueUsers = Nothing \/ time < dueUsers THEN time ELSE dueUsers
-----------------------------------------------------------------------------
(***************************************************************************)
(* recordNotification                                                      *)
(***************************************************************************)
RecordStep(r, pc) == recorder[r].pc = pc
RecorderGoes(r, pc) == recorder' = [recorder EXCEPT ![r].pc = pc]

\* a group becomes due at the end of the interval that now belongs to
Record(r, row) ==
  /\ recorder[r] = Quiet /\ recorded < MaxRecords
  /\ Due[row] = 0 \/ now <= Due[row]
  /\ overlapped' = (overlapped \/ drain # Quiet)
  /\ recorder' = [recorder EXCEPT ![r] = [pc |-> "row", row |-> row, created |-> FALSE]]
  /\ recorded' = recorded + 1
  /\ UNCHANGED <<now, rows, throttle, drain, delivered>>

\* mutant: every occurrence claims the row
Claimed(row) == [count EXCEPT ![row] = 1]
\* hSet NX: "the per-occurrence fields claim their slot"
ClaimRow(row) == [count EXCEPT ![row] = IF @ = 0 THEN 1 ELSE @]

WritesRow(r) ==
  /\ RecordStep(r, "row")
  /\ count' = ClaimRow(recorder[r].row)
  /\ recorder' = [recorder EXCEPT ![r].pc = "index", ![r].created = count[recorder[r].row] = 0]
  /\ UNCHANGED <<now, index, dueUsers, throttle, drain, recorded, delivered, overlapped>>

WritesIndex(r) ==
  /\ RecordStep(r, "index")
  /\ index' = index \cup {recorder[r].row}
  /\ RecorderGoes(r, "schedule")
  /\ UNCHANGED <<now, count, dueUsers, throttle, drain, recorded, delivered, overlapped>>

WritesSchedule(r) ==
  /\ RecordStep(r, "schedule")
  /\ ScheduleUserDrain(Due[recorder[r].row])
  /\ IF recorder[r].created THEN recorder' = [recorder EXCEPT ![r] = Quiet] ELSE RecorderGoes(r, "count")
  /\ UNCHANGED <<now, count, index, throttle, drain, recorded, delivered, overlapped>>

\* "Only an already-present row pays the extra hincrBy"
Counts(r) ==
  /\ RecordStep(r, "count")
  /\ count' = [count EXCEPT ![recorder[r].row] = @ + 1]
  /\ recorder' = [recorder EXCEPT ![r] = Quiet]
  /\ UNCHANGED <<now, index, dueUsers, throttle, drain, recorded, delivered, overlapped>>
-----------------------------------------------------------------------------
(***************************************************************************)
(* drainAndDeliver, every few ticks in main                                *)
(***************************************************************************)
DrainStep(pc) == drain.pc = pc
DrainGoes(pc) == drain' = [drain EXCEPT !.pc = pc]
OnlyDrain == UNCHANGED <<now, rows, throttle, recorder, recorded, delivered, overlapped>>

\* consumeDueUsers reads who is due ...
FindsUser ==
  /\ drain = Quiet /\ dueUsers # Nothing /\ dueUsers <= now
  /\ overlapped' = (overlapped \/ ~NobodyRecords)
  /\ drain' = [pc |-> "pop", found |-> {}, total |-> 0]
  /\ UNCHANGED <<now, rows, throttle, recorder, recorded, delivered>>

\* ... and then takes them off the schedule
PopsUser ==
  /\ DrainStep("pop") /\ DrainGoes("prefs")
  /\ dueUsers' = Nothing
  /\ UNCHANGED <<now, count, index, throttle, recorder, recorded, delivered, overlapped>>

\* the user wants no notifications: flushNotifications
FindsAll ==
  /\ DrainStep("prefs")
  /\ drain' = [drain EXCEPT !.pc = "flush", !.found = index]
  /\ OnlyDrain

Throttled ==
  /\ DrainStep("prefs") /\ throttle > now
  /\ ScheduleUserDrain(throttle)
  /\ drain' = Quiet
  /\ UNCHANGED <<now, count, index, throttle, recorder, recorded, delivered, overlapped>>

FindsDue ==
  /\ DrainStep("prefs") /\ throttle <= now
  /\ LET due == {row \in index : Due[row] <= now}
     IN drain' = [drain EXCEPT !.pc = IF due = {} THEN "next" ELSE "deliver", !.found = due]
  /\ OnlyDrain

\* the rows are read and handed to the transports
Delivers ==
  /\ DrainStep("deliver")
  /\ delivered' = delivered + MapThenSumSet(LAMBDA row : count[row], drain.found)
  /\ throttle' = now + Interval
  /\ DrainGoes("remove")
  /\ UNCHANGED <<now, rows, recorder, recorded, overlapped>>

\* removeNotifications
RemovesIndex ==
  /\ DrainStep("remove") \/ DrainStep("flush")
  /\ index' = index \ drain.found
  /\ DrainGoes(IF DrainStep("flush") THEN "flushRows" ELSE "removeRows")
  /\ UNCHANGED <<now, count, dueUsers, throttle, recorder, recorded, delivered, overlapped>>

Without(gone) == [row \in Rows |-> IF row \in gone THEN 0 ELSE count[row]]

RemovesRows ==
  /\ DrainStep("removeRows")
  /\ count' = Without(drain.found)
  /\ DrainGoes("next")
  /\ UNCHANGED <<now, index, dueUsers, throttle, recorder, recorded, delivered, overlapped>>

\* what nobody wants to know counts as delivered
FlushesRows ==
  /\ DrainStep("flushRows")
  /\ count' = Without(drain.found)
  /\ delivered' = delivered + MapThenSumSet(LAMBDA row : count[row], drain.found)
  /\ drain' = Quiet
  /\ UNCHANGED <<now, index, dueUsers, throttle, recorder, recorded, overlapped>>

FindsNext ==
  /\ DrainStep("next")
  /\ drain' = IF index = {} THEN Quiet
              ELSE [drain EXCEPT !.pc = "reschedule", !.total = Min({Due[row] : row \in index})]
  /\ OnlyDrain

Reschedules ==
  /\ DrainStep("reschedule")
  /\ ScheduleUserDrain(drain.total)
  /\ drain' = Quiet
  /\ UNCHANGED <<now, count, index, throttle, recorder, recorded, delivered, overlapped>>

TimePasses ==
  /\ now < MaxTime /\ now' = now + 1
  /\ UNCHANGED <<rows, throttle, recorder, drain, recorded, delivered, overlapped>>

Next ==
  \/ \E r \in Recorders :
       \/ \E row \in Rows : Record(r, row)
       \/ WritesRow(r) \/ WritesIndex(r) \/ WritesSchedule(r) \/ Counts(r)
  \/ FindsUser \/ PopsUser \/ FindsAll \/ Throttled \/ FindsDue \/ Delivers
  \/ RemovesIndex \/ RemovesRows \/ FlushesRows \/ FindsNext \/ Reschedules
  \/ TimePasses

Spec == Init /\ [][Next]_vars
-----------------------------------------------------------------------------
AllQuiet == NobodyRecords /\ drain = Quiet

(* However records and a drain of the same user interleave, none is left    *)
(* without a drain to come: once they are done, the user is scheduled for   *)
(* the first group that is pending, or for the end of his throttle.         *)
NothingStranded ==
  AllQuiet /\ index # {} =>
    /\ dueUsers # Nothing
    /\ dueUsers <= Max({throttle, Min({Due[row] : row \in index})})

(* Occurrences that are recorded at once "converge on the right count"      *)
(* (recordNotification): each is delivered once, or still counted.  One     *)
(* that is recorded while its row is drained may be lost.                   *)
CountsConverge ==
  AllQuiet /\ ~overlapped => recorded = delivered + MapThenSumSet(LAMBDA row : count[row], Rows)
=============================================================================
