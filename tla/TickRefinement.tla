--------------------------- MODULE TickRefinement ---------------------------
(***************************************************************************)
(* The tick protocol implements bulk-synchronous ticks.                    *)
(***************************************************************************)
EXTENDS Tick

\* Between the deletion of the pending counter and the next queue the tick is being finalized.
BulkPhase == IF roomsPending[QueueTime] = Null THEN "finalize" ELSE "process"

\* The rooms a finalization has still to do: before the service has taken the message, those its
\* workers have recorded; then what is left of them; and the extra rooms throughout.
Unfinalized ==
  finalizeExtraRooms[QueueTime] \cup
    UNION {IF servicePc = "listen" THEN processed[w] ELSE unfinalized[w] : w \in Workers}

Bulk == INSTANCE BulkTick WITH
  tick <- QueueTime,
  phase <- BulkPhase,
  queue <- ZMembers(processRooms[QueueTime]),
  working <- UNION {InHand(w) : w \in Workers},
  touched <- IF BulkPhase = "process" THEN processedRooms[QueueTime] ELSE Unfinalized,
  players <- users,
  answered <- answered,
  abandoned <- Abandoned(QueueTime)

\* Whatever the interleaving of main, the workers, the runner and the timer, the protocol does what
\* the abstract specification says: no room is processed twice or left out, none before its players,
\* none while another is finalized, and every room sent intents is finalized in the same tick
\* (the module comment's promise, docs/architecture.md "Rooms must always be processed").
BulkSynchronous == Bulk!Spec
=============================================================================
