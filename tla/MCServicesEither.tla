--------------------------- MODULE MCServicesEither ---------------------------
(***************************************************************************)
(* Services on small instances, two questions in one run: "alone" chooses  *)
(* between one processor service, whose shard the operator pauses, steps   *)
(* and resumes and where a tick may have nothing to process, and all of    *)
(* them without requests, in ticks that have work.                         *)
(***************************************************************************)
EXTENDS Services

CONSTANT First   \* the processor that is there in either case
VARIABLE alone

Limits ==
  /\ alone => \A p \in Processors \ {First} : processorPc'[p] = "down" /\ p \notin halted'
  /\ ~alone => requests' = 0 /\ (mainPc = "beget" => work' # "none")

Step(A) == A /\ Limits /\ UNCHANGED alone
all == <<vars, alone>>

EitherInit == Init /\ alone \in BOOLEAN

EitherSpec ==
  /\ EitherInit
  /\ [][Step(Next)]_all
  /\ WF_all(Step(Main)) /\ WF_all(Step(LauncherShutsDown))
  /\ \A p \in Processors : WF_all(Step(Processor(p)))
  /\ WF_all(Step(\E ps \in SUBSET Processors : ProcessRooms(ps)))
=============================================================================
