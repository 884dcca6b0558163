-------------------------------- MODULE Mutex --------------------------------
(***************************************************************************)
(* The mutex that keeps ticks and administration scripts apart             *)
(* (engine/db/mutex.ts).  A key of the store names the owner.  After       *)
(* unlock() the owner keeps the key as long as it hears of no peer that    *)
(* waits, so that a lone main locks and unlocks without asking the store.  *)
(*                                                                         *)
(* A peer's commands reach the store in the order they were sent, but its  *)
(* messages take another way.  Time is abstracted: the yield timer and the *)
(* retry interval may end at any moment.  A key expires only when its      *)
(* owner is dead, a live one refreshes it (Lock.interval).                 *)
(***************************************************************************)
EXTENDS Integers, Sequences, FiniteSets

CONSTANTS
  Peers,        \* the processes connected to this mutex, each with one user
  Nobody,       \* the key does not exist
  Expires,      \* does the store expire keys (redis), or keep them until it restarts (local)
  MaxLocks,     \* bound: calls of lock()
  MaxMail,      \* bound: a peer does not retry while this many messages await somebody
  MaxCrashes,   \* bound: processes that die
  MaxDisposals  \* bound: peers that disconnect

ASSUME MutexAssumption ==
  /\ Nobody \notin Peers
  /\ Expires \in BOOLEAN
  /\ MaxLocks \in Nat /\ MaxMail \in Nat \ {0} /\ MaxCrashes \in Nat /\ MaxDisposals \in Nat

VARIABLES
  owner,        \* the store's key
  inbox,        \* channel messages a peer has not handled
  pc,           \* where lock(), unlock() or the disposal is, see TypeOK
  internalLock,
  yielding,     \* yieldPromise is pending
  yieldPc,      \* "none" | "delete" | "publish": the commands of yieldLock() still to execute
  listening,    \* waitingListener is attached
  tries,        \* set commands of tryLock() sent and not executed
  complaints,   \* 'waiting' messages of tryLock() not published
  asserted,     \* yieldLock() was called while it was yielding
  unowned,      \* the key was not ours to delete
  locks, crashes, disposals

peerVars == <<pc, internalLock, yielding, yieldPc, listening, tries, complaints>>
errors == <<asserted, unowned>>
bounds == <<locks, crashes, disposals>>
vars == <<owner, inbox, peerVars, errors, bounds>>

\* lockedOrPending
LockedOrPending(p) == pc[p] \in {"announce", "yield", "first", "look", "wait", "won", "gained", "locked"}

Connected(p) == pc[p] \notin {"down", "closed"}

Init ==
  /\ owner = Nobody /\ inbox = [p \in Peers |-> <<>>] /\ pc = [p \in Peers |-> "idle"]
  /\ internalLock = [p \in Peers |-> FALSE] /\ yielding = [p \in Peers |-> FALSE]
  /\ yieldPc = [p \in Peers |-> "none"] /\ listening = [p \in Peers |-> FALSE]
  /\ tries = [p \in Peers |-> 0] /\ complaints = [p \in Peers |-> 0]
  /\ asserted = FALSE /\ unowned = FALSE /\ locks = 0 /\ crashes = 0 /\ disposals = 0

\* a publisher does not hear itself
Publish(p, message) ==
  inbox' = [q \in Peers |-> IF q # p /\ Connected(q) THEN Append(inbox[q], message) ELSE inbox[q]]
-----------------------------------------------------------------------------
(***************************************************************************)
(* lock()                                                                  *)
(***************************************************************************)
\* mutant: does not wait until it has given the lock to somebody
Impatient(p) == IF listening[p] THEN "locked" ELSE "first"

\* nobody else wanted the lock: it is still ours; or we are giving it away and ask for it back
Entry(p) == IF listening[p] THEN "locked" ELSE IF yielding[p] THEN "announce" ELSE "first"

Lock(p) ==
  /\ pc[p] = "idle" /\ locks < MaxLocks
  /\ locks' = locks + 1
  /\ pc' = [pc EXCEPT ![p] = Entry(p)]
  /\ listening' = [listening EXCEPT ![p] = Entry(p) # "announce"]
  /\ UNCHANGED <<owner, inbox, internalLock, yielding, yieldPc, tries, complaints, errors, crashes, disposals>>

AnnounceWaiting(p) ==
  /\ pc[p] = "announce"
  /\ pc' = [pc EXCEPT ![p] = "yield"]
  /\ Publish(p, "waiting")
  /\ UNCHANGED <<owner, internalLock, yielding, yieldPc, listening, tries, complaints, errors, bounds>>

HasYielded(p) ==
  /\ pc[p] = "yield" /\ ~yielding[p]
  /\ pc' = [pc EXCEPT ![p] = "first"]
  /\ listening' = [listening EXCEPT ![p] = TRUE]
  /\ UNCHANGED <<owner, inbox, internalLock, yielding, yieldPc, tries, complaints, errors, bounds>>

\* set NX, behind the command that gave the key away
FirstTry(p) ==
  /\ pc[p] = "first" /\ yieldPc[p] # "delete"
  /\ pc' = [pc EXCEPT ![p] = IF owner = Nobody THEN "won" ELSE "look"]
  /\ owner' = IF owner = Nobody THEN p ELSE owner
  /\ UNCHANGED <<inbox, internalLock, yielding, yieldPc, listening, tries, complaints, errors, bounds>>

\* contention (pTTL): listen for 'unlocked', start to retry, and try again at once
StartsWaiting(p) ==
  /\ pc[p] = "look"
  /\ pc' = [pc EXCEPT ![p] = "wait"]
  /\ tries' = [tries EXCEPT ![p] = tries[p] + 1]
  /\ UNCHANGED <<owner, inbox, internalLock, yielding, yieldPc, listening, complaints, errors, bounds>>

\* the interval and the listener of 'unlocked' live until a reply says that the lock is ours
StillTrying(p) == pc[p] \in {"wait", "gained"}

\* "Also keep trying in case the peer gave up"
Retries(p) ==
  /\ StillTrying(p) /\ tries[p] = 0 /\ complaints[p] = 0
  /\ \A q \in Peers : Len(inbox[q]) < MaxMail
  /\ tries' = [tries EXCEPT ![p] = 1]
  /\ UNCHANGED <<owner, inbox, pc, internalLock, yielding, yieldPc, listening, complaints, errors, bounds>>

\* tryLock(): several may be under way, also when one has succeeded and unlock() was called
TryLock(p) ==
  /\ tries[p] > 0
  /\ tries' = [tries EXCEPT ![p] = tries[p] - 1]
  /\ IF owner = Nobody
     THEN owner' = p /\ pc' = [pc EXCEPT ![p] = "gained"] /\ UNCHANGED complaints
     ELSE complaints' = [complaints EXCEPT ![p] = complaints[p] + 1] /\ UNCHANGED <<owner, pc>>
  /\ UNCHANGED <<inbox, internalLock, yielding, yieldPc, listening, errors, bounds>>

\* mutant: publishes also after a try that succeeded
ComplainsAnyway(p) ==
  /\ pc[p] = "wait"
  /\ complaints' = [complaints EXCEPT ![p] = complaints[p] - 1]
  /\ Publish(p, "waiting")
  /\ UNCHANGED <<owner, pc, internalLock, yielding, yieldPc, listening, tries, errors, bounds>>

Complain(p) ==
  /\ complaints[p] > 0
  /\ complaints' = [complaints EXCEPT ![p] = complaints[p] - 1]
  /\ Publish(p, "waiting")
  /\ UNCHANGED <<owner, pc, internalLock, yielding, yieldPc, listening, tries, errors, bounds>>

\* the reply arrives, behind that of a delEx which was followed by 'unlocked'
Locked(p) ==
  /\ pc[p] \in {"won", "gained"} /\ yieldPc[p] # "publish"
  /\ pc' = [pc EXCEPT ![p] = "locked"]
  /\ internalLock' = [internalLock EXCEPT ![p] = TRUE]
  /\ UNCHANGED <<owner, inbox, yielding, yieldPc, listening, tries, complaints, errors, bounds>>
-----------------------------------------------------------------------------
(***************************************************************************)
(* unlock(), yieldLock() and the messages of peers                         *)
(***************************************************************************)
\* yieldLock() up to its first await; called again it fails, and so does its delEx
YieldLock(p) ==
  /\ asserted' = (asserted \/ yielding[p])
  /\ unowned' = (unowned \/ (~yielding[p] /\ ~internalLock[p]))
  /\ yielding' = [yielding EXCEPT ![p] = TRUE]
  /\ internalLock' = [internalLock EXCEPT ![p] = FALSE]
  /\ yieldPc' = [yieldPc EXCEPT ![p] = IF internalLock[p] THEN "delete" ELSE yieldPc[p]]

\* mutant: keeps the lock although a peer waits
KeepsLock(p) == TRUE

\* nobody has said that he waits
SoftLocks(p) == listening[p]

Unlock(p) ==
  /\ pc[p] = "locked"
  /\ IF SoftLocks(p)
     THEN /\ pc' = [pc EXCEPT ![p] = "idle"]
          /\ UNCHANGED <<internalLock, yielding, yieldPc, errors>>
     ELSE /\ pc' = [pc EXCEPT ![p] = "unlocking"]
          /\ YieldLock(p)
  /\ UNCHANGED <<owner, inbox, listening, tries, complaints, bounds>>

\* delEx, behind every set this peer has sent
DeleteKey(p) ==
  /\ yieldPc[p] = "delete" /\ tries[p] = 0
  /\ yieldPc' = [yieldPc EXCEPT ![p] = "publish"]
  /\ owner' = IF owner = p THEN Nobody ELSE owner
  /\ unowned' = (unowned \/ owner # p)
  /\ UNCHANGED <<inbox, pc, internalLock, yielding, listening, tries, complaints, asserted, bounds>>

\* the user's unlock() or disposal returns with it
PublishUnlocked(p) ==
  /\ yieldPc[p] = "publish"
  /\ yieldPc' = [yieldPc EXCEPT ![p] = "none"]
  /\ Publish(p, "unlocked")
  /\ pc' = [pc EXCEPT ![p] = IF pc[p] = "unlocking" THEN "idle" ELSE IF pc[p] = "closing" THEN "closed" ELSE pc[p]]
  /\ UNCHANGED <<owner, internalLock, yielding, listening, tries, complaints, errors, bounds>>

YieldTimeout(p) ==
  /\ yielding[p] /\ Connected(p)
  /\ yielding' = [yielding EXCEPT ![p] = FALSE]
  /\ UNCHANGED <<owner, inbox, pc, internalLock, yieldPc, listening, tries, complaints, errors, bounds>>

\* mutant: the listener stays attached
StaysAttached(p) == listening[p]

\* the listener of 'waiting' removes itself
Detached(p) == FALSE

\* a peer waits: do not keep the lock, and give it away now unless it is in use
HearsWaiting(p) ==
  /\ Connected(p) /\ inbox[p] # <<>> /\ Head(inbox[p]) = "waiting"
  /\ inbox' = [inbox EXCEPT ![p] = Tail(inbox[p])]
  /\ listening' = [listening EXCEPT ![p] = Detached(p)]
  /\ IF listening[p] /\ ~LockedOrPending(p) THEN YieldLock(p)
     ELSE UNCHANGED <<internalLock, yielding, yieldPc, errors>>
  /\ UNCHANGED <<owner, pc, tries, complaints, bounds>>

HearsUnlocked(p) ==
  /\ Connected(p) /\ inbox[p] # <<>> /\ Head(inbox[p]) = "unlocked"
  /\ inbox' = [inbox EXCEPT ![p] = Tail(inbox[p])]
  /\ yielding' = [yielding EXCEPT ![p] = FALSE]
  /\ tries' = [tries EXCEPT ![p] = IF StillTrying(p) THEN tries[p] + 1 ELSE tries[p]]
  /\ UNCHANGED <<owner, pc, internalLock, yieldPc, listening, complaints, errors, bounds>>

\* asyncDispose: refused while locked; gives the lock away with the listener still attached
Dispose(p) ==
  /\ pc[p] = "idle" /\ disposals < MaxDisposals
  /\ disposals' = disposals + 1
  /\ IF internalLock[p]
     THEN pc' = [pc EXCEPT ![p] = "closing"] /\ YieldLock(p)
     ELSE /\ pc' = [pc EXCEPT ![p] = "closed"]
          /\ UNCHANGED <<internalLock, yielding, yieldPc, errors>>
  /\ UNCHANGED <<owner, inbox, listening, tries, complaints, locks, crashes>>
-----------------------------------------------------------------------------
\* the process dies; what it has sent is lost or was executed before
Crash(p) ==
  /\ Connected(p) /\ crashes < MaxCrashes
  /\ crashes' = crashes + 1
  /\ pc' = [pc EXCEPT ![p] = "down"]
  /\ inbox' = [inbox EXCEPT ![p] = <<>>]
  /\ internalLock' = [internalLock EXCEPT ![p] = FALSE] /\ yielding' = [yielding EXCEPT ![p] = FALSE]
  /\ yieldPc' = [yieldPc EXCEPT ![p] = "none"] /\ listening' = [listening EXCEPT ![p] = FALSE]
  /\ tries' = [tries EXCEPT ![p] = 0] /\ complaints' = [complaints EXCEPT ![p] = 0]
  /\ UNCHANGED <<owner, errors, locks, disposals>>

\* nobody refreshes the key of a dead owner
Expire ==
  /\ Expires /\ \E p \in Peers : owner = p /\ pc[p] = "down"
  /\ owner' = Nobody
  /\ UNCHANGED <<inbox, peerVars, errors, bounds>>

Asks(p) == AnnounceWaiting(p) \/ HasYielded(p) \/ FirstTry(p) \/ StartsWaiting(p) \/ Locked(p)

Insists(p) == Retries(p) \/ TryLock(p)

Yields(p) == DeleteKey(p) \/ PublishUnlocked(p)

Hears(p) == HearsWaiting(p) \/ HearsUnlocked(p)

Next ==
  \/ \E p \in Peers :
        \/ Lock(p) \/ Asks(p) \/ Insists(p) \/ Complain(p)
        \/ Unlock(p) \/ Yields(p) \/ YieldTimeout(p) \/ Hears(p)
        \/ Dispose(p) \/ Crash(p)
  \/ Expire

Spec == Init /\ [][Next]_vars

(***************************************************************************)
(* Commands are executed, messages delivered, and timers fire; whoever has *)
(* the lock unlocks it (a tick ends).  Nobody needs to ask for it.         *)
(***************************************************************************)
Fairness ==
  /\ \A p \in Peers :
       /\ WF_vars(Asks(p)) /\ WF_vars(Insists(p)) /\ WF_vars(Complain(p)) /\ WF_vars(Unlock(p))
       /\ WF_vars(Yields(p)) /\ WF_vars(YieldTimeout(p)) /\ WF_vars(Hears(p))
  /\ WF_vars(Expire)

FairSpec == Spec /\ Fairness
-----------------------------------------------------------------------------
(***************************************************************************)
(* Properties                                                              *)
(***************************************************************************)
TypeOK ==
  /\ owner \in Peers \cup {Nobody}
  /\ inbox \in [Peers -> Seq({"waiting", "unlocked"})]
  /\ pc \in [Peers -> {"idle", "announce", "yield", "first", "look", "wait", "won", "gained", "locked",
                       "unlocking", "closing", "closed", "down"}]
  /\ internalLock \in [Peers -> BOOLEAN] /\ yielding \in [Peers -> BOOLEAN]
  /\ yieldPc \in [Peers -> {"none", "delete", "publish"}] /\ listening \in [Peers -> BOOLEAN]
  /\ tries \in [Peers -> Nat] /\ complaints \in [Peers -> Nat]
  /\ asserted \in BOOLEAN /\ unowned \in BOOLEAN
  /\ locks \in 0 .. MaxLocks /\ crashes \in 0 .. MaxCrashes /\ disposals \in 0 .. MaxDisposals

\* "no tick can start while we hold it" (scripts/manage.ts:248): two users never have the lock at
\* once, although one may take it without asking the store, or while it is being given away.
MutualExclusion == \A p, q \in Peers : pc[p] = "locked" /\ pc[q] = "locked" => p = q

\* The assertion at the head of yieldLock holds, and the key is always ours when we delete it
\* (mutex.ts:131, 184), as long as no peer disconnects.
NeverFails == disposals = 0 => ~asserted /\ ~unowned

\* Whoever asks for the lock gets it once the others have stopped asking, also from a peer that
\* keeps it softly and from one that died (mutex.ts:110).
Granted == \A p \in Peers : LockedOrPending(p) ~> pc[p] \in {"locked", "down"}
=============================================================================
