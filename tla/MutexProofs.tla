----------------------------- MODULE MutexProofs -----------------------------
(***************************************************************************)
(* Theorems about the mutex, for any number of peers, calls and crashes.   *)
(***************************************************************************)
EXTENDS Mutex, TLAPS

(***************************************************************************)
(* Who owns the key.  A peer that has the lock, has won it, or is about to *)
(* delete the key owns it; a soft lock is a lock; and the lock being given *)
(* away is not used any more.                                              *)
(***************************************************************************)
OwnsKey == \A p \in Peers : internalLock[p] \/ pc[p] \in {"won", "gained"} \/ yieldPc[p] = "delete" => owner = p

SoftLockIsLock ==
  \A p \in Peers :
    /\ pc[p] = "locked" \/ (pc[p] = "idle" /\ listening[p]) => internalLock[p]
    /\ pc[p] = "unlocking" => ~listening[p]

GivenAway == \A p \in Peers : yieldPc[p] = "delete" => ~internalLock[p] /\ pc[p] \notin {"won", "gained", "locked"}

DeadOwnNothing == \A p \in Peers : pc[p] = "down" => ~internalLock[p] /\ yieldPc[p] = "none" /\ tries[p] = 0

Ownership == OwnsKey /\ SoftLockIsLock /\ GivenAway /\ DeadOwnNothing

(* type correctness at the start *)
LEMMA InitTypes == Init => TypeOK
<1> SUFFICES ASSUME Init PROVE TypeOK  OBVIOUS
<1>1. inbox \in [Peers -> Seq({"waiting", "unlocked"})] /\ owner \in Peers \cup {Nobody}
  BY DEF Init
<1>2. locks \in 0 .. MaxLocks /\ crashes \in 0 .. MaxCrashes /\ disposals \in 0 .. MaxDisposals
  BY MutexAssumption DEF Init
<1>3. asserted \in BOOLEAN /\ unowned \in BOOLEAN /\ tries \in [Peers -> Nat] /\ complaints \in [Peers -> Nat]
  BY DEF Init
<1> QED BY <1>1, <1>2, <1>3 DEF Init, TypeOK

(* publishing leaves sequences of messages *)
LEMMA PublishTypes ==
  ASSUME TypeOK, NEW p \in Peers, NEW m \in {"waiting", "unlocked"}, Publish(p, m)
  PROVE  inbox' \in [Peers -> Seq({"waiting", "unlocked"})]
BY DEF TypeOK, Publish

(* reading does, too *)
LEMMA ReadTypes ==
  ASSUME TypeOK, NEW p \in Peers, inbox[p] # <<>>
  PROVE  Tail(inbox[p]) \in Seq({"waiting", "unlocked"})
BY DEF TypeOK

(* yieldLock() keeps the types *)
LEMMA YieldTypes ==
  ASSUME TypeOK, NEW p \in Peers, YieldLock(p)
  PROVE  /\ asserted' \in BOOLEAN /\ unowned' \in BOOLEAN
         /\ internalLock' \in [Peers -> BOOLEAN] /\ yielding' \in [Peers -> BOOLEAN]
         /\ yieldPc' \in [Peers -> {"none", "delete", "publish"}]
<1>1. asserted' \in BOOLEAN /\ unowned' \in BOOLEAN
  BY Zenon DEF YieldLock
<1>2. internalLock' \in [Peers -> BOOLEAN] /\ yielding' \in [Peers -> BOOLEAN]
  BY DEF TypeOK, YieldLock
<1>3. yieldPc' \in [Peers -> {"none", "delete", "publish"}]
  BY DEF TypeOK, YieldLock
<1> QED BY <1>1, <1>2, <1>3

(* ... and takes the lock away from its peer *)
LEMMA YieldEffect ==
  ASSUME TypeOK, NEW p \in Peers, YieldLock(p)
  PROVE  /\ internalLock' = [internalLock EXCEPT ![p] = FALSE]
         /\ internalLock[p] => yieldPc' = [yieldPc EXCEPT ![p] = "delete"]
         /\ ~internalLock[p] => yieldPc' = yieldPc
BY DEF TypeOK, YieldLock

(* each step of a peer keeps the types *)
LEMMA PeerTypes ==
  ASSUME TypeOK, NEW p \in Peers, Lock(p) \/ Asks(p) \/ Insists(p) \/ Complain(p) \/ Unlock(p) \/ Yields(p)
                       \/ YieldTimeout(p) \/ Hears(p) \/ Dispose(p) \/ Crash(p)
  PROVE  TypeOK'
<1> USE MutexAssumption DEF TypeOK, peerVars, errors, bounds
<1>1. CASE AnnounceWaiting(p)
  BY <1>1 DEF AnnounceWaiting, Publish
<1>2. CASE HasYielded(p)
  BY <1>2 DEF HasYielded
<1>3. CASE FirstTry(p)
  BY <1>3 DEF FirstTry
<1>4. CASE StartsWaiting(p)
  BY <1>4 DEF StartsWaiting
<1>5. CASE Locked(p)
  BY <1>5 DEF Locked
<1>6. CASE Retries(p)
  BY <1>6 DEF Retries, StillTrying
<1>7. CASE TryLock(p)
  <2>1. tries' \in [Peers -> Nat]
    BY <1>7 DEF TryLock
  <2>2. complaints' \in [Peers -> Nat] /\ owner' \in Peers \cup {Nobody}
    BY <1>7 DEF TryLock
  <2> QED BY <1>7, <2>1, <2>2 DEF TryLock
<1>8. CASE Complain(p)
  BY <1>8 DEF Complain, Publish
<1>9. CASE Unlock(p)
  BY <1>9, YieldTypes DEF Unlock, SoftLocks
<1>10. CASE DeleteKey(p)
  BY <1>10 DEF DeleteKey
<1>11. CASE PublishUnlocked(p)
  BY <1>11 DEF PublishUnlocked, Publish
<1>12. CASE YieldTimeout(p)
  BY <1>12 DEF YieldTimeout, Connected
<1>13. CASE HearsWaiting(p)
  <2>1. inbox' \in [Peers -> Seq({"waiting", "unlocked"})]
    BY <1>13, ReadTypes DEF HearsWaiting
  <2>2. listening' \in [Peers -> BOOLEAN]
    BY <1>13 DEF HearsWaiting, Detached
  <2> QED BY <1>13, <2>1, <2>2, YieldTypes DEF HearsWaiting
<1>14. CASE HearsUnlocked(p)
  BY <1>14 DEF HearsUnlocked, Connected
<1>15. CASE Dispose(p)
  <2>1. disposals' \in 0 .. MaxDisposals
    <3> disposals < MaxDisposals /\ disposals' = disposals + 1  BY <1>15 DEF Dispose
    <3> QED OBVIOUS
  <2>2. pc' \in [Peers -> {"idle", "announce", "yield", "first", "look",
                               "wait", "won", "gained", "locked", "unlocking", "closing", "closed", "down"}]
    BY <1>15 DEF Dispose
  <2> QED BY <1>15, <2>1, <2>2, YieldTypes DEF Dispose
<1>16. CASE Crash(p)
  BY <1>16 DEF Crash, Connected
<1>17. CASE Lock(p)
  BY <1>17 DEF Lock, Entry
<1> QED BY <1>1, <1>2, <1>3, <1>4, <1>5, <1>6, <1>7, <1>8, <1>9, <1>10, <1>11, <1>12, <1>13, <1>14, <1>15, <1>16, <1>17 DEF Asks, Insists, Yields, Hears

(* and so does every step: the mutex is type correct *)
THEOREM TypeCorrect == Spec => []TypeOK
<1>1. TypeOK /\ [Next]_vars => TypeOK'
  <2> SUFFICES ASSUME TypeOK, [Next]_vars PROVE TypeOK'  OBVIOUS
  <2>1. CASE UNCHANGED vars  BY <2>1 DEF vars, peerVars, errors, bounds, TypeOK
  <2>2. CASE Expire          BY <2>2 DEF Expire, peerVars, errors, bounds, TypeOK
  <2> QED BY <2>1, <2>2, PeerTypes DEF Next
<1> QED BY InitTypes, <1>1, PTL DEF Spec
-----------------------------------------------------------------------------
(* each step of a peer keeps the ownership *)
LEMMA PeerOwnership ==
  ASSUME TypeOK, Ownership, NEW p \in Peers, Lock(p) \/ Asks(p) \/ Insists(p) \/ Complain(p) \/ Unlock(p) \/ Yields(p)
                       \/ YieldTimeout(p) \/ Hears(p) \/ Dispose(p) \/ Crash(p)
  PROVE  Ownership'
<1> USE MutexAssumption DEF TypeOK, Ownership, OwnsKey, SoftLockIsLock, GivenAway, DeadOwnNothing, peerVars, errors, bounds
<1>1. CASE AnnounceWaiting(p)
  BY <1>1 DEF AnnounceWaiting, Publish
<1>2. CASE HasYielded(p)
  BY <1>2 DEF HasYielded
<1>3. CASE FirstTry(p)
  BY <1>3 DEF FirstTry
<1>4. CASE StartsWaiting(p)
  BY <1>4 DEF StartsWaiting
<1>5. CASE Locked(p)
  BY <1>5 DEF Locked
<1>6. CASE Retries(p)
  BY <1>6 DEF Retries, StillTrying
<1>7. CASE TryLock(p)
  BY <1>7 DEF TryLock
<1>8. CASE Complain(p)
  BY <1>8 DEF Complain, Publish
<1>9. CASE Unlock(p)
  <2>1. CASE SoftLocks(p)  BY <1>9, <2>1 DEF Unlock, SoftLocks
  <2>2. CASE ~SoftLocks(p)
    <3>1. internalLock[p] /\ owner = p  BY <1>9 DEF Unlock
    <3>2. internalLock' = [internalLock EXCEPT ![p] = FALSE] /\ yieldPc' = [yieldPc EXCEPT ![p] = "delete"]
      BY <1>9, <2>2, <3>1, YieldEffect DEF Unlock
    <3>3. pc' = [pc EXCEPT ![p] = "unlocking"] /\ UNCHANGED <<owner, listening, tries>> /\ ~listening[p]
      BY <1>9, <2>2 DEF Unlock, SoftLocks
    <3> QED BY <3>1, <3>2, <3>3
  <2> QED BY <2>1, <2>2
<1>10. CASE DeleteKey(p)
  BY <1>10 DEF DeleteKey
<1>11. CASE PublishUnlocked(p)
  <2>1. pc[p] # "down"  BY <1>11 DEF PublishUnlocked
  <2>2. pc'[p] \notin {"won", "gained", "down"} \/ pc'[p] = pc[p]  BY <1>11 DEF PublishUnlocked
  <2>3. \A q \in Peers : q # p => pc'[q] = pc[q] /\ yieldPc'[q] = yieldPc[q]  BY <1>11 DEF PublishUnlocked
  <2>4. yieldPc'[p] = "none" /\ UNCHANGED <<owner, internalLock, listening, tries>>  BY <1>11 DEF PublishUnlocked
  <2>5. pc'[p] = "locked" => pc[p] = "locked"  BY <1>11 DEF PublishUnlocked
  <2>6. pc'[p] = "idle" => pc[p] \in {"idle", "unlocking"}  BY <1>11 DEF PublishUnlocked
  <2>7. pc'[p] # "unlocking"  BY <1>11 DEF PublishUnlocked
  <2> QED BY <2>1, <2>2, <2>3, <2>4, <2>5, <2>6, <2>7
<1>12. CASE YieldTimeout(p)
  BY <1>12 DEF YieldTimeout, Connected
<1>13. CASE HearsWaiting(p)
  <2>1. CASE listening[p] /\ ~LockedOrPending(p)
    <3>1. internalLock' = [internalLock EXCEPT ![p] = FALSE]
          /\ (internalLock[p] => yieldPc' = [yieldPc EXCEPT ![p] = "delete"])
          /\ (~internalLock[p] => yieldPc' = yieldPc)
      BY <1>13, <2>1, YieldEffect DEF HearsWaiting
    <3>2. listening' = [listening EXCEPT ![p] = FALSE] /\ UNCHANGED <<owner, pc, tries>>
      BY <1>13 DEF HearsWaiting, Detached
    <3>3. pc[p] \notin {"won", "gained", "locked", "down"}
      BY <1>13, <2>1 DEF HearsWaiting, LockedOrPending, Connected
    <3> QED BY <3>1, <3>2, <3>3
  <2>2. CASE ~(listening[p] /\ ~LockedOrPending(p))
    <3> listening' = [listening EXCEPT ![p] = FALSE] /\ UNCHANGED <<owner, pc, tries, internalLock, yieldPc>>
      BY <1>13, <2>2 DEF HearsWaiting, Detached
    <3> QED OBVIOUS
  <2> QED BY <2>1, <2>2
<1>14. CASE HearsUnlocked(p)
  BY <1>14 DEF HearsUnlocked, Connected
<1>15. CASE Dispose(p)
  <2>1. CASE internalLock[p]
    <3>1. internalLock' = [internalLock EXCEPT ![p] = FALSE] /\ yieldPc' = [yieldPc EXCEPT ![p] = "delete"]
      BY <1>15, <2>1, YieldEffect DEF Dispose
    <3>2. pc' = [pc EXCEPT ![p] = "closing"] /\ UNCHANGED <<owner, listening, tries>>
      BY <1>15, <2>1 DEF Dispose
    <3> QED BY <2>1, <3>1, <3>2
  <2>2. CASE ~internalLock[p]  BY <1>15, <2>2 DEF Dispose
  <2> QED BY <2>1, <2>2
<1>16. CASE Crash(p)
  BY <1>16 DEF Crash, Connected
<1>17. CASE Lock(p)
  BY <1>17 DEF Lock, Entry
<1> QED BY <1>1, <1>2, <1>3, <1>4, <1>5, <1>6, <1>7, <1>8, <1>9, <1>10, <1>11, <1>12, <1>13, <1>14, <1>15, <1>16, <1>17 DEF Asks, Insists, Yields, Hears

(* and so does every step *)
LEMMA OwnershipHolds == Spec => []Ownership
<1>1. Init => Ownership
  BY DEF Init, Ownership, OwnsKey, SoftLockIsLock, GivenAway, DeadOwnNothing
<1>2. TypeOK /\ Ownership /\ [Next]_vars => Ownership'
  <2> SUFFICES ASSUME TypeOK, Ownership, [Next]_vars PROVE Ownership'  OBVIOUS
  <2> USE DEF Ownership, OwnsKey, SoftLockIsLock, GivenAway, DeadOwnNothing
  <2>1. CASE UNCHANGED vars  BY <2>1 DEF vars, peerVars
  <2>2. CASE Expire          BY <2>2, MutexAssumption DEF Expire, peerVars, TypeOK
  <2>3. CASE \E p \in Peers : Lock(p) \/ Asks(p) \/ Insists(p) \/ Complain(p) \/ Unlock(p) \/ Yields(p)
                               \/ YieldTimeout(p) \/ Hears(p) \/ Dispose(p) \/ Crash(p)
    BY <2>3, PeerOwnership
  <2> QED BY <2>1, <2>2, <2>3 DEF Next
<1> QED BY TypeCorrect, <1>1, <1>2, PTL DEF Spec

(* Two users never have the lock at once, whatever the messages, the timers and the crashes: both *)
(* would be the owner the key names.                                                              *)
THEOREM Exclusive == Spec => []MutualExclusion
<1>1. Ownership => MutualExclusion
  BY DEF Ownership, OwnsKey, SoftLockIsLock, MutualExclusion
<1> QED BY OwnershipHolds, <1>1, PTL
-----------------------------------------------------------------------------
(***************************************************************************)
(* As long as no peer disconnects: a peer that gives the lock away does    *)
(* not listen for the next who waits before it asks for the lock again,    *)
(* and a command of tryLock() that is still under way cannot take the key. *)
(***************************************************************************)
Calm ==
  disposals = 0 => \A p \in Peers :
    /\ pc[p] \notin {"closing", "closed"}
    /\ yielding[p] => ~listening[p] /\ pc[p] \in {"idle", "announce", "yield", "unlocking"}
    /\ tries[p] > 0 => pc[p] = "wait" \/ owner = p

(* yieldLock() of a peer that has the lock and does not yield it already fails neither way *)
LEMMA YieldSucceeds ==
  ASSUME NEW p \in Peers, YieldLock(p), ~asserted, ~unowned, ~yielding[p], internalLock[p]
  PROVE  ~asserted' /\ ~unowned'
BY Zenon DEF YieldLock

(* ... and starts to yield *)
LEMMA YieldStarts ==
  ASSUME TypeOK, NEW p \in Peers, YieldLock(p)
  PROVE  yielding' = [yielding EXCEPT ![p] = TRUE]
BY DEF YieldLock

(* each step of a peer keeps calm *)
LEMMA PeerCalm ==
  ASSUME TypeOK, Ownership, Calm, NEW p \in Peers,
         Lock(p) \/ Asks(p) \/ Insists(p) \/ Complain(p) \/ Unlock(p) \/ Yields(p)
           \/ YieldTimeout(p) \/ Hears(p) \/ Dispose(p) \/ Crash(p)
  PROVE  Calm'
<1> USE MutexAssumption DEF TypeOK, Calm, peerVars, errors, bounds
<1>0. StillTrying(p) => pc[p] = "wait" \/ owner = p
  BY DEF StillTrying, Ownership, OwnsKey
<1>1. CASE AnnounceWaiting(p)
  BY <1>1 DEF AnnounceWaiting, Publish
<1>2. CASE HasYielded(p)
  BY <1>2 DEF HasYielded
<1>3. CASE FirstTry(p)
  BY <1>3 DEF FirstTry
<1>4. CASE StartsWaiting(p)
  BY <1>4 DEF StartsWaiting
<1>5. CASE Locked(p)
  BY <1>5 DEF Locked
<1>6. CASE Retries(p)
  BY <1>0, <1>6 DEF Retries
<1>7. CASE TryLock(p)
  <2>1. CASE owner = Nobody
    <3>1. tries' = [tries EXCEPT ![p] = tries[p] - 1] /\ owner' = p /\ pc' = [pc EXCEPT ![p] = "gained"]
          /\ UNCHANGED <<yielding, listening, disposals>> /\ tries[p] > 0
      BY <1>7, <2>1 DEF TryLock
    <3>2. \A q \in Peers : disposals = 0 /\ tries[q] > 0 => pc[q] = "wait"  BY <2>1
    <3> QED BY <3>1, <3>2
  <2>2. CASE owner # Nobody  BY <1>7, <2>2 DEF TryLock
  <2> QED BY <2>1, <2>2
<1>8. CASE Complain(p)
  BY <1>8 DEF Complain, Publish
<1>9. CASE Unlock(p)
  <2>1. pc' = [pc EXCEPT ![p] = IF SoftLocks(p) THEN "idle" ELSE "unlocking"]
        /\ UNCHANGED <<owner, listening, tries, disposals>>
    BY <1>9 DEF Unlock
  <2>2. yielding' = IF SoftLocks(p) THEN yielding ELSE [yielding EXCEPT ![p] = TRUE]
    BY <1>9, YieldStarts DEF Unlock
  <2> QED BY <1>9, <2>1, <2>2 DEF Unlock, SoftLocks
<1>10. CASE DeleteKey(p)
  <2>1. tries[p] = 0  BY <1>10 DEF DeleteKey
  <2>2. \A q \in Peers : owner = q /\ q # p => owner' = q  BY <1>10 DEF DeleteKey
  <2> QED BY <1>10, <2>1, <2>2 DEF DeleteKey
<1>11. CASE PublishUnlocked(p)
  BY <1>11 DEF PublishUnlocked, Publish
<1>12. CASE YieldTimeout(p)
  BY <1>12 DEF YieldTimeout
<1>13. CASE HearsWaiting(p)
  <2>1. listening' = [listening EXCEPT ![p] = FALSE] /\ UNCHANGED <<owner, pc, tries, disposals>>
    BY <1>13 DEF HearsWaiting, Detached
  <2>2. CASE listening[p] /\ ~LockedOrPending(p)
    <3>1. yielding' = [yielding EXCEPT ![p] = TRUE]  BY <1>13, <2>2, YieldStarts DEF HearsWaiting
    <3>2. pc[p] \in {"idle", "unlocking", "closing"}
      BY <1>13, <2>2 DEF HearsWaiting, LockedOrPending, Connected
    <3> QED BY <2>1, <3>1, <3>2
  <2>3. CASE ~(listening[p] /\ ~LockedOrPending(p))
    <3>1. yielding' = yielding  BY <1>13, <2>3 DEF HearsWaiting
    <3> QED BY <2>1, <3>1
  <2> QED BY <2>2, <2>3
<1>14. CASE HearsUnlocked(p)
  BY <1>0, <1>14 DEF HearsUnlocked
<1>15. CASE Dispose(p)
  <2>1. disposals' # 0  BY <1>15 DEF Dispose
  <2> QED BY <2>1
<1>16. CASE Crash(p)
  BY <1>16 DEF Crash, Connected
<1>17. CASE Lock(p)
  BY <1>17 DEF Lock, Entry
<1> QED BY <1>1, <1>2, <1>3, <1>4, <1>5, <1>6, <1>7, <1>8, <1>9, <1>10, <1>11, <1>12, <1>13, <1>14, <1>15, <1>16, <1>17 DEF Asks, Insists, Yields, Hears

(* each step of a peer that keeps calm fails neither way *)
LEMMA PeerSucceeds ==
  ASSUME TypeOK, Ownership, Calm, NeverFails, NEW p \in Peers,
         Lock(p) \/ Asks(p) \/ Insists(p) \/ Complain(p) \/ Unlock(p) \/ Yields(p)
           \/ YieldTimeout(p) \/ Hears(p) \/ Dispose(p) \/ Crash(p)
  PROVE  NeverFails'
<1> SUFFICES ASSUME disposals' = 0 PROVE ~asserted' /\ ~unowned'
  BY DEF NeverFails
<1>1. CASE Unlock(p)
  <2>1. disposals = 0 /\ pc[p] = "locked"  BY <1>1 DEF Unlock, bounds
  <2>2. internalLock[p] /\ ~yielding[p] /\ ~asserted /\ ~unowned
    BY <2>1 DEF Calm, NeverFails, Ownership, SoftLockIsLock
  <2>3. YieldLock(p) \/ UNCHANGED errors  BY <1>1 DEF Unlock
  <2> QED BY <2>2, <2>3, YieldSucceeds DEF errors
<1>2. CASE HearsWaiting(p)
  <2>1. disposals = 0 /\ Connected(p)  BY <1>2 DEF HearsWaiting, bounds
  <2>2. ~asserted /\ ~unowned  BY <2>1 DEF NeverFails
  <2>3. CASE listening[p] /\ ~LockedOrPending(p)
    <3>1. ~yielding[p] /\ pc[p] \in {"idle", "unlocking"}
      BY <2>1, <2>3 DEF Calm, LockedOrPending, Connected, TypeOK
    <3>2. internalLock[p]  BY <3>1, <2>3 DEF Ownership, SoftLockIsLock
    <3>3. YieldLock(p)     BY <1>2, <2>3 DEF HearsWaiting
    <3> QED BY <2>2, <3>1, <3>2, <3>3, YieldSucceeds
  <2>4. CASE ~(listening[p] /\ ~LockedOrPending(p))
    BY <1>2, <2>2, <2>4 DEF HearsWaiting, errors
  <2> QED BY <2>3, <2>4
<1>3. CASE DeleteKey(p)
  <2>1. disposals = 0 /\ yieldPc[p] = "delete" /\ UNCHANGED asserted  BY <1>3 DEF DeleteKey, bounds
  <2>2. ~asserted /\ ~unowned /\ owner = p  BY <2>1 DEF NeverFails, Ownership, OwnsKey
  <2>3. unowned' = (unowned \/ owner # p)  BY <1>3 DEF DeleteKey
  <2> QED BY <2>1, <2>2, <2>3
<1>4. CASE Dispose(p)
  BY <1>4 DEF Dispose, TypeOK
<1>5. CASE UNCHANGED errors /\ UNCHANGED disposals
  BY <1>5 DEF errors, NeverFails
<1>6. Lock(p) \/ Asks(p) \/ Insists(p) \/ Complain(p) \/ PublishUnlocked(p) \/ YieldTimeout(p)
        \/ HearsUnlocked(p) \/ Crash(p) => UNCHANGED errors /\ UNCHANGED disposals
  BY DEF Lock, Asks, Insists, Complain, PublishUnlocked, YieldTimeout, HearsUnlocked, Crash, bounds,
         AnnounceWaiting, HasYielded, FirstTry, StartsWaiting, Locked, Retries, TryLock
<1> QED BY <1>1, <1>2, <1>3, <1>4, <1>5, <1>6 DEF Yields, Hears

(* The assertion of yieldLock() holds and the key that is deleted is ours, for any number of peers *)
(* as long as none disconnects.                                                                    *)
THEOREM Succeeds == Spec => []NeverFails
<1>1. Init => Calm /\ NeverFails
  BY DEF Init, Calm, NeverFails
<1>2. TypeOK /\ Ownership /\ Calm /\ NeverFails /\ [Next]_vars => (Calm /\ NeverFails)'
  <2> SUFFICES ASSUME TypeOK, Ownership, Calm, NeverFails, [Next]_vars PROVE (Calm /\ NeverFails)'
    OBVIOUS
  <2>1. CASE UNCHANGED vars
    BY <2>1 DEF vars, peerVars, errors, bounds, Calm, NeverFails
  <2>2. CASE Expire
    BY <2>2, MutexAssumption DEF Expire, peerVars, errors, bounds, Calm, NeverFails, Ownership, DeadOwnNothing
  <2>3. CASE \E p \in Peers : Lock(p) \/ Asks(p) \/ Insists(p) \/ Complain(p) \/ Unlock(p) \/ Yields(p)
                               \/ YieldTimeout(p) \/ Hears(p) \/ Dispose(p) \/ Crash(p)
    BY <2>3, PeerCalm, PeerSucceeds
  <2> QED BY <2>1, <2>2, <2>3 DEF Next
<1> QED BY TypeCorrect, OwnershipHolds, <1>1, <1>2, PTL DEF Spec
=============================================================================
