----------------------------- MODULE ClaimsProofs -----------------------------
(***************************************************************************)
(* Theorems about the ownership of rooms, for any number of users, rooms   *)
(* and ticks: nobody claims more rooms than his level allows, and every    *)
(* room he has at the end of a tick is counted.                            *)
(***************************************************************************)
EXTENDS Claims, FiniteSetTheorems, SequenceTheorems, TLAPS

Ops == [op : {"insert", "remove"}, user : Users]
Pcs == {"none", "read", "insert", "recount", "remove", "claimed", "failed"}
Tasks == [pc : Pcs, count : Nat, capacity : Nat]

Types ==
  /\ level \in [Rooms -> BOOLEAN]
  /\ roomUser \in [Rooms -> Users \cup {Nobody}] /\ user \in [Rooms -> Users \cup {Nobody}]
  /\ controlled \in [Users -> SUBSET Rooms] /\ gcl \in [Users -> Nat \ {0}]
  /\ present \in SUBSET Users /\ entitled \in SUBSET present
  /\ known \in SUBSET Users /\ asked \in SUBSET (Rooms \X Users) /\ raced \in SUBSET Rooms
  /\ phase \in [Rooms -> {"intents", "tasks", "done"}]
  /\ sent \in [Rooms -> Seq(Ops)]
  /\ task \in [Rooms -> [Users -> Tasks]]

(***************************************************************************)
(* Who owns a room is marked as its user, and is in the world; so is whom  *)
(* an operation is about.                                                  *)
(***************************************************************************)
OwnersAreMarked == \A r \in Rooms : level[r] => roomUser[r] \in Users /\ user[r] = roomUser[r]

OwnersArePresent ==
  \A r \in Rooms :
    /\ roomUser[r] \in Users => roomUser[r] \in present
    /\ \A op \in Range(sent[r]) : op.user \in present

(***************************************************************************)
(* A claim is of a user who was entitled to it when the tick began, and of *)
(* a room he does not own; it goes on when the room's operations are done. *)
(***************************************************************************)
ClaimsAreEntitled ==
  \A r \in Rooms, u \in Users : task[r][u].pc # "none" => u \in entitled /\ r \notin Owned(u) /\ phase[r] # "done"

ClaimsFollowIntents ==
  \A r \in Rooms, u \in Users : task[r][u].pc \notin {"none", "read"} => phase[r] = "tasks" /\ sent[r] = <<>>

DoneIsDone == \A r \in Rooms : phase[r] = "done" => sent[r] = <<>>

(***************************************************************************)
(* Whose rooms are counted: at once, if he was entitled, and unless a      *)
(* spawn gave him the room; else when the operations under way are done,   *)
(* the last of which about him enters it.                                  *)
(***************************************************************************)
EndsWithInsert(ops, u) ==
  \E i \in DOMAIN ops :
    /\ ops[i] = [op |-> "insert", user |-> u]
    /\ \A j \in DOMAIN ops : j > i => ops[j] # [op |-> "remove", user |-> u]

Counted(r, u) == r \in controlled[u] /\ [op |-> "remove", user |-> u] \notin Range(sent[r])

ClaimedIsCounted == \A r \in Rooms, u \in Users : task[r][u].pc \in {"recount", "claimed"} => r \in controlled[u]

EntitledIsCounted == \A u \in entitled : \A r \in Owned(u) \ raced : Counted(r, u)

WillBeCounted == \A u \in Users : \A r \in Owned(u) : EndsWithInsert(sent[r], u) \/ Counted(r, u)

(***************************************************************************)
(* What a claim found of the level still holds; with the rooms it has won  *)
(* and not yet got, a user stays within it.                                *)
(***************************************************************************)
Claimed(u) == {r \in Rooms : task[r][u].pc = "claimed"}
Held(u) == (Owned(u) \ raced) \cup Claimed(u)

CapacityIsAllowed == \A r \in Rooms, u \in Users : task[r][u].capacity <= gcl[u]

Within == \A u \in Users : Cardinality(Held(u)) <= gcl[u]

World == OwnersAreMarked /\ OwnersArePresent
Claiming == ClaimsAreEntitled /\ ClaimsFollowIntents /\ DoneIsDone
Counting == ClaimedIsCounted /\ EntitledIsCounted /\ WillBeCounted
Allowed == CapacityIsAllowed /\ Within

Inv == Types /\ World /\ Claiming /\ Counting /\ Allowed

(* what is in a sequence that is appended to *)
LEMMA RangeConcat ==
  ASSUME NEW s \in Seq(Ops), NEW t \in Seq(Ops)
  PROVE  s \o t \in Seq(Ops) /\ Range(s \o t) = Range(s) \cup Range(t)
<1>1. /\ s \o t \in Seq(Ops) /\ Len(s \o t) = Len(s) + Len(t)
      /\ \A i \in 1 .. Len(s) + Len(t) : (s \o t)[i] = IF i <= Len(s) THEN s[i] ELSE t[i - Len(s)]
  BY ConcatProperties
<1>2. DOMAIN s = 1 .. Len(s) /\ DOMAIN t = 1 .. Len(t) /\ DOMAIN (s \o t) = 1 .. Len(s \o t)
      /\ Len(s) \in Nat /\ Len(t) \in Nat
  BY <1>1, LenProperties
<1>3. ASSUME NEW x \in Range(s \o t) PROVE x \in Range(s) \cup Range(t)
  <2>1. PICK i \in 1 .. Len(s) + Len(t) : x = (s \o t)[i]
    BY <1>1, <1>2, <1>3 DEF Range
  <2>2. CASE i <= Len(s)
    BY <1>1, <1>2, <2>1, <2>2 DEF Range
  <2>3. CASE i > Len(s)
    <3>1. i - Len(s) \in 1 .. Len(t) /\ x = t[i - Len(s)]
      BY <1>1, <1>2, <2>1, <2>3
    <3> QED BY <1>2, <3>1 DEF Range
  <2> QED BY <1>2, <2>2, <2>3
<1>4. ASSUME NEW x \in Range(s) PROVE x \in Range(s \o t)
  <2>1. PICK i \in 1 .. Len(s) : x = s[i]
    BY <1>2, <1>4 DEF Range
  <2>2. i \in DOMAIN (s \o t) /\ (s \o t)[i] = x
    BY <1>1, <1>2, <2>1
  <2> QED BY <2>2 DEF Range
<1>5. ASSUME NEW x \in Range(t) PROVE x \in Range(s \o t)
  <2>1. PICK i \in 1 .. Len(t) : x = t[i]
    BY <1>2, <1>5 DEF Range
  <2>2. i + Len(s) \in DOMAIN (s \o t) /\ (s \o t)[i + Len(s)] = x
    BY <1>1, <1>2, <2>1
  <2> QED BY <2>2 DEF Range
<1> QED BY <1>1, <1>3, <1>4, <1>5

(* and read from *)
LEMMA RangeTail ==
  ASSUME NEW s \in Seq(Ops), s # <<>>
  PROVE  Head(s) \in Ops /\ Tail(s) \in Seq(Ops) /\ Range(s) = {Head(s)} \cup Range(Tail(s))
<1>1. /\ Head(s) \in Ops /\ Tail(s) \in Seq(Ops) /\ Len(Tail(s)) = Len(s) - 1
      /\ \A i \in 1 .. Len(Tail(s)) : Tail(s)[i] = s[i + 1]
  BY HeadTailProperties
<1>2. /\ Len(s) \in Nat \ {0} /\ DOMAIN s = 1 .. Len(s) /\ DOMAIN Tail(s) = 1 .. Len(Tail(s))
      /\ Head(s) = s[1]
  BY <1>1, LenProperties
<1>3. ASSUME NEW x \in Range(s) PROVE x \in {Head(s)} \cup Range(Tail(s))
  <2>1. PICK i \in 1 .. Len(s) : x = s[i]
    BY <1>2, <1>3 DEF Range
  <2>2. CASE i = 1
    BY <1>2, <2>1, <2>2
  <2>3. CASE i > 1
    <3>1. i - 1 \in 1 .. Len(Tail(s)) /\ Tail(s)[i - 1] = x
      BY <1>1, <1>2, <2>1, <2>3
    <3> QED BY <1>2, <3>1 DEF Range
  <2> QED BY <2>2, <2>3
<1>4. Head(s) \in Range(s)
  BY <1>2 DEF Range
<1>5. ASSUME NEW x \in Range(Tail(s)) PROVE x \in Range(s)
  <2>1. PICK i \in 1 .. Len(Tail(s)) : x = Tail(s)[i]
    BY <1>2, <1>5 DEF Range
  <2>2. i + 1 \in DOMAIN s /\ s[i + 1] = x
    BY <1>1, <1>2, <2>1
  <2> QED BY <2>2 DEF Range
<1> QED BY <1>1, <1>3, <1>4, <1>5

(* nothing is in the empty sequence *)
LEMMA RangeEmpty == Range(<<>>) = {}
BY DEF Range

(* one operation *)
LEMMA RangeOne ==
  ASSUME NEW op \in Ops
  PROVE  <<op>> \in Seq(Ops) /\ Range(<<op>>) = {op}
BY DEF Range

(* nobody is entered when nothing is under way *)
LEMMA NothingEnds == ASSUME NEW u \in Users PROVE ~EndsWithInsert(<<>>, u)
BY DEF EndsWithInsert

(* whoever is entered last, is entered *)
LEMMA InsertEnds ==
  ASSUME NEW s \in Seq(Ops), NEW u \in Users
  PROVE  EndsWithInsert(s \o <<[op |-> "insert", user |-> u]>>, u)
<1> DEFINE t == <<[op |-> "insert", user |-> u]>>
<1>1. t \in Seq(Ops) /\ Len(t) = 1 /\ t[1] = [op |-> "insert", user |-> u]
  BY DEF Ops
<1>2. /\ s \o t \in Seq(Ops) /\ Len(s \o t) = Len(s) + Len(t)
      /\ \A i \in 1 .. Len(s) + Len(t) : (s \o t)[i] = IF i <= Len(s) THEN s[i] ELSE t[i - Len(s)]
  <2> HIDE DEF t
  <2> QED BY <1>1, ConcatProperties
<1>3. Len(s) \in Nat /\ DOMAIN (s \o t) = 1 .. Len(s) + 1
  BY <1>1, <1>2, LenProperties
<1> HIDE DEF t
<1>4. Len(s) + 1 \in DOMAIN (s \o t) /\ (s \o t)[Len(s) + 1] = [op |-> "insert", user |-> u]
  BY <1>1, <1>2, <1>3
<1>5. \A j \in DOMAIN (s \o t) : ~(j > Len(s) + 1)
  BY <1>3
<1>6. EndsWithInsert(s \o t, u)
  BY <1>4, <1>5 DEF EndsWithInsert
<1> QED BY <1>6 DEF t

(* and stays so while the store handles the operations *)
LEMMA TailEnds ==
  ASSUME NEW s \in Seq(Ops), s # <<>>, NEW u \in Users, EndsWithInsert(s, u)
  PROVE  \/ EndsWithInsert(Tail(s), u)
         \/ Head(s) = [op |-> "insert", user |-> u] /\ [op |-> "remove", user |-> u] \notin Range(Tail(s))
<1>1. /\ Len(Tail(s)) = Len(s) - 1 /\ \A i \in 1 .. Len(Tail(s)) : Tail(s)[i] = s[i + 1]
      /\ Tail(s) \in Seq(Ops)
  BY HeadTailProperties
<1>2. /\ Len(s) \in Nat \ {0} /\ DOMAIN s = 1 .. Len(s) /\ DOMAIN Tail(s) = 1 .. Len(Tail(s))
      /\ Head(s) = s[1]
  BY <1>1, LenProperties
<1>3. PICK i \in DOMAIN s : /\ s[i] = [op |-> "insert", user |-> u]
                            /\ \A j \in DOMAIN s : j > i => s[j] # [op |-> "remove", user |-> u]
  BY DEF EndsWithInsert
<1>4. CASE i = 1
  <2>1. ASSUME NEW j \in DOMAIN Tail(s) PROVE Tail(s)[j] # [op |-> "remove", user |-> u]
    <3>1. j + 1 \in DOMAIN s /\ j + 1 > i /\ Tail(s)[j] = s[j + 1]
      BY <1>1, <1>2, <1>4
    <3> QED BY <1>3, <3>1
  <2>2. [op |-> "remove", user |-> u] \notin Range(Tail(s))
    BY <2>1 DEF Range
  <2> QED BY <1>2, <1>3, <1>4, <2>2
<1>5. CASE i > 1
  <2>1. i - 1 \in DOMAIN Tail(s) /\ Tail(s)[i - 1] = [op |-> "insert", user |-> u]
    BY <1>1, <1>2, <1>3, <1>5
  <2>2. ASSUME NEW j \in DOMAIN Tail(s), j > i - 1 PROVE Tail(s)[j] # [op |-> "remove", user |-> u]
    <3>1. j + 1 \in DOMAIN s /\ j + 1 > i /\ Tail(s)[j] = s[j + 1]
      BY <1>1, <1>2, <2>2
    <3> QED BY <1>3, <3>1
  <2> QED BY <2>1, <2>2 DEF EndsWithInsert
<1> QED BY <1>2, <1>3, <1>4, <1>5

(* sets of rooms are finite *)
LEMMA RoomsAreFinite ==
  ASSUME NEW S \in SUBSET Rooms, NEW T \in SUBSET S
  PROVE  IsFiniteSet(S) /\ Cardinality(S) \in Nat /\ Cardinality(T) \in Nat /\ Cardinality(T) <= Cardinality(S)
<1>1. IsFiniteSet(S)
  BY ClaimsAssumption, FS_Subset
<1>2. IsFiniteSet(T) /\ Cardinality(T) <= Cardinality(S)
  BY <1>1, FS_Subset
<1> QED BY <1>1, <1>2, FS_CardinalityType

(* a claim that has just begun, or ended *)
LEMMA AtTypes ==
  ASSUME NEW pc \in Pcs
  PROVE  At(pc) \in Tasks /\ At(pc).pc = pc /\ At(pc).capacity = 0
<1>1. Cardinality(Rooms) \in Nat
  BY ClaimsAssumption, FS_CardinalityType
<1> QED BY <1>1 DEF At, Unread, Tasks

(* the last of those who won is one of them *)
LEMMA LastWins ==
  ASSUME NEW W \in SUBSET Users, W # {}, NEW order \in SetToSeqs(W)
  PROVE  /\ order \in Seq(W) /\ Last(order) \in W
         /\ [i \in DOMAIN order |-> [op |-> "insert", user |-> order[i]]] \in Seq(Ops)
         /\ Range([i \in DOMAIN order |-> [op |-> "insert", user |-> order[i]]]) = {[op |-> "insert", user |-> u] : u \in Range(order)}
         /\ Range(order) \subseteq W /\ Last(order) \in Range(order)
<1>1. IsFiniteSet(W) /\ Cardinality(W) \in Nat \ {0}
  <2>1. IsFiniteSet(W) BY ClaimsAssumption, FS_Subset
  <2> QED BY <2>1, FS_CardinalityType, FS_EmptySet
<1> DEFINE n == Cardinality(W)
<1>2. order \in [1 .. n -> W]
  BY DEF SetToSeqs
<1>3. order \in Seq(W) /\ Len(order) = n /\ DOMAIN order = 1 .. n
  BY <1>1, <1>2
<1> DEFINE ops == [i \in DOMAIN order |-> [op |-> "insert", user |-> order[i]]]
<1>4. ops \in Seq(Ops)
  <2>1. ops = [i \in 1 .. n |-> [op |-> "insert", user |-> order[i]]]
    BY <1>3
  <2>2. \A i \in 1 .. n : [op |-> "insert", user |-> order[i]] \in Ops
    BY <1>2 DEF Ops
  <2>3. ops \in [1 .. n -> Ops]
    BY <2>1, <2>2
  <2> HIDE DEF ops
  <2> QED BY <1>1, <2>3
<1>5. Range(ops) = {[op |-> "insert", user |-> u] : u \in Range(order)}
  BY <1>3 DEF Range
<1>6. Range(order) \subseteq W /\ Last(order) \in Range(order)
  BY <1>1, <1>2, <1>3 DEF Range, Last
<1> QED BY <1>3, <1>4, <1>5, <1>6
-----------------------------------------------------------------------------
(* nothing has happened at the start *)
LEMMA InitInv == Init => Inv
<1> SUFFICES ASSUME Init PROVE Inv  OBVIOUS
<1>1. At("none") \in Tasks /\ At("none").pc = "none" /\ At("none").capacity = 0
  BY AtTypes DEF Pcs
<1>2. Types
  BY <1>1 DEF Init, Types, NoTask
<1>3. World
  BY RangeEmpty, ClaimsAssumption DEF Init, World, OwnersAreMarked, OwnersArePresent
<1>4. Claiming
  BY <1>1 DEF Init, NoTask, Claiming, ClaimsAreEntitled, ClaimsFollowIntents, DoneIsDone
<1>5. Counting
  BY <1>1 DEF Init, NoTask, Counting, ClaimedIsCounted, EntitledIsCounted, WillBeCounted, Owned, Types
<1>6. Allowed
  <2>1. \A u \in Users : Held(u) = {}
    BY <1>1 DEF Init, NoTask, Owned, Claimed, Held
  <2>2. \A u \in Users : gcl[u] = 1
    BY DEF Init
  <2>3. Within
    BY <2>1, <2>2, FS_EmptySet DEF Within
  <2>4. CapacityIsAllowed
    BY <1>1, <2>2 DEF Init, NoTask, CapacityIsAllowed
  <2> QED BY <2>3, <2>4 DEF Allowed
<1> QED BY <1>2, <1>3, <1>4, <1>5, <1>6 DEF Inv

(* nobody gets or wins a room: who was within his level still is *)
LEMMA StaysWithin ==
  ASSUME Inv, Types', \A u \in Users : gcl'[u] >= gcl[u],
         \A u \in Users : Held(u)' \subseteq Held(u)
  PROVE  Within'
<1> SUFFICES ASSUME NEW u \in Users PROVE Cardinality(Held(u))' <= gcl'[u]
  BY DEF Within
<1>1. Held(u) \in SUBSET Rooms
  BY DEF Owned, Claimed, Held
<1>2. Cardinality(Held(u)) <= gcl[u] /\ gcl[u] \in Nat /\ gcl'[u] \in Nat
  BY DEF Inv, Allowed, Within, Types
<1>3. /\ Cardinality(Held(u)) \in Nat /\ Cardinality(Held(u))' \in Nat
      /\ Cardinality(Held(u))' <= Cardinality(Held(u))
  BY <1>1, RoomsAreFinite
<1> QED BY <1>2, <1>3

(* claimController *)
LEMMA ClaimControllerInv ==
  ASSUME Inv, NEW r \in Rooms, NEW u \in Users, ClaimController(r, u)
  PROVE  Inv'
<1> USE DEF Inv, ClaimController, spawns, Types
<1>1. At("read") \in Tasks /\ At("read").pc = "read" /\ At("read").capacity = 0
  BY AtTypes DEF Pcs
<1>2. Types'
  BY <1>1
<1>3. \A q \in Rooms, v \in Users : task'[q][v] = IF q = r /\ v = u THEN At("read") ELSE task[q][v]
  OBVIOUS
<1>4. ~level[r]
  BY ClaimsAssumption DEF World, OwnersAreMarked
<1>5. \A v \in Users : Owned(v)' = Owned(v) /\ Held(v)' \subseteq Held(v)
  BY <1>1, <1>3 DEF Owned, Claimed, Held
<1>6. World'
  BY <1>4 DEF World, OwnersAreMarked, OwnersArePresent
<1>7. Claiming'
  BY <1>1, <1>3, <1>4, <1>5 DEF Claiming, ClaimsAreEntitled, ClaimsFollowIntents, DoneIsDone, Owned
<1>8. Counting'
  BY <1>1, <1>3, <1>5 DEF Counting, ClaimedIsCounted, EntitledIsCounted, WillBeCounted, Counted
<1>9. CapacityIsAllowed'
  BY <1>1, <1>3 DEF Allowed, CapacityIsAllowed
<1>10. Within'
  BY <1>2, <1>5, StaysWithin
<1> QED BY <1>2, <1>6, <1>7, <1>8, <1>9, <1>10 DEF Allowed

(* reserveController *)
LEMMA ReserveControllerInv ==
  ASSUME Inv, NEW r \in Rooms, NEW u \in Users, ReserveController(r, u)
  PROVE  Inv'
<1> USE DEF Inv, ReserveController, spawns, Types
<1>1. Types'
  OBVIOUS
<1>2. \A v \in Users : Owned(v)' = Owned(v) /\ Held(v)' = Held(v)
  BY DEF Owned, Claimed, Held
<1>3. World'
  BY DEF World, OwnersAreMarked, OwnersArePresent
<1>4. Claiming'
  BY <1>2 DEF Claiming, ClaimsAreEntitled, ClaimsFollowIntents, DoneIsDone
<1>5. Counting'
  BY <1>2 DEF Counting, ClaimedIsCounted, EntitledIsCounted, WillBeCounted, Counted
<1>6. Allowed'
  BY <1>1, <1>2, StaysWithin DEF Allowed, CapacityIsAllowed
<1> QED BY <1>1, <1>3, <1>4, <1>5, <1>6

(* release() *)
LEMMA LosesRoomInv ==
  ASSUME Inv, NEW r \in Rooms, LosesRoom(r)
  PROVE  Inv'
<1> USE DEF Inv, LosesRoom, Release, Becomes, Types
<1> DEFINE op == [op |-> "remove", user |-> roomUser[r]]
<1>1. level[r] => op \in Ops /\ op.user \in present
  BY DEF World, OwnersAreMarked, OwnersArePresent, Ops
<1>2. /\ sent'[r] \in Seq(Ops)
      /\ Range(sent'[r]) = IF level[r] THEN Range(sent[r]) \cup {op} ELSE Range(sent[r])
      /\ \A q \in Rooms : q # r => sent'[q] = sent[q]
  <2>1. CASE level[r]
    <3>1. sent' = [sent EXCEPT ![r] = @ \o <<op>>]
      BY <2>1 DEF Sends
    <3>2. <<op>> \in Seq(Ops) /\ Range(<<op>>) = {op}
      BY <1>1, <2>1, RangeOne
    <3>3. sent[r] \in Seq(Ops) /\ sent'[r] = sent[r] \o <<op>> /\ \A q \in Rooms : q # r => sent'[q] = sent[q]
      BY <3>1
    <3>4. sent'[r] \in Seq(Ops) /\ Range(sent'[r]) = Range(sent[r]) \cup {op}
      <4>1. sent[r] \o <<op>> \in Seq(Ops) /\ Range(sent[r] \o <<op>>) = Range(sent[r]) \cup Range(<<op>>)
        <5> HIDE DEF op, Inv, LosesRoom, Release, Becomes, Types
        <5> QED BY <3>2, <3>3, RangeConcat
      <4> QED BY <3>2, <3>3, <4>1
    <3> QED BY <2>1, <3>3, <3>4
  <2>2. CASE ~level[r]
    BY <2>2, ConcatEmptySeq DEF Sends
  <2> QED BY <2>1, <2>2
<1>3. Types'
  BY <1>2 DEF Sends
<1>4. \A v \in Users : Owned(v)' = Owned(v) \ {r} /\ Held(v)' \subseteq Held(v)
  BY DEF Owned, Claimed, Held
<1>5. World'
  BY <1>1, <1>2, ClaimsAssumption DEF World, OwnersAreMarked, OwnersArePresent
<1>6. Claiming'
  BY <1>2, <1>4 DEF Claiming, ClaimsAreEntitled, ClaimsFollowIntents, DoneIsDone
<1>7. Counting'
  <2>1. ClaimedIsCounted'
    BY DEF Counting, ClaimedIsCounted
  <2>2. ASSUME NEW v \in Users, NEW q \in Owned(v)'
        PROVE  q \in Owned(v) /\ q # r /\ (Counted(q, v) => Counted(q, v)') /\ sent'[q] = sent[q]
    <3>1. q \in Owned(v) /\ q # r /\ q \in Rooms
      BY <1>4, <2>2 DEF Owned
    <3> QED BY <1>2, <3>1 DEF Counted
  <2>3. EntitledIsCounted'
    BY <2>2 DEF Counting, EntitledIsCounted
  <2>4. WillBeCounted'
    BY <2>2 DEF Counting, WillBeCounted
  <2> QED BY <2>1, <2>3, <2>4 DEF Counting
<1>8. Allowed'
  BY <1>3, <1>4, StaysWithin DEF Allowed, CapacityIsAllowed
<1> QED BY <1>3, <1>5, <1>6, <1>7, <1>8

(* a request *)
LEMMA AsksSpawnInv ==
  ASSUME Inv, NEW r \in Rooms, NEW u \in Users, AsksSpawn(r, u)
  PROVE  Inv'
<1> USE DEF Inv, AsksSpawn, world
<1>1. Types'
  BY DEF Types
<1>2. \A v \in Users : Owned(v)' = Owned(v) /\ Held(v)' = Held(v)
  BY DEF Owned, Claimed, Held
<1>3. /\ World' /\ Claiming'
      /\ Counting'
  <2>1. World'
    BY DEF World, OwnersAreMarked, OwnersArePresent
  <2>2. Claiming'
    BY <1>2 DEF Claiming, ClaimsAreEntitled, ClaimsFollowIntents, DoneIsDone
  <2>3. Counting'
    BY <1>2 DEF spawns, Types, Counting, ClaimedIsCounted, EntitledIsCounted, WillBeCounted, Counted
  <2> QED BY <2>1, <2>2, <2>3
<1>4. Allowed'
  BY <1>2 DEF Allowed, CapacityIsAllowed, Within
<1> QED BY <1>1, <1>3, <1>4

(* a user without rooms gets one *)
LEMMA FirstRoomWithin ==
  ASSUME Inv, Types', UNCHANGED <<gcl, task>>, NEW r \in Rooms, NEW u \in Users, u \notin present,
         Owned(u)' = Owned(u) \cup {r}, \A v \in Users : v # u => Held(v)' \subseteq Held(v)
  PROVE  Within'
<1> SUFFICES ASSUME NEW v \in Users PROVE Cardinality(Held(v))' <= gcl'[v]
  BY DEF Within
<1>1. CASE v = u
  <2>1. Owned(u) = {} /\ Claimed(u) = {}
    BY DEF Inv, World, OwnersArePresent, Claiming, ClaimsAreEntitled, Owned, Claimed, Types
  <2>2. Held(u)' = {} \/ Held(u)' = {r}
    BY <2>1 DEF Claimed, Held
  <2>3. gcl'[u] \in Nat \ {0}
    BY DEF Types
  <2>4. Cardinality(Held(u))' \in {0, 1}
    BY <2>2, FS_Singleton, FS_EmptySet
  <2> QED BY <1>1, <2>3, <2>4
<1>2. CASE v # u
  <2>1. Held(v) \in SUBSET Rooms /\ Held(v)' \subseteq Held(v)
    BY <1>2 DEF Owned, Claimed, Held
  <2>2. Cardinality(Held(v)) <= gcl[v] /\ gcl[v] \in Nat
    BY DEF Inv, Allowed, Within, Types
  <2>3. /\ Cardinality(Held(v)) \in Nat /\ Cardinality(Held(v))' \in Nat
        /\ Cardinality(Held(v))' <= Cardinality(Held(v))
    BY <2>1, RoomsAreFinite
  <2> QED BY <2>2, <2>3
<1> QED BY <1>1, <1>2

(* the room is free *)
LEMMA SpawnClaimsInv ==
  ASSUME Inv, NEW r \in Rooms, NEW u \in Users, PlaceSpawn(r, u), roomUser[r] = Nobody
  PROVE  Inv'
<1> USE DEF Inv, PlaceSpawn, Claim, Becomes, Types
<1> DEFINE op == [op |-> "insert", user |-> u]
<1>1. op \in Ops /\ op.user = u
  BY DEF Ops
<1>2. /\ sent'[r] \in Seq(Ops) /\ Range(sent'[r]) = Range(sent[r]) \cup {op}
      /\ EndsWithInsert(sent'[r], u)
      /\ \A q \in Rooms : q # r => sent'[q] = sent[q]
  <2>1. /\ sent[r] \in Seq(Ops) /\ sent'[r] = sent[r] \o <<op>>
        /\ \A q \in Rooms : q # r => sent'[q] = sent[q]
    BY ClaimsAssumption DEF Sends
  <2>2. <<op>> \in Seq(Ops) /\ Range(<<op>>) = {op}
    BY <1>1, RangeOne
  <2> HIDE DEF Inv, PlaceSpawn, Claim, Becomes, Types
  <2>3. EndsWithInsert(sent[r] \o <<op>>, u)
    BY <2>1, InsertEnds
  <2> HIDE DEF op
  <2>4. sent[r] \o <<op>> \in Seq(Ops) /\ Range(sent[r] \o <<op>>) = Range(sent[r]) \cup {op}
    BY <2>1, <2>2, RangeConcat
  <2> QED BY <2>1, <2>3, <2>4
<1>3. Types'
  BY <1>2 DEF Sends
<1>4. ~level[r]
  BY ClaimsAssumption DEF World, OwnersAreMarked
<1>5. Owned(u)' = Owned(u) \cup {r} /\ \A v \in Users : v # u => Owned(v)' = Owned(v)
  <2>1. /\ level \in [Rooms -> BOOLEAN] /\ level' = [level EXCEPT ![r] = TRUE]
        /\ roomUser \in [Rooms -> Users \cup {Nobody}] /\ roomUser' = [roomUser EXCEPT ![r] = u]
    OBVIOUS
  <2> HIDE DEF Inv, PlaceSpawn, Claim, Becomes, Types
  <2> QED BY <1>4, <2>1 DEF Owned
<1>6. World'
  BY <1>1, <1>2 DEF World, OwnersAreMarked, OwnersArePresent
<1>7. raced' = (IF u \in present THEN raced \cup {r} ELSE raced) /\ present' = present \cup {u}
  BY ClaimsAssumption
<1>8. Claiming'
  <2>1. ASSUME NEW q \in Rooms, NEW v \in Users, task[q][v].pc # "none"
        PROVE  v \in entitled /\ q \notin Owned(v)' /\ phase[q] # "done"
    <3>1. v \in entitled /\ q \notin Owned(v) /\ phase[q] # "done"
      BY <2>1 DEF Claiming, ClaimsAreEntitled
    <3>2. ~(q = r /\ v = u)
      BY <2>1, AtTypes DEF NoTask, Pcs
    <3> QED BY <1>5, <3>1, <3>2
  <2>2. ClaimsAreEntitled'
    BY <2>1 DEF ClaimsAreEntitled
  <2>3. ClaimsFollowIntents' /\ DoneIsDone'
    BY <1>2 DEF Claiming, ClaimsFollowIntents, DoneIsDone
  <2> QED BY <2>2, <2>3 DEF Claiming
<1>9. ASSUME NEW v \in Users, NEW q \in Owned(v)', ~(q = r /\ v = u)
      PROVE  q \in Owned(v) /\ sent'[q] = sent[q] /\ (Counted(q, v) => Counted(q, v)')
  <2>1. q \in Owned(v) /\ q \in Rooms
    BY <1>5, <1>9 DEF Owned
  <2>2. q # r
    BY <1>4, <2>1 DEF Owned
  <2> QED BY <1>2, <2>1, <2>2 DEF Counted
<1>10. WillBeCounted'
  <2> SUFFICES ASSUME NEW v \in Users, NEW q \in Owned(v)'
               PROVE  EndsWithInsert(sent'[q], v) \/ Counted(q, v)'
    BY DEF WillBeCounted
  <2>1. CASE q = r /\ v = u
    BY <1>2, <2>1
  <2>2. CASE ~(q = r /\ v = u)
    BY <1>9, <2>2 DEF Counting, WillBeCounted
  <2> QED BY <2>1, <2>2
<1>11. Counting'
  <2>1. ClaimedIsCounted'
    BY DEF Counting, ClaimedIsCounted
  <2>2. ASSUME NEW v \in entitled, NEW q \in Owned(v)', q \notin raced' PROVE Counted(q, v)'
    <3>1. v \in Users /\ v \in present /\ q \notin raced
      BY <1>7, <2>2
    <3>2. ~(q = r /\ v = u)
      BY <1>7, <2>2, <3>1
    <3> QED BY <1>9, <2>2, <3>1, <3>2 DEF Counting, EntitledIsCounted
  <2>3. EntitledIsCounted'
    BY <2>2 DEF EntitledIsCounted
  <2> QED BY <1>10, <2>1, <2>3 DEF Counting
<1>12. \A v \in Users : v # u => Held(v)' \subseteq Held(v)
  BY <1>5, <1>7 DEF Held, Claimed
<1>13. UNCHANGED <<gcl, task>> /\ gcl \in [Users -> Nat \ {0}]
  OBVIOUS
<1>14. Within'
  <2> HIDE DEF Inv, PlaceSpawn, Claim, Becomes, Types
  <2>1. CASE u \notin present
    BY <1>3, <1>5, <1>12, <1>13, <2>1, FirstRoomWithin
  <2>2. CASE u \in present
    <3>1. Held(u)' \subseteq Held(u)
      BY <1>5, <1>7, <1>13, <2>2 DEF Held, Claimed
    <3>2. \A v \in Users : Held(v)' \subseteq Held(v)
      BY <1>12, <3>1
    <3>3. \A v \in Users : gcl'[v] >= gcl[v]
      BY <1>13
    <3> QED BY <1>3, <3>2, <3>3, StaysWithin
  <2> QED BY <2>1, <2>2
<1>15. CapacityIsAllowed'
  BY DEF Allowed, CapacityIsAllowed
<1> QED BY <1>3, <1>6, <1>8, <1>11, <1>14, <1>15 DEF Allowed

(* placeSpawn *)
LEMMA PlaceSpawnInv ==
  ASSUME Inv, NEW r \in Rooms, NEW u \in Users, PlaceSpawn(r, u)
  PROVE  Inv'
<1>1. CASE roomUser[r] = Nobody
  BY <1>1, SpawnClaimsInv
<1>2. CASE roomUser[r] # Nobody
  <2> USE <1>2 DEF Inv, PlaceSpawn, world
  <2>1. Types'
    BY DEF Types
  <2>2. \A v \in Users : Owned(v)' = Owned(v) /\ Held(v)' = Held(v)
    BY DEF Owned, Claimed, Held
  <2>3. /\ World' /\ Claiming'
        /\ Counting'
    <3>1. World'
      BY DEF World, OwnersAreMarked, OwnersArePresent
    <3>2. Claiming'
      BY <2>2 DEF Claiming, ClaimsAreEntitled, ClaimsFollowIntents, DoneIsDone
    <3>3. Counting'
      BY <2>2 DEF Types, Counting, ClaimedIsCounted, EntitledIsCounted, WillBeCounted, Counted
    <3> QED BY <3>1, <3>2, <3>3
  <2>4. Allowed'
    BY <2>2 DEF Allowed, CapacityIsAllowed, Within
  <2> QED BY <2>1, <2>3, <2>4
<1> QED BY <1>1, <1>2

(* the end of the intents *)
LEMMA IntentsEndInv ==
  ASSUME Inv, NEW r \in Rooms, IntentsEnd(r)
  PROVE  Inv'
<1> USE DEF Inv, IntentsEnd, world, spawns, Types
<1>1. Types'
  OBVIOUS
<1>2. \A v \in Users : Owned(v)' = Owned(v) /\ Held(v)' = Held(v)
  BY DEF Owned, Claimed, Held
<1>3. World'
  BY DEF World, OwnersAreMarked, OwnersArePresent
<1>4. Claiming'
  BY <1>2 DEF Claiming, ClaimsAreEntitled, ClaimsFollowIntents, DoneIsDone
<1>5. Counting'
  BY <1>2 DEF Counting, ClaimedIsCounted, EntitledIsCounted, WillBeCounted, Counted
<1>6. Allowed'
  BY <1>1, <1>2, StaysWithin DEF Allowed, CapacityIsAllowed
<1> QED BY <1>1, <1>3, <1>4, <1>5, <1>6

(* incrementGlobalControlLevel *)
LEMMA GainsLevelInv ==
  ASSUME Inv, NEW u \in Users, GainsLevel(u)
  PROVE  Inv'
<1> USE DEF Inv, GainsLevel, world, spawns, Types
<1>1. Types' /\ \A v \in Users : gcl'[v] >= gcl[v]
  OBVIOUS
<1>2. \A v \in Users : Owned(v)' = Owned(v) /\ Held(v)' = Held(v)
  BY DEF Owned, Claimed, Held
<1>3. World'
  BY DEF World, OwnersAreMarked, OwnersArePresent
<1>4. Claiming'
  BY <1>2 DEF Claiming, ClaimsAreEntitled, ClaimsFollowIntents, DoneIsDone
<1>5. Counting'
  BY <1>2 DEF Counting, ClaimedIsCounted, EntitledIsCounted, WillBeCounted, Counted
<1>6. CapacityIsAllowed'
  <2> SUFFICES ASSUME NEW q \in Rooms, NEW v \in Users PROVE task[q][v].capacity <= gcl'[v]
    BY DEF CapacityIsAllowed
  <2>1. task[q][v] \in Tasks /\ task[q][v].capacity <= gcl[v]
    BY DEF Allowed, CapacityIsAllowed
  <2> QED BY <1>1, <2>1 DEF Tasks
<1>7. Within'
  <2> HIDE DEF Inv, GainsLevel, Types
  <2> QED BY <1>1, <1>2, StaysWithin
<1> QED BY <1>1, <1>3, <1>4, <1>5, <1>6, <1>7 DEF Allowed

(* what a step of a task leaves alone *)
LEMMA TaskTypes ==
  ASSUME Types, NEW r \in Rooms, NEW u \in Users, NEW to \in Tasks, Goes(r, u, to)
  PROVE  /\ task' \in [Rooms -> [Users -> Tasks]]
         /\ \A q \in Rooms, v \in Users : task'[q][v] = IF q = r /\ v = u THEN to ELSE task[q][v]
BY DEF Types, Goes

(* a task goes on *)
Proceeds(r, u) ==
  /\ phase[r] = "tasks" /\ sent[r] = <<>> /\ task[r][u].pc # "none"
  /\ UNCHANGED world /\ UNCHANGED gcl /\ UNCHANGED present /\ UNCHANGED entitled
  /\ UNCHANGED spawns /\ UNCHANGED phase /\ UNCHANGED sent

(* what it does to the user's set is right *)
CountsRoom(r, u, to) ==
  /\ controlled' \in [Users -> SUBSET Rooms]
  /\ \A v \in Users :
       \/ controlled'[v] = controlled[v]
       \/ v = u /\ controlled'[v] = controlled[v] \cup {r}
       \/ v = u /\ controlled'[v] = controlled[v] \ {r} /\ to.pc = "failed"
  /\ to.pc \in {"recount", "claimed"} => r \in controlled'[u]
  /\ to.pc = "claimed" => Cardinality(controlled[u]) <= gcl[u] /\ controlled' = controlled

(* such a step preserves the invariant *)
LEMMA TaskStep ==
  ASSUME Inv, NEW r \in Rooms, NEW u \in Users, NEW to \in Tasks, Goes(r, u, to),
         Proceeds(r, u), to.capacity <= gcl[u], CountsRoom(r, u, to)
  PROVE  Inv'
<1> USE DEF Inv, Proceeds, CountsRoom
<1>1. /\ task' \in [Rooms -> [Users -> Tasks]]
      /\ \A q \in Rooms, v \in Users : task'[q][v] = IF q = r /\ v = u THEN to ELSE task[q][v]
  BY TaskTypes
<1>2. Types'
  BY <1>1 DEF Types, world, spawns
<1>3. \A v \in Users : Owned(v)' = Owned(v)
  BY DEF Owned, world
<1>4. u \in entitled /\ r \notin Owned(u)
  BY DEF Claiming, ClaimsAreEntitled
<1>5. World'
  BY DEF World, OwnersAreMarked, OwnersArePresent, world
<1>6. Claiming'
  <2>1. ASSUME NEW q \in Rooms, NEW v \in Users, task'[q][v].pc # "none"
        PROVE  v \in entitled' /\ q \notin Owned(v)' /\ phase'[q] # "done"
    <3>1. task[q][v].pc # "none"
      BY <1>1, <2>1
    <3> QED BY <1>3, <3>1 DEF Claiming, ClaimsAreEntitled
  <2>2. ASSUME NEW q \in Rooms, NEW v \in Users, task'[q][v].pc \notin {"none", "read"}
        PROVE  phase'[q] = "tasks" /\ sent'[q] = <<>>
    BY <1>1, <2>2 DEF Claiming, ClaimsFollowIntents
  <2>3. DoneIsDone'
    BY DEF Claiming, DoneIsDone
  <2> QED BY <2>1, <2>2, <2>3 DEF Claiming, ClaimsAreEntitled, ClaimsFollowIntents
<1>7. \A q \in Rooms, v \in Users : q \in controlled[v] /\ ~(q = r /\ v = u) => q \in controlled'[v]
  OBVIOUS
<1>8. Counting'
  <2>1. ASSUME NEW q \in Rooms, NEW v \in Users, task'[q][v].pc \in {"recount", "claimed"}
        PROVE  q \in controlled'[v]
    <3>1. CASE q = r /\ v = u
      BY <1>1, <2>1, <3>1
    <3>2. CASE ~(q = r /\ v = u)
      <4>1. q \in controlled[v]
        BY <1>1, <2>1, <3>2 DEF Counting, ClaimedIsCounted
      <4> QED BY <1>7, <3>2, <4>1
    <3> QED BY <3>1, <3>2
  <2>2. ASSUME NEW v \in Users, NEW q \in Owned(v)' PROVE q \in Owned(v) /\ (Counted(q, v) => Counted(q, v)')
    <3>1. q \in Rooms /\ q \in Owned(v) /\ ~(q = r /\ v = u)
      BY <1>3, <1>4, <2>2 DEF Owned
    <3> QED BY <1>7, <3>1 DEF Counted
  <2>3. EntitledIsCounted'
    BY <2>2 DEF Counting, EntitledIsCounted, Types, spawns
  <2>4. WillBeCounted'
    BY <2>2 DEF Counting, WillBeCounted
  <2> QED BY <2>1, <2>3, <2>4 DEF Counting, ClaimedIsCounted
<1>9. CapacityIsAllowed'
  BY <1>1 DEF Allowed, CapacityIsAllowed
<1>10. CASE to.pc # "claimed"
  <2>1. \A v \in Users : Claimed(v)' \subseteq Claimed(v)
    BY <1>1, <1>10 DEF Claimed
  <2>2. Within'
    <3>1. \A v \in Users : Held(v)' \subseteq Held(v)
      BY <1>3, <2>1 DEF Held, spawns
    <3>2. \A v \in Users : gcl'[v] >= gcl[v]
      BY DEF Types
    <3> QED BY <1>2, <3>1, <3>2, StaysWithin
  <2> QED BY <1>2, <1>5, <1>6, <1>8, <1>9, <2>2 DEF Allowed
<1>11. CASE to.pc = "claimed"
  <2>1. ASSUME NEW v \in Users PROVE Cardinality(Held(v))' <= gcl'[v]
    <3>1. CASE v # u
      <4>1. Held(v)' = Held(v)
        BY <1>1, <1>3, <3>1 DEF Claimed, Held, spawns
      <4> QED BY <4>1 DEF Allowed, Within
    <3>2. CASE v = u
      <4>1. Held(u)' \subseteq controlled[u]
        <5>1. (Owned(u) \ raced)' \subseteq controlled[u]
          BY <1>3, <1>4 DEF Counting, EntitledIsCounted, Counted, Types, spawns
        <5>2. Claimed(u)' \subseteq controlled[u]
          BY <1>8, <1>11 DEF Counting, ClaimedIsCounted, Claimed
        <5> QED BY <5>1, <5>2 DEF Held
      <4>2. controlled[u] \in SUBSET Rooms /\ gcl[u] \in Nat
        BY DEF Types
      <4>3. /\ Cardinality(controlled[u]) \in Nat /\ Cardinality(Held(u))' \in Nat
            /\ Cardinality(Held(u))' <= Cardinality(controlled[u])
        BY <4>1, <4>2, RoomsAreFinite
      <4>4. Cardinality(controlled[u]) <= gcl[u]
        BY <1>11
      <4> QED BY <3>2, <4>2, <4>3, <4>4
    <3> QED BY <3>1, <3>2
  <2>2. Within'
    BY <2>1 DEF Within
  <2> QED BY <1>2, <1>5, <1>6, <1>8, <1>9, <2>2 DEF Allowed
<1> QED BY <1>10, <1>11

(* the count is read *)
LEMMA ReadsCountInv ==
  ASSUME Inv, NEW r \in Rooms, NEW u \in Users, ReadsCount(r, u)
  PROVE  Inv'
<1> USE DEF ReadsCount, Running, OnlyTask
<1> DEFINE to == [task[r][u] EXCEPT !.count = Cardinality(controlled[u])]
<1>1. task[r][u] \in Tasks /\ controlled \in [Users -> SUBSET Rooms] /\ task[r][u].capacity <= gcl[u]
  BY DEF Inv, Types, Allowed, CapacityIsAllowed
<1>2. Cardinality(controlled[u]) \in Nat
  BY <1>1, RoomsAreFinite
<1>3. to \in Tasks /\ to.pc = "read" /\ to.capacity = task[r][u].capacity
  BY <1>1, <1>2 DEF Tasks
<1>4. sent[r] = <<>> /\ Goes(r, u, to)
  OBVIOUS
<1> HIDE DEF to
<1>8. Proceeds(r, u)
  BY DEF Proceeds
<1>9. CountsRoom(r, u, to)
  BY <1>1, <1>3, <1>4 DEF CountsRoom
<1> QED BY <1>8, <1>9, <1>1, <1>3, <1>4, TaskStep

(* the level is read *)
LEMMA ReadsLevelInv ==
  ASSUME Inv, NEW r \in Rooms, NEW u \in Users, ReadsLevel(r, u)
  PROVE  Inv'
<1> USE DEF ReadsLevel, Running, OnlyTask
<1> DEFINE to == [task[r][u] EXCEPT !.capacity = gcl[u]]
<1>1. task[r][u] \in Tasks /\ controlled \in [Users -> SUBSET Rooms] /\ gcl[u] \in Nat
  BY DEF Inv, Types
<1>2. to \in Tasks /\ to.pc = "read" /\ to.capacity = gcl[u] /\ to.capacity <= gcl[u]
  BY <1>1 DEF Tasks
<1>3. Goes(r, u, to)
  OBVIOUS
<1> HIDE DEF to
<1>8. Proceeds(r, u)
  BY DEF Proceeds
<1>9. CountsRoom(r, u, to)
  BY <1>1, <1>2, <1>3 DEF CountsRoom
<1> QED BY <1>8, <1>9, <1>1, <1>2, <1>3, TaskStep

(* "Check GCL" *)
LEMMA DecidesInv ==
  ASSUME Inv, NEW r \in Rooms, NEW u \in Users, Decides(r, u)
  PROVE  Inv'
<1> USE DEF Decides, Running, OnlyTask
<1> DEFINE to == IF task[r][u].capacity > task[r][u].count
                 THEN [task[r][u] EXCEPT !.pc = "insert", !.count = Unread] ELSE At("failed")
<1>1. /\ task[r][u] \in Tasks /\ controlled \in [Users -> SUBSET Rooms] /\ gcl[u] \in Nat
      /\ task[r][u].capacity <= gcl[u]
  BY DEF Inv, Types, Allowed, CapacityIsAllowed
<1>2. Unread \in Nat
  BY ClaimsAssumption, FS_CardinalityType DEF Unread
<1>3. At("failed") \in Tasks /\ At("failed").pc = "failed" /\ At("failed").capacity = 0
  BY AtTypes DEF Pcs
<1>4. to \in Tasks /\ to.pc \in {"insert", "failed"} /\ to.capacity <= gcl[u]
  <2>1. CASE task[r][u].capacity > task[r][u].count
    BY <1>1, <1>2, <2>1 DEF Tasks, Pcs
  <2>2. CASE ~(task[r][u].capacity > task[r][u].count)
    BY <1>1, <1>3, <2>2
  <2> QED BY <2>1, <2>2
<1>5. Goes(r, u, to)
  OBVIOUS
<1> HIDE DEF to
<1>8. Proceeds(r, u)
  BY DEF Proceeds
<1>9. CountsRoom(r, u, to)
  BY <1>1, <1>4, <1>5 DEF CountsRoom
<1> QED BY <1>8, <1>9, <1>1, <1>4, <1>5, TaskStep

(* insertControlledRoom of a claim *)
LEMMA InsertsInv ==
  ASSUME Inv, NEW r \in Rooms, NEW u \in Users, Inserts(r, u)
  PROVE  Inv'
<1> USE DEF Inserts, Running
<1> DEFINE to == [task[r][u] EXCEPT !.pc = "recount"]
<1>1. task[r][u] \in Tasks /\ controlled \in [Users -> SUBSET Rooms] /\ task[r][u].capacity <= gcl[u]
  BY DEF Inv, Types, Allowed, CapacityIsAllowed
<1>2. to \in Tasks /\ to.pc = "recount" /\ to.capacity = task[r][u].capacity
  BY <1>1 DEF Tasks, Pcs
<1>3. Goes(r, u, to) /\ controlled' = [controlled EXCEPT ![u] = @ \cup {r}]
  BY DEF Enter
<1>4. controlled' \in [Users -> SUBSET Rooms] /\ r \in controlled'[u]
      /\ \A v \in Users : controlled'[v] = controlled[v] \/ (v = u /\ controlled'[v] = controlled[v] \cup {r})
  BY <1>1, <1>3
<1> HIDE DEF to
<1>8. Proceeds(r, u)
  BY DEF Proceeds
<1>9. CountsRoom(r, u, to)
  BY <1>1, <1>2, <1>3, <1>4 DEF CountsRoom
<1> QED BY <1>8, <1>9, <1>1, <1>2, <1>3, <1>4, TaskStep

(* the count is read again *)
LEMMA RecountsInv ==
  ASSUME Inv, NEW r \in Rooms, NEW u \in Users, Recounts(r, u)
  PROVE  Inv'
<1> USE DEF Recounts, Running, OnlyTask
<1> DEFINE to == At(IF task[r][u].capacity >= Cardinality(controlled[u]) THEN "claimed" ELSE "remove")
<1>1. /\ task[r][u] \in Tasks /\ controlled \in [Users -> SUBSET Rooms] /\ gcl[u] \in Nat
      /\ task[r][u].capacity <= gcl[u] /\ r \in controlled[u]
  BY DEF Inv, Types, Allowed, CapacityIsAllowed, Counting, ClaimedIsCounted
<1>2. Cardinality(controlled[u]) \in Nat
  BY <1>1, RoomsAreFinite
<1>3. Goes(r, u, to)
  OBVIOUS
<1>4. CASE task[r][u].capacity >= Cardinality(controlled[u])
  <2>1. to \in Tasks /\ to.pc = "claimed" /\ to.capacity = 0
    BY <1>4, AtTypes DEF Pcs
  <2>2. to.capacity <= gcl[u] /\ Cardinality(controlled[u]) <= gcl[u]
    BY <1>1, <1>2, <1>4, <2>1 DEF Tasks
  <2> HIDE DEF to
  <2>8. Proceeds(r, u)
    BY DEF Proceeds
  <2>9. CountsRoom(r, u, to)
    BY <1>1, <1>3, <2>1, <2>2 DEF CountsRoom
  <2> QED BY <2>8, <2>9, <1>1, <1>3, <2>1, <2>2, TaskStep
<1>5. CASE ~(task[r][u].capacity >= Cardinality(controlled[u]))
  <2>1. to \in Tasks /\ to.pc = "remove" /\ to.capacity = 0
    BY <1>5, AtTypes DEF Pcs
  <2>2. to.capacity <= gcl[u]
    BY <1>1, <2>1
  <2> HIDE DEF to
  <2>8. Proceeds(r, u)
    BY DEF Proceeds
  <2>9. CountsRoom(r, u, to)
    BY <1>1, <1>3, <2>1, <2>2 DEF CountsRoom
  <2> QED BY <2>8, <2>9, <1>1, <1>3, <2>1, <2>2, TaskStep
<1> QED BY <1>4, <1>5

(* removeControlledRoom of a claim *)
LEMMA WithdrawsInv ==
  ASSUME Inv, NEW r \in Rooms, NEW u \in Users, Withdraws(r, u)
  PROVE  Inv'
<1> USE DEF Withdraws, Running
<1> DEFINE to == At("failed")
<1>1. controlled \in [Users -> SUBSET Rooms] /\ gcl[u] \in Nat
  BY DEF Inv, Types
<1>2. to \in Tasks /\ to.pc = "failed" /\ to.capacity <= gcl[u]
  BY <1>1, AtTypes DEF Pcs
<1>3. Goes(r, u, to) /\ controlled' = [controlled EXCEPT ![u] = @ \ {r}]
  BY DEF Leave
<1>4. controlled' \in [Users -> SUBSET Rooms]
      /\ \A v \in Users : controlled'[v] = controlled[v] \/ (v = u /\ controlled'[v] = controlled[v] \ {r})
  BY <1>1, <1>3
<1> HIDE DEF to
<1>8. Proceeds(r, u)
  BY DEF Proceeds
<1>9. CountsRoom(r, u, to)
  BY <1>1, <1>2, <1>3, <1>4 DEF CountsRoom
<1> QED BY <1>8, <1>9, <1>1, <1>2, <1>3, <1>4, TaskStep

(* a store operation *)
LEMMA StoreHandlesInv ==
  ASSUME Inv, NEW r \in Rooms, StoreHandles(r)
  PROVE  Inv'
<1> USE DEF Inv, StoreHandles, world, spawns
<1> DEFINE next == Head(sent[r])
<1>1. /\ sent \in [Rooms -> Seq(Ops)] /\ controlled \in [Users -> SUBSET Rooms]
      /\ sent[r] \in Seq(Ops) /\ sent[r] # <<>>
  BY DEF Types
<1>2. next \in Ops /\ Tail(sent[r]) \in Seq(Ops) /\ Range(sent[r]) = {next} \cup Range(Tail(sent[r]))
  <2> HIDE DEF Inv, StoreHandles
  <2> QED BY <1>1, RangeTail
<1>3. /\ sent' \in [Rooms -> Seq(Ops)] /\ sent'[r] = Tail(sent[r])
      /\ \A q \in Rooms : q # r => sent'[q] = sent[q]
  BY <1>1, <1>2
<1>4. next.user \in Users /\ next.op \in {"insert", "remove"} /\ next = [op |-> next.op, user |-> next.user]
  BY <1>2 DEF Ops
<1>5. controlled' = [controlled EXCEPT ![next.user] = IF next.op = "insert" THEN @ \cup {r} ELSE @ \ {r}]
  BY DEF Enter, Leave
<1> HIDE DEF next
<1>6. /\ controlled' \in [Users -> SUBSET Rooms]
      /\ \A v \in Users, q \in Rooms : q # r \/ v # next.user => (q \in controlled'[v] <=> q \in controlled[v])
      /\ r \in controlled'[next.user] <=> next.op = "insert"
  BY <1>1, <1>4, <1>5
<1>7. Types'
  BY <1>3, <1>6 DEF Types
<1>8. \A v \in Users : Owned(v)' = Owned(v) /\ Held(v)' = Held(v)
  BY DEF Owned, Claimed, Held
<1>9. World'
  BY <1>2, <1>3 DEF World, OwnersAreMarked, OwnersArePresent
<1>10. Claiming'
  <2>1. ClaimsAreEntitled'
    BY <1>8 DEF Claiming, ClaimsAreEntitled
  <2>2. ClaimsFollowIntents'
    BY <1>1, <1>3 DEF Claiming, ClaimsFollowIntents
  <2>3. DoneIsDone'
    BY <1>1, <1>3 DEF Claiming, DoneIsDone
  <2> QED BY <2>1, <2>2, <2>3 DEF Claiming
<1>11. ClaimedIsCounted'
  <2> SUFFICES ASSUME NEW q \in Rooms, NEW v \in Users, task[q][v].pc \in {"recount", "claimed"}
               PROVE  q \in controlled'[v]
    BY DEF ClaimedIsCounted
  <2>1. sent[q] = <<>> /\ q \in controlled[v]
    BY DEF Claiming, ClaimsFollowIntents, Counting, ClaimedIsCounted
  <2> QED BY <1>1, <1>6, <2>1
<1>12. ASSUME NEW v \in Users, NEW q \in Owned(v), Counted(q, v) PROVE Counted(q, v)'
  <2>1. q \in Rooms /\ q \in controlled[v] /\ [op |-> "remove", user |-> v] \notin Range(sent[q])
    BY <1>12 DEF Counted, Owned
  <2>2. [op |-> "remove", user |-> v] \notin Range(sent'[q])
    BY <1>2, <1>3, <2>1
  <2>3. CASE q = r /\ v = next.user
    <3>1. next.op # "remove"
      BY <1>2, <1>4, <2>1, <2>3
    <3> QED BY <1>4, <1>6, <2>2, <2>3, <3>1 DEF Counted
  <2>4. CASE ~(q = r /\ v = next.user)
    BY <1>6, <2>1, <2>2, <2>4 DEF Counted
  <2> QED BY <2>3, <2>4
<1>13. EntitledIsCounted'
  BY <1>8, <1>12 DEF Types, Counting, EntitledIsCounted
<1>14. WillBeCounted'
  <2> SUFFICES ASSUME NEW v \in Users, NEW q \in Owned(v)
               PROVE  EndsWithInsert(sent'[q], v) \/ Counted(q, v)'
    BY <1>8 DEF WillBeCounted
  <2>1. CASE Counted(q, v)
    BY <1>12, <2>1
  <2>2. CASE ~Counted(q, v)
    <3>1. EndsWithInsert(sent[q], v) /\ q \in Rooms
      BY <2>2 DEF Counting, WillBeCounted, Owned
    <3>2. CASE q # r
      BY <1>3, <3>1, <3>2
    <3>3. CASE q = r
      <4>1. \/ EndsWithInsert(Tail(sent[r]), v)
            \/ next = [op |-> "insert", user |-> v] /\ [op |-> "remove", user |-> v] \notin Range(Tail(sent[r]))
        <5> HIDE DEF Inv, StoreHandles
        <5> QED BY <1>1, <3>1, <3>3, TailEnds DEF next
      <4>2. CASE next = [op |-> "insert", user |-> v] /\ [op |-> "remove", user |-> v] \notin Range(Tail(sent[r]))
        <5>1. next.op = "insert" /\ next.user = v
          BY <4>2
        <5> QED BY <1>3, <1>6, <3>3, <4>2, <5>1 DEF Counted
      <4> QED BY <1>3, <3>3, <4>1, <4>2
    <3> QED BY <3>2, <3>3
  <2> QED BY <2>1, <2>2
<1>15. Allowed'
  <2>1. CapacityIsAllowed'
    BY DEF Allowed, CapacityIsAllowed
  <2>2. /\ \A v \in Users : Held(v)' \subseteq Held(v)
        /\ \A v \in Users : gcl'[v] >= gcl[v]
    BY <1>8 DEF Types
  <2>3. Within'
    <3> HIDE DEF Inv, StoreHandles
    <3> QED BY <1>7, <2>2, StaysWithin
  <2> QED BY <2>1, <2>3 DEF Allowed
<1> QED BY <1>7, <1>9, <1>10, <1>11, <1>13, <1>14, <1>15 DEF Counting

(* the finalizers of the tasks *)
LEMMA TasksEndInv ==
  ASSUME Inv, NEW r \in Rooms, TasksEnd(r)
  PROVE  Inv'
<1> USE DEF Inv, TasksEnd
<1>1. At("none") \in Tasks /\ At("none").pc = "none" /\ At("none").capacity = 0
  BY AtTypes DEF Pcs
<1>2. /\ task' \in [Rooms -> [Users -> Tasks]]
      /\ \A q \in Rooms, v \in Users : task'[q][v] = IF q = r THEN At("none") ELSE task[q][v]
  BY <1>1 DEF Types, NoTask
<1>3. \A v \in Users : Claimed(v)' = Claimed(v) \ {r}
  BY <1>1, <1>2 DEF Claimed
<1>4. CapacityIsAllowed'
  <2> SUFFICES ASSUME NEW q \in Rooms, NEW v \in Users PROVE task'[q][v].capacity <= gcl[v]
    BY DEF CapacityIsAllowed
  <2>1. gcl[v] \in Nat /\ task[q][v].capacity <= gcl[v]
    BY DEF Types, Allowed, CapacityIsAllowed
  <2> QED BY <1>1, <1>2, <2>1
<1>5. \A v \in Users : gcl'[v] >= gcl[v]
  BY DEF Types
<1>6. CASE Winners(r) = {}
  <2> USE DEF world
  <2>1. phase' = [phase EXCEPT ![r] = "done"] /\ UNCHANGED <<world, sent, raced>>
    BY <1>6
  <2>2. Types'
    <3>1. known' \in SUBSET Users
      BY <1>6 DEF Types
    <3> QED BY <1>2, <2>1, <3>1 DEF Types
  <2>3. \A v \in Users : Owned(v)' = Owned(v)
    BY <2>1 DEF Owned
  <2>4. World'
    BY <2>1 DEF World, OwnersAreMarked, OwnersArePresent
  <2>5. Claiming'
    <3>1. ClaimsAreEntitled'
      BY <1>1, <1>2, <2>1, <2>3 DEF Types, Claiming, ClaimsAreEntitled
    <3>2. ClaimsFollowIntents'
      BY <1>1, <1>2, <2>1 DEF Types, Claiming, ClaimsFollowIntents
    <3>3. DoneIsDone'
      BY <2>1 DEF Types, Claiming, DoneIsDone
    <3> QED BY <3>1, <3>2, <3>3 DEF Claiming
  <2>6. Counting'
    <3>1. ClaimedIsCounted'
      BY <1>1, <1>2 DEF Counting, ClaimedIsCounted
    <3>2. EntitledIsCounted'
      BY <1>6, <2>1, <2>3 DEF Types, Counting, EntitledIsCounted, Counted
    <3>3. WillBeCounted'
      BY <2>1, <2>3 DEF Counting, WillBeCounted, Counted
    <3> QED BY <3>1, <3>2, <3>3 DEF Counting
  <2>7. Within'
    <3>1. \A v \in Users : Held(v)' \subseteq Held(v)
      BY <1>3, <2>1, <2>3 DEF Held
    <3> HIDE DEF Inv, TasksEnd
    <3> QED BY <1>5, <2>2, <3>1, StaysWithin
  <2> QED BY <1>4, <2>2, <2>4, <2>5, <2>6, <2>7 DEF Allowed
<1>7. CASE Winners(r) # {}
  <2> DEFINE Op(u) == [op |-> "insert", user |-> u]
  <2>1. PICK order \in SetToSeqs(Winners(r)) :
          /\ Becomes(r, TRUE, Last(order), Last(order))
          /\ Sends(r, [i \in DOMAIN order |-> [op |-> "insert", user |-> order[i]]])
    BY <1>7
  <2> DEFINE last == Last(order)
             ops == [i \in DOMAIN order |-> [op |-> "insert", user |-> order[i]]]
  <2>2. /\ last \in Winners(r) /\ ops \in Seq(Ops) /\ Range(ops) = {Op(u) : u \in Range(order)}
        /\ Range(order) \subseteq Winners(r) /\ last \in Range(order)
    <3>1. Winners(r) \in SUBSET Users /\ Winners(r) # {}
      BY <1>7 DEF Winners
    <3> HIDE DEF Inv, TasksEnd
    <3> QED BY <3>1, LastWins
  <2>3. sent'[r] = <<>> \o ops /\ \A q \in Rooms : q # r => sent'[q] = sent[q]
    BY <2>1 DEF Sends, Types
  <2> HIDE DEF ops, last
  <2>4. \A v \in Winners(r) : v \in Users /\ v \in entitled /\ v \in present /\ r \in controlled[v] /\ r \in Claimed(v)
    BY DEF Winners, Types, Claiming, ClaimsAreEntitled, Counting, ClaimedIsCounted, Claimed
  <2>5. sent'[r] = ops
    BY <2>2, <2>3, ConcatEmptySeq
  <2>6. /\ level' = [level EXCEPT ![r] = TRUE] /\ roomUser' = [roomUser EXCEPT ![r] = last]
        /\ user' = [user EXCEPT ![r] = last] /\ raced' = raced \ {r} /\ UNCHANGED <<phase, known>>
    BY <1>7, <2>1 DEF Becomes, last
  <2>7. Types'
    <3>1. sent' = [sent EXCEPT ![r] = sent[r] \o ops]
      BY <2>1 DEF Sends, ops
    <3>2. sent' \in [Rooms -> Seq(Ops)]
      BY <2>2, <2>5, <3>1 DEF Types
    <3>3. level' \in [Rooms -> BOOLEAN] /\ roomUser' \in [Rooms -> Users \cup {Nobody}] /\ user' \in [Rooms -> Users \cup {Nobody}]
      BY <2>2, <2>4, <2>6 DEF Types
    <3> QED BY <1>2, <2>6, <3>2, <3>3 DEF Types
  <2>8. \A v \in Users : Owned(v)' = IF v = last THEN Owned(v) \cup {r} ELSE Owned(v) \ {r}
    BY <2>6 DEF Owned, Types
  <2>9. World'
    <3>1. OwnersAreMarked'
      BY <2>2, <2>4, <2>6 DEF World, OwnersAreMarked, Types
    <3>2. \A op \in Range(sent'[r]) : op.user \in present
      BY <2>2, <2>4, <2>5
    <3>3. OwnersArePresent'
      BY <2>2, <2>3, <2>4, <2>6, <3>2 DEF World, OwnersArePresent, Types
    <3> QED BY <3>1, <3>3 DEF World
  <2>10. Claiming'
    <3>1. ClaimsAreEntitled'
      BY <1>1, <1>2, <2>6, <2>8 DEF Claiming, ClaimsAreEntitled
    <3>2. ClaimsFollowIntents'
      BY <1>1, <1>2, <2>3, <2>6 DEF Claiming, ClaimsFollowIntents
    <3>3. DoneIsDone'
      BY <2>3, <2>6 DEF Claiming, DoneIsDone
    <3> QED BY <3>1, <3>2, <3>3 DEF Claiming
  <2>11. ClaimedIsCounted'
    BY <1>1, <1>2 DEF Counting, ClaimedIsCounted
  <2>12. ASSUME NEW v \in Users, NEW q \in Owned(v)'
         PROVE  \/ Counted(q, v)'
                \/ q \in Owned(v) /\ q # r /\ sent'[q] = sent[q] /\ (Counted(q, v) => Counted(q, v)')
    <3>1. CASE q = r
      <4>1. v = last
        BY <2>8, <2>12, <3>1
      <4>2. [op |-> "remove", user |-> v] \notin Range(sent'[q])
        BY <2>2, <2>5, <3>1
      <4> QED BY <2>2, <2>4, <3>1, <4>1, <4>2 DEF Counted
    <3>2. CASE q # r
      <4>1. q \in Owned(v) /\ q \in Rooms
        BY <2>8, <2>12, <3>2 DEF Owned
      <4> QED BY <2>3, <3>2, <4>1 DEF Counted
    <3> QED BY <3>1, <3>2
  <2>13. EntitledIsCounted' /\ WillBeCounted'
    <3>1. WillBeCounted'
      BY <2>12 DEF Counting, WillBeCounted
    <3>2. EntitledIsCounted'
      <4> SUFFICES ASSUME NEW v \in entitled, NEW q \in (Owned(v) \ raced)' PROVE Counted(q, v)'
        BY DEF EntitledIsCounted
      <4>1. v \in Users /\ q \in Owned(v)'
        BY DEF Types
      <4>2. q # r => q \notin raced
        BY <2>6
      <4> QED BY <2>12, <4>1, <4>2 DEF Counting, EntitledIsCounted
    <3> QED BY <3>1, <3>2
  <2>14. Within'
    <3>1. \A v \in Users : Held(v)' \subseteq Held(v)
      BY <1>3, <2>2, <2>4, <2>6, <2>8 DEF Held
    <3> HIDE DEF Inv, TasksEnd
    <3> QED BY <1>5, <2>7, <3>1, StaysWithin
  <2> QED BY <1>4, <2>7, <2>9, <2>10, <2>11, <2>13, <2>14 DEF Counting, Allowed
<1> QED BY <1>6, <1>7

(* the next tick: nothing is under way *)
LEMMA NextTickInv ==
  ASSUME Inv, NextTick
  PROVE  Inv'
<1> USE DEF Inv, NextTick, world
<1>1. \A r \in Rooms : sent[r] = <<>> /\ \A u \in Users : task[r][u].pc = "none"
  BY DEF Claiming, ClaimsAreEntitled, DoneIsDone
<1>2. PICK gone \in SUBSET present : (\A u \in gone, r \in Rooms : roomUser[r] # u) /\ present' = present \ gone
  OBVIOUS
<1>3. entitled' \in SUBSET present' /\ present' \in SUBSET Users
  BY <1>2 DEF Types
<1>4. Types'
  BY <1>3 DEF Types
<1>5. \A v \in Users : Owned(v)' = Owned(v) /\ Held(v)' = Held(v)
  BY DEF Owned, Claimed, Held
<1>6. World'
  BY <1>1, <1>2, RangeEmpty DEF World, OwnersAreMarked, OwnersArePresent
<1>7. Claiming'
  BY <1>1 DEF Claiming, ClaimsAreEntitled, ClaimsFollowIntents, DoneIsDone
<1>8. \A u \in Users : \A r \in Owned(u) : Counted(r, u)
  <2> SUFFICES ASSUME NEW u \in Users, NEW r \in Owned(u) PROVE Counted(r, u)
    OBVIOUS
  <2>1. sent[r] = <<>>
    BY <1>1 DEF Owned
  <2> QED BY <2>1, NothingEnds DEF Counting, WillBeCounted
<1>9. Counting'
  <2>1. ClaimedIsCounted'
    BY DEF Counting, ClaimedIsCounted
  <2>2. \A u \in Users : \A r \in Owned(u)' : Counted(r, u)'
    BY <1>5, <1>8 DEF Counted
  <2>3. EntitledIsCounted' /\ WillBeCounted'
    BY <1>3, <2>2 DEF EntitledIsCounted, WillBeCounted
  <2> QED BY <2>1, <2>3 DEF Counting
<1>10. Allowed'
  <2>1. CapacityIsAllowed'
    BY DEF Allowed, CapacityIsAllowed
  <2>2. /\ \A v \in Users : Held(v)' \subseteq Held(v)
        /\ \A v \in Users : gcl'[v] >= gcl[v]
    BY <1>5 DEF Types
  <2>3. Within'
    <3> HIDE DEF Inv, NextTick
    <3> QED BY <1>4, <2>2, StaysWithin
  <2> QED BY <2>1, <2>3 DEF Allowed
<1> QED BY <1>4, <1>6, <1>7, <1>9, <1>10
-----------------------------------------------------------------------------
(* what every step preserves *)
LEMMA NextInv == Inv /\ [Next]_vars => Inv'
<1> SUFFICES ASSUME Inv, [Next]_vars PROVE Inv'  OBVIOUS
<1>1. CASE UNCHANGED vars
  BY <1>1 DEF vars, world, spawns, Inv, Types, World, OwnersAreMarked, OwnersArePresent, Claiming, ClaimsAreEntitled,
     ClaimsFollowIntents, DoneIsDone, Counting, ClaimedIsCounted, EntitledIsCounted, WillBeCounted, Allowed,
     CapacityIsAllowed, Within, Owned, Claimed, Held, Counted
<1>2. ASSUME NEW r \in Rooms, NEW u \in Users,
             ClaimController(r, u) \/ ReserveController(r, u) \/ AsksSpawn(r, u) \/ PlaceSpawn(r, u)
      PROVE  Inv'
  BY <1>2, ClaimControllerInv, ReserveControllerInv, AsksSpawnInv, PlaceSpawnInv
<1>3. ASSUME NEW r \in Rooms, NEW u \in Users,
             \/ ReadsCount(r, u) \/ ReadsLevel(r, u) \/ Decides(r, u)
             \/ Inserts(r, u) \/ Recounts(r, u) \/ Withdraws(r, u)
      PROVE  Inv'
  BY <1>3, ReadsCountInv, ReadsLevelInv, DecidesInv, InsertsInv, RecountsInv, WithdrawsInv
<1>4. ASSUME NEW r \in Rooms, LosesRoom(r) \/ IntentsEnd(r) \/ StoreHandles(r) \/ TasksEnd(r)
      PROVE  Inv'
  BY <1>4, LosesRoomInv, IntentsEndInv, StoreHandlesInv, TasksEndInv
<1>5. ASSUME NEW u \in Users, GainsLevel(u) PROVE Inv'
  BY <1>5, GainsLevelInv
<1>6. CASE NextTick
  BY <1>6, NextTickInv
<1> QED BY <1>1, <1>2, <1>3, <1>4, <1>5, <1>6 DEF Next

(* the inductive invariant *)
LEMMA Invariant == Spec => []Inv
BY InitInv, NextInv, PTL DEF Spec

(* Claims, losses and first spawns of any number of rooms and users, in      *)
(* whatever order the stores are read and written: nobody has more rooms     *)
(* than his level allows (claimController), those apart that he was given by *)
(* a spawn when he was in the world already.                                 *)
THEOREM StaysWithinLevel == Spec => []NeverOverLevel
<1>1. ASSUME Inv PROVE NeverOverLevel
  <2> SUFFICES ASSUME NEW u \in Users PROVE Cardinality(Owned(u) \ raced) <= gcl[u]
    BY DEF NeverOverLevel
  <2>1. Held(u) \in SUBSET Rooms /\ Owned(u) \ raced \in SUBSET Held(u)
    BY DEF Owned, Claimed, Held
  <2>2. /\ Cardinality(Owned(u) \ raced) \in Nat /\ Cardinality(Held(u)) \in Nat
        /\ Cardinality(Owned(u) \ raced) <= Cardinality(Held(u))
    BY <2>1, RoomsAreFinite
  <2>3. Cardinality(Held(u)) <= gcl[u] /\ gcl[u] \in Nat
    BY <1>1 DEF Inv, Allowed, Within, Types
  <2> QED BY <2>2, <2>3
<1> QED BY <1>1, Invariant, PTL

(* When a room's tick has ended, its owner's set has it, whatever claims,   *)
(* releases and spawns met in it (insertControlledRoom, release).           *)
THEOREM CountsEveryRoom == Spec => []OwnedIsCounted
<1>1. ASSUME Inv PROVE OwnedIsCounted
  BY <1>1, NothingEnds DEF Inv, Claiming, DoneIsDone, Counting, WillBeCounted, Counted, OwnedIsCounted
<1> QED BY <1>1, Invariant, PTL
=============================================================================
