------------------------------ MODULE ModsProofs ------------------------------
(***************************************************************************)
(* Theorems about mods, for all values of the constants: no creep gets     *)
(* lost between rooms (Crossing), a roster of power creeps and its runner  *)
(* agree (Roster), what is sent to a terminal fits (Terminals),            *)
(* notifications are neither stranded nor miscounted (Notifications), and  *)
(* creeps neither collide nor block one another for nothing (Movement).    *)
(* They share no state.                                                    *)
(***************************************************************************)
EXTENDS ModsParts, Integers, Sequences, FiniteSetsExt, FiniteSetTheorems, WellFoundedInduction, TLAPS

-----------------------------------------------------------------------------
(***************************************************************************)
(* Sums over finite sets: MapThenSumSet is defined by recursion over the   *)
(* subsets of its set, so induction over them proves what follows.         *)
(***************************************************************************)
Sum(f, S) == MapThenSumSet(LAMBDA x : f[x], S)

\* the recursive function behind MapThenSumSet
Picked(s) == CHOOSE x \in s : TRUE
SumStep(g, f, s) == IF s = {} THEN 0 ELSE f[Picked(s)] + g[s \ {Picked(s)}]
Summing(g, f, S) == g = [s \in SUBSET S |-> SumStep(g, f, s)]

(* the least element of a set of numbers is one of them *)
LEMMA LeastIsThere ==
  ASSUME NEW S \in SUBSET Nat, S # {}
  PROVE  Min(S) \in S /\ \A n \in S : Min(S) <= n
<1>1. PICK m \in S : \A n \in S : ~ (<<n, m>> \in OpToRel(<, Nat))
  BY NatLessThanWellFounded, WFMin
<1>2. \A n \in S : m <= n
  <2> SUFFICES ASSUME NEW n \in S PROVE m <= n
    OBVIOUS
  <2>1. n \in Nat /\ m \in Nat /\ <<n, m>> \in Nat \X Nat
    OBVIOUS
  <2>2. n < m => <<n, m>> \in OpToRel(<, Nat)
    BY <2>1 DEF OpToRel
  <2>3. ~ (n < m)
    BY <1>1, <2>2, Zenon
  <2> QED BY <2>1, <2>3
<1> QED BY <1>1, <1>2 DEF Min

(* Induction over the subsets of a finite set, for a set of them: each is  *)
(* in Q if it is whenever all that lack one of its elements are.           *)
LEMMA SubsetInduction ==
  ASSUME NEW U, IsFiniteSet(U), NEW Q,
         \A s \in SUBSET U : (\A x \in s : s \ {x} \in Q) => s \in Q
  PROVE  \A s \in SUBSET U : s \in Q
<1> SUFFICES ASSUME NEW t \in SUBSET U, t \notin Q PROVE FALSE
  OBVIOUS
<1> DEFINE others == {s \in SUBSET U : s \notin Q}
           sizes == {Cardinality(s) : s \in others}
<1>1. \A s \in SUBSET U : IsFiniteSet(s) /\ Cardinality(s) \in Nat
  BY FS_Subset, FS_CardinalityType
<1>2. sizes \in SUBSET Nat /\ sizes # {}
  BY <1>1
<1> DEFINE least == Min(sizes)
<1>3. least \in sizes /\ \A n \in sizes : least <= n
  <2> HIDE DEF sizes
  <2> QED BY <1>2, LeastIsThere
<1> HIDE DEF least
<1>4. PICK s \in others : Cardinality(s) = least
  BY <1>3
<1>5. ASSUME NEW x \in s PROVE s \ {x} \in Q
  <2>1. s \ {x} \in SUBSET U /\ Cardinality(s \ {x}) = Cardinality(s) - 1 /\ Cardinality(s) \in Nat
    BY <1>1, FS_RemoveElement
  <2>2. Cardinality(s \ {x}) \in sizes => Cardinality(s) <= Cardinality(s \ {x})
    BY <1>3, <1>4
  <2>3. Cardinality(s \ {x}) \notin sizes
    <3> HIDE DEF sizes, others
    <3> QED BY <2>1, <2>2
  <2> QED BY <2>1, <2>3
<1> QED BY <1>4, <1>5

(* a pair has two elements *)
LEMMA TwoElements == ASSUME NEW x, NEW y, x # y PROVE Cardinality({x, y}) = 2
<1>1. IsFiniteSet({x}) /\ Cardinality({x}) = 1 /\ {x, y} = {x} \cup {y} /\ y \notin {x}
  BY FS_Singleton
<1>2. Cardinality({x} \cup {y}) = Cardinality({x}) + 1
  BY <1>1, FS_AddElement, Zenon
<1> QED BY <1>1, <1>2

(* induction over numbers, for a set of them *)
LEMMA SetOfNumbers ==
  ASSUME NEW T, 0 \in T, \A n \in Nat : n \in T => n + 1 \in T
  PROVE  \A n \in Nat : n \in T
<1> SUFFICES ASSUME NEW k \in Nat, k \notin T PROVE FALSE
  OBVIOUS
<1> DEFINE rest == Nat \ T
<1>1. Min(rest) \in rest /\ \A n \in rest : Min(rest) <= n
  BY LeastIsThere
<1>2. PICK m \in rest : \A n \in rest : m <= n
  BY <1>1
<1>3. m # 0 /\ m - 1 \in Nat /\ m - 1 + 1 = m /\ ~ (m <= m - 1)
  BY <1>2
<1> QED BY <1>2, <1>3

(* a sum is the value of such a function *)
LEMMA SumIs == ASSUME NEW f, NEW S PROVE Sum(f, S) = (CHOOSE g : Summing(g, f, S))[S]
  BY DEF Sum, Summing, SumStep, Picked, MapThenSumSet, MapThenFoldSet

(* which exists *)
LEMMA SummingExists ==
  ASSUME NEW f, NEW U, IsFiniteSet(U)
  PROVE  \E g : Summing(g, f, U)
<1> DEFINE Up(g, n) == \A s \in SUBSET U : Cardinality(s) <= n => g[s] = SumStep(g, f, s)
           T == {n \in Nat : \E g : Up(g, n)}
<1>1. \A s \in SUBSET U : IsFiniteSet(s) /\ Cardinality(s) \in Nat /\ (Cardinality(s) = 0 <=> s = {})
  BY FS_Subset, FS_CardinalityType, FS_EmptySet
<1>2. 0 \in T
  <2> DEFINE g == [s \in SUBSET U |-> 0]
  <2>1. Up(g, 0)
    BY <1>1 DEF SumStep
  <2> QED BY <2>1
<1>3. ASSUME NEW n \in Nat, n \in T PROVE n + 1 \in T
  <2>1. PICK g : Up(g, n)
    BY <1>3
  <2> DEFINE h == [s \in SUBSET U |-> SumStep(g, f, s)]
  <2>2. ASSUME NEW s \in SUBSET U, Cardinality(s) <= n + 1 PROVE h[s] = SumStep(h, f, s)
    <3>1. CASE s = {}
      BY <3>1 DEF SumStep
    <3>2. CASE s # {}
      <4> DEFINE t == s \ {Picked(s)}
      <4>1. Picked(s) \in s
        BY <3>2 DEF Picked
      <4>2. t \in SUBSET U /\ Cardinality(t) = Cardinality(s) - 1
        BY <1>1, <4>1, FS_RemoveElement
      <4>3. Cardinality(t) <= n
        BY <1>1, <2>2, <4>2
      <4>4. h[t] = g[t]
        <5> HIDE DEF t
        <5> QED BY <2>1, <4>2, <4>3
      <4> QED BY <3>2, <4>4 DEF SumStep
    <3> QED BY <3>1, <3>2
  <2>3. Up(h, n + 1)
    <3> HIDE DEF h
    <3> QED BY <2>2
  <2>4. \E k : Up(k, n + 1)
    <3> HIDE DEF h, Up
    <3> QED BY <2>3
  <2> HIDE DEF Up
  <2> QED BY <2>4
<1>4. Cardinality(U) \in T
  <2> HIDE DEF T
  <2> QED BY <1>1, <1>2, <1>3, SetOfNumbers
<1>5. PICK g : Up(g, Cardinality(U))
  BY <1>4
<1>6. \A s \in SUBSET U : g[s] = SumStep(g, f, s)
  BY <1>5, FS_Subset
<1> DEFINE h == [s \in SUBSET U |-> g[s]]
<1>7. ASSUME NEW s \in SUBSET U PROVE h[s] = SumStep(h, f, s)
  <2>1. s \ {Picked(s)} \in SUBSET U
    OBVIOUS
  <2> QED BY <1>6, <2>1 DEF SumStep
<1>8. h = [s \in SUBSET U |-> h[s]]
  OBVIOUS
<1>9. Summing(h, f, U)
  <2> HIDE DEF h
  <2> QED BY <1>7, <1>8 DEF Summing
<1> QED BY <1>9

(* and does not depend on what is not summed *)
LEMMA SummingAgree ==
  ASSUME NEW f, NEW e, NEW S, NEW g, NEW h, NEW U, IsFiniteSet(U), U \subseteq S,
         Summing(g, f, S), Summing(h, e, U), \A x \in U : f[x] = e[x]
  PROVE  g[U] = h[U]
<1> DEFINE Q == {s \in SUBSET U : g[s] = h[s]}
<1>1. ASSUME NEW s \in SUBSET U, \A x \in s : s \ {x} \in Q PROVE s \in Q
  <2>1. g[s] = SumStep(g, f, s) /\ h[s] = SumStep(h, e, s)
    <3>1. s \in SUBSET S
      OBVIOUS
    <3> QED BY <3>1 DEF Summing
  <2>2. s # {} => Picked(s) \in s
    BY DEF Picked
  <2> QED BY <1>1, <2>1, <2>2 DEF SumStep
<1>2. \A s \in SUBSET U : s \in Q
  <2> HIDE DEF Q
  <2> QED BY <1>1, SubsetInduction
<1> QED BY <1>2

(* equal summands have equal sums *)
LEMMA SumSame ==
  ASSUME NEW f, NEW e, NEW S, IsFiniteSet(S), \A x \in S : f[x] = e[x]
  PROVE  Sum(f, S) = Sum(e, S)
<1> DEFINE g == CHOOSE k : Summing(k, f, S)
           h == CHOOSE k : Summing(k, e, S)
<1>1. Summing(g, f, S) /\ Summing(h, e, S)
  BY SummingExists
<1>2. Sum(f, S) = g[S] /\ Sum(e, S) = h[S]
  BY SumIs
<1> HIDE DEF g, h
<1>3. g[S] = h[S]
  BY <1>1, SummingAgree
<1> QED BY <1>2, <1>3

(* a sum of integers is one; whichever is taken out first *)
LEMMA SumOut ==
  ASSUME NEW f, NEW S, IsFiniteSet(S), \A x \in S : f[x] \in Int
  PROVE  /\ Sum(f, S) \in Int
         /\ Sum(f, {}) = 0
         /\ \A a \in S : Sum(f, S) = f[a] + Sum(f, S \ {a})
<1>1. PICK g : Summing(g, f, S)
  BY SummingExists
<1>2. ASSUME NEW s \in SUBSET S PROVE Sum(f, s) = g[s]
  <2>1. IsFiniteSet(s)
    BY FS_Subset
  <2> DEFINE h == CHOOSE k : Summing(k, f, s)
  <2>2. Summing(h, f, s)
    BY <2>1, SummingExists
  <2>3. Sum(f, s) = h[s]
    BY SumIs
  <2> HIDE DEF h
  <2>4. g[s] = h[s]
    BY <1>1, <2>1, <2>2, SummingAgree
  <2> QED BY <2>3, <2>4
<1> DEFINE Whole == {s \in SUBSET S : g[s] \in Int}
           Q == {s \in SUBSET S : \A a \in s : g[s] = f[a] + g[s \ {a}]}
<1>3. ASSUME NEW s \in SUBSET S PROVE g[s] = SumStep(g, f, s) /\ (s # {} => Picked(s) \in s)
  BY <1>1 DEF Summing, Picked
<1>4. ASSUME NEW s \in SUBSET S, \A x \in s : s \ {x} \in Whole PROVE s \in Whole
  <2>1. CASE s = {}
    <3>1. g[s] = 0
      BY <1>3, <2>1 DEF SumStep
    <3> QED BY <3>1
  <2>2. CASE s # {}
    <3> DEFINE x == f[Picked(s)] y == g[s \ {Picked(s)}]
    <3>1. g[s] = x + y /\ x \in Int /\ y \in Int
      BY <1>3, <1>4, <2>2 DEF SumStep
    <3> HIDE DEF x, y
    <3> QED BY <3>1
  <2> QED BY <2>1, <2>2
<1>5. \A s \in SUBSET S : g[s] \in Int
  <2>1. \A s \in SUBSET S : s \in Whole
    <3> HIDE DEF Whole
    <3> QED BY <1>4, SubsetInduction
  <2> QED BY <2>1
<1>6. ASSUME NEW s \in SUBSET S, \A x \in s : s \ {x} \in Q PROVE s \in Q
  <2> SUFFICES ASSUME NEW a \in s PROVE g[s] = f[a] + g[s \ {a}]
    OBVIOUS
  <2> DEFINE p == Picked(s)
  <2>1. p \in s /\ g[s] = f[p] + g[s \ {p}]
    BY <1>3 DEF SumStep
  <2> HIDE DEF p
  <2>2. CASE a = p
    BY <2>1, <2>2
  <2>3. CASE a # p
    <3> DEFINE r == (s \ {a}) \ {p}
    <3>1. a \in s \ {p} /\ p \in s \ {a} /\ (s \ {p}) \ {a} = r
      BY <2>1, <2>3
    <3>2. g[s \ {p}] = f[a] + g[r] /\ g[s \ {a}] = f[p] + g[r]
      BY <1>6, <2>1, <3>1
    <3>3. f[a] \in Int /\ f[p] \in Int /\ g[r] \in Int
      BY <1>5, <2>1
    <3> HIDE DEF r
    <3> DEFINE x == f[a] y == f[p] z == g[r]
    <3>4. y + (x + z) = x + (y + z)
      <4>1. x \in Int /\ y \in Int /\ z \in Int
        BY <3>3
      <4> HIDE DEF x, y, z
      <4> QED BY <4>1
    <3> QED BY <2>1, <3>2, <3>4
  <2> QED BY <2>2, <2>3
<1>7. \A s \in SUBSET S : \A a \in s : g[s] = f[a] + g[s \ {a}]
  <2>1. \A s \in SUBSET S : s \in Q
    <3> HIDE DEF Q
    <3> QED BY <1>6, SubsetInduction
  <2> QED BY <2>1
<1>8. g[{}] = 0
  BY <1>3 DEF SumStep
<1> QED BY <1>2, <1>5, <1>7, <1>8

(* one summand changes *)
LEMMA SumChanges ==
  ASSUME NEW f, NEW e, NEW S, IsFiniteSet(S), NEW a \in S, \A x \in S : f[x] \in Int /\ e[x] \in Int,
         \A x \in S : x # a => e[x] = f[x]
  PROVE  Sum(e, S) = Sum(f, S) + (e[a] - f[a]) /\ Sum(f, S) \in Int
<1>1. IsFiniteSet(S \ {a})
  BY FS_RemoveElement
<1>2. Sum(f, S) = f[a] + Sum(f, S \ {a}) /\ Sum(f, S) \in Int /\ Sum(f, S \ {a}) \in Int
  BY <1>1, SumOut
<1>3. Sum(e, S) = e[a] + Sum(e, S \ {a})
  BY <1>1, SumOut
<1>4. Sum(e, S \ {a}) = Sum(f, S \ {a})
  BY <1>1, SumSame
<1> DEFINE x == f[a] y == e[a] z == Sum(f, S \ {a})
<1>5. y + z = (x + z) + (y - x)
  <2>1. x \in Int /\ y \in Int /\ z \in Int
    BY <1>2
  <2> HIDE DEF x, y, z
  <2> QED BY <2>1
<1> QED BY <1>2, <1>3, <1>4, <1>5

(* a sum of natural numbers is one, and not less than any of them; of zeros it is zero *)
LEMMA SumNatural ==
  ASSUME NEW f, NEW S, IsFiniteSet(S), \A x \in S : f[x] \in Nat
  PROVE  /\ Sum(f, S) \in Nat
         /\ (\A x \in S : f[x] = 0) => Sum(f, S) = 0
<1> DEFINE Q == {s \in SUBSET S : Sum(f, s) \in Nat /\ ((\A x \in S : f[x] = 0) => Sum(f, s) = 0)}
<1>1. ASSUME NEW s \in SUBSET S, \A x \in s : s \ {x} \in Q PROVE s \in Q
  <2>1. IsFiniteSet(s) /\ (\A x \in s : f[x] \in Int)
    BY FS_Subset
  <2>2. CASE s = {}
    <3>1. Sum(f, s) = 0
      BY <2>1, <2>2, SumOut
    <3> QED BY <3>1
  <2>3. CASE s # {}
    <3>1. PICK a \in s : TRUE
      BY <2>3
    <3> DEFINE x == f[a] y == Sum(f, s \ {a})
    <3>2. Sum(f, s) = x + y
      BY <2>1, SumOut
    <3>3. x \in Nat /\ y \in Nat /\ ((\A z \in S : f[z] = 0) => x = 0 /\ y = 0)
      BY <1>1
    <3>4. Sum(f, s) \in Nat /\ ((\A z \in S : f[z] = 0) => Sum(f, s) = 0)
      <4> HIDE DEF x, y
      <4> QED BY <3>2, <3>3
    <3> QED BY <3>4
  <2> QED BY <2>2, <2>3
<1>2. \A s \in SUBSET S : s \in Q
  <2> HIDE DEF Q
  <2> QED BY <1>1, SubsetInduction
<1> QED BY <1>2

(* a sum over two parts *)
LEMMA SumParts ==
  ASSUME NEW f, NEW S, IsFiniteSet(S), NEW A \in SUBSET S, \A x \in S : f[x] \in Int
  PROVE  Sum(f, S) = Sum(f, A) + Sum(f, S \ A) /\ Sum(f, A) \in Int /\ Sum(f, S \ A) \in Int
<1> DEFINE Q == {s \in SUBSET S : Sum(f, S) = Sum(f, s) + Sum(f, S \ s)}
<1>1. ASSUME NEW s \in SUBSET S
      PROVE  IsFiniteSet(s) /\ Sum(f, s) \in Int /\ Sum(f, S \ s) \in Int /\ IsFiniteSet(S \ s)
  <2>1. IsFiniteSet(s) /\ IsFiniteSet(S \ s)
    <3>1. S \ s \in SUBSET S
      OBVIOUS
    <3> QED BY <3>1, FS_Subset
  <2> QED BY <2>1, SumOut
<1>2. ASSUME NEW s \in SUBSET S, \A x \in s : s \ {x} \in Q PROVE s \in Q
  <2>1. CASE s = {}
    <3>1. Sum(f, s) = 0 /\ S \ s = S /\ Sum(f, S) \in Int
      BY <2>1, SumOut
    <3>2. Sum(f, S \ s) = Sum(f, S)
      BY <3>1
    <3> DEFINE x == Sum(f, S)
    <3>3. 0 + x = x
      <4>1. x \in Int
        BY <3>1
      <4> HIDE DEF x
      <4> QED BY <4>1
    <3> QED BY <3>1, <3>2, <3>3
  <2>2. CASE s # {}
    <3>1. PICK a \in s : TRUE
      BY <2>2
    <3> DEFINE x == f[a] y == Sum(f, s \ {a}) z == Sum(f, S \ s)
    <3>2. Sum(f, s) = x + y
      <4>1. IsFiniteSet(s) /\ \A w \in s : f[w] \in Int
        BY <1>1
      <4> QED BY <4>1, SumOut
    <3>3. Sum(f, S \ (s \ {a})) = x + z
      <4>1. (S \ (s \ {a})) \ {a} = S \ s /\ a \in S \ (s \ {a})
        OBVIOUS
      <4>2. IsFiniteSet(S \ (s \ {a})) /\ \A w \in S \ (s \ {a}) : f[w] \in Int
        <5>1. S \ (s \ {a}) \in SUBSET S
          OBVIOUS
        <5> QED BY <1>1, <5>1
      <4> QED BY <4>1, <4>2, SumOut
    <3>4. Sum(f, S) = y + (x + z)
      BY <1>2, <3>3
    <3>5. x \in Int /\ y \in Int /\ z \in Int
      <4>1. s \ {a} \in SUBSET S
        OBVIOUS
      <4> QED BY <1>1, <4>1
    <3>6. y + (x + z) = (x + y) + z
      <4> HIDE DEF x, y, z
      <4> QED BY <3>5
    <3> QED BY <3>2, <3>4, <3>6
  <2> QED BY <2>1, <2>2
<1>3. \A s \in SUBSET S : s \in Q
  <2> HIDE DEF Q
  <2> QED BY <1>2, SubsetInduction
<1> QED BY <1>1, <1>3
-----------------------------------------------------------------------------
(***************************************************************************)
(* Creeps between rooms.                                                   *)
(***************************************************************************)
Phases == {"asleep", "queued", "sending", "marking", "processed", "woken", "finalized"}

Types ==
  /\ tick \in Nat
  /\ crossing \in [Sectors -> Phases]
  /\ blob \in [(0..1) \X Sectors -> SUBSET Travellers]
  /\ cached \in [Sectors -> (SUBSET Travellers) \cup {None}]
  /\ live \in [Sectors -> SUBSET Travellers]
  /\ updated \in [Sectors -> BOOLEAN]
  /\ outbox \in [Sectors -> SUBSET (Travellers \X Sectors)]
  /\ fresh \in [Sectors -> SUBSET Sectors]
  /\ finalIntents \in [Sectors -> SUBSET Travellers]
  /\ processing \subseteq Sectors /\ extra \subseteq Sectors /\ active \subseteq Sectors /\ dead \subseteq Travellers
-----------------------------------------------------------------------------
(***************************************************************************)
(* The order of the steps                                                  *)
(***************************************************************************)
OutboxSends == \A r \in Sectors : outbox[r] # {} => crossing[r] = "sending"
FreshMarks == \A r \in Sectors : fresh[r] # {} => crossing[r] = "marking"

\* what was sent is in a list that somebody is to take
IntentsWait == \A r \in Sectors : finalIntents[r] # {} => r \in processing /\ crossing[r] # "finalized"

\* and who sent it has begun to be processed
IntentsFollow == (\E r \in Sectors : finalIntents[r] # {}) => ~Cross!Resting

AwakeIsProcessing == \A r \in Sectors : crossing[r] # "asleep" => r \in processing
SleepersWake ==
  \A r \in processing : crossing[r] = "asleep" => r \in extra \/ \E q \in Sectors : r \in fresh[q]
ExtraSleeps == /\ \A r \in extra : r \in processing /\ crossing[r] = "asleep"
               /\ \A q \in Sectors : \A r \in fresh[q] : r \in processing /\ crossing[r] = "asleep"

ProcessedBeforeFinalized == (\E r \in Sectors : crossing[r] \in {"woken", "finalized"}) => Cross!AllProcessed

Order == /\ OutboxSends /\ FreshMarks /\ IntentsWait /\ IntentsFollow
         /\ AwakeIsProcessing /\ SleepersWake /\ ExtraSleeps /\ ProcessedBeforeFinalized
-----------------------------------------------------------------------------
(***************************************************************************)
(* What is stored                                                          *)
(***************************************************************************)
Now(r) == blob[Cross!Key(r, tick)]
Later(r) == blob[Cross!Key(r, tick + 1)]

KeptIsNow == \A r \in Sectors : crossing[r] # "finalized" /\ cached[r] # None => cached[r] = Now(r)
UnchangedIsNow ==
  \A r \in Sectors : crossing[r] \in {"sending", "marking", "processed", "woken"} /\ ~updated[r] => live[r] = Now(r)
FinalIsLater == \A r \in Sectors : crossing[r] = "finalized" => live[r] = Later(r)

AwakeIsActive == \A r \in Sectors : crossing[r] \in {"queued", "sending", "marking", "processed"} => r \in active
SleepersAreEmpty ==
  \A r \in Sectors : crossing[r] \in {"asleep", "woken"} \/ (crossing[r] = "finalized" /\ r \notin active)
                     => Now(r) = {} /\ Later(r) = {}
WokenIsEmpty == \A r \in Sectors : crossing[r] = "woken" => live[r] = {}

Storage == /\ KeptIsNow /\ UnchangedIsNow /\ FinalIsLater
           /\ AwakeIsActive /\ SleepersAreEmpty /\ WokenIsEmpty
-----------------------------------------------------------------------------
(***************************************************************************)
(* Where creeps are                                                        *)
(***************************************************************************)
InRoom(c, r) == c \in Cross!Contents(r)
Sent(c, r, q) == <<c, q>> \in outbox[r]
Announced(c, r) == c \in finalIntents[r]

OneRoom == \A c \in Travellers : \A r, q \in Sectors : InRoom(c, r) /\ InRoom(c, q) => r = q
OneLetter ==
  \A c \in Travellers : \A r, s, q, t \in Sectors : Sent(c, r, s) /\ Sent(c, q, t) => r = q /\ s = t
OneIntent == \A c \in Travellers : \A r, q \in Sectors : Announced(c, r) /\ Announced(c, q) => r = q
NotBoth ==
  \A c \in Travellers : \A r, q, s \in Sectors :
    /\ ~(InRoom(c, r) /\ Sent(c, q, s))
    /\ ~(InRoom(c, r) /\ Announced(c, q))
    /\ ~(Announced(c, r) /\ Sent(c, q, s))
DeadOrSomewhere ==
  \A c \in Travellers :
    c \notin dead <=> \E r \in Sectors : InRoom(c, r) \/ Announced(c, r) \/ \E q \in Sectors : Sent(c, r, q)

Alone == OneRoom /\ OneLetter /\ OneIntent /\ NotBoth /\ DeadOrSomewhere

Inv == Types /\ Order /\ Storage /\ Alone
-----------------------------------------------------------------------------
(***************************************************************************)
(* Lemmas                                                                  *)
(***************************************************************************)
\* the two sides of the double buffer
LEMMA Sides ==
  ASSUME NEW t \in Nat, NEW r \in Sectors, NEW q \in Sectors
  PROVE  /\ Cross!Key(r, t) \in (0..1) \X Sectors
         /\ Cross!Key(r, t) # Cross!Key(q, t + 1)
         /\ Cross!Key(r, t + 2) = Cross!Key(r, t)
         /\ Cross!Key(r, t) = Cross!Key(q, t) => r = q
<1>1. t % 2 \in 0..1 /\ (t + 1) % 2 # t % 2 /\ (t + 2) % 2 = t % 2
  BY SMT
<1>2. QED
  BY <1>1 DEF Cross!Key

\* a room has users when it has creeps
LEMMA NoUsers ==
  ASSUME NEW creeps PROVE (Cross!UsersIn(creeps) = {}) <=> (creeps = {})
BY DEF Cross!UsersIn

\* the invariant says where a room's creeps are
LEMMA ContentsTyped ==
  ASSUME Types, NEW r \in Sectors
  PROVE  Cross!Contents(r) \subseteq Travellers /\ Now(r) \subseteq Travellers /\ Later(r) \subseteq Travellers
<1>1. tick + 1 \in Nat
  BY DEF Types
<1>2. Cross!Key(r, tick) \in (0..1) \X Sectors /\ Cross!Key(r, tick + 1) \in (0..1) \X Sectors
  BY <1>1, Sides DEF Types
<1>3. QED
  BY <1>2 DEF Types, Cross!Contents, Now, Later
-----------------------------------------------------------------------------
(***************************************************************************)
(* Init                                                                    *)
(***************************************************************************)
\* all rooms begin awake and nothing is on its way
LEMMA InitInv == ASSUME Cross!Init PROVE Inv
<1>0. PICK born \in SUBSET Travellers : \E place \in [born -> Sectors] :
        /\ blob = [k \in (0..1) \X Sectors |-> {c \in born : place[c] = k[2]}]
        /\ dead = Travellers \ born
  BY DEF Cross!Init
<1>1. PICK place \in [born -> Sectors] :
        /\ blob = [k \in (0..1) \X Sectors |-> {c \in born : place[c] = k[2]}]
        /\ dead = Travellers \ born
  BY <1>0
<1>2. Types
  <2>1. blob \in [(0..1) \X Sectors -> SUBSET Travellers] /\ dead \subseteq Travellers
    BY <1>1
  <2>2. tick \in Nat /\ crossing \in [Sectors -> Phases] /\ cached \in [Sectors -> (SUBSET Travellers) \cup {None}]
    BY DEF Cross!Init, Phases
  <2>3. /\ live \in [Sectors -> SUBSET Travellers] /\ updated \in [Sectors -> BOOLEAN]
        /\ outbox \in [Sectors -> SUBSET (Travellers \X Sectors)]
        /\ fresh \in [Sectors -> SUBSET Sectors] /\ finalIntents \in [Sectors -> SUBSET Travellers]
        /\ processing \subseteq Sectors /\ extra \subseteq Sectors /\ active \subseteq Sectors
    BY DEF Cross!Init, Cross!Empty
  <2>4. QED
    BY <2>1, <2>2, <2>3 DEF Types
<1>3. \A r \in Sectors : Cross!Key(r, tick) \in (0..1) \X Sectors /\ Now(r) = {c \in born : place[c] = r}
  <2>1. \A r \in Sectors : Cross!Key(r, tick) \in (0..1) \X Sectors /\ Cross!Key(r, tick)[2] = r
    BY <1>2, Sides DEF Types, Cross!Key
  <2>2. QED
    BY <2>1, <1>1 DEF Now
<1>4. \A r \in Sectors : Cross!Contents(r) = {c \in born : place[c] = r}
  BY <1>3 DEF Cross!Contents, Now, Cross!Init
<1>5. Order
  BY DEF Cross!Init, Cross!Empty, Order, OutboxSends, FreshMarks, IntentsWait, IntentsFollow,
     AwakeIsProcessing,
         SleepersWake, ExtraSleeps, ProcessedBeforeFinalized
<1>6. Storage
  BY DEF Cross!Init, Cross!Empty, Storage, KeptIsNow, UnchangedIsNow, FinalIsLater, AwakeIsActive,
     SleepersAreEmpty, WokenIsEmpty
<1>7. Alone
  <2>1. \A c \in Travellers : \A r, q \in Sectors : ~Sent(c, r, q) /\ ~Announced(c, r)
    BY DEF Cross!Init, Cross!Empty, Sent, Announced
  <2>2. \A c \in Travellers : \A r \in Sectors : InRoom(c, r) <=> c \in born /\ place[c] = r
    BY <1>4 DEF InRoom
  <2>3. QED
    BY <2>1, <2>2, <1>1 DEF Alone, OneRoom, OneLetter, OneIntent, NotBoth, DeadOrSomewhere
<1>8. QED
  BY <1>2, <1>5, <1>6, <1>7 DEF Inv
-----------------------------------------------------------------------------
(***************************************************************************)
(* process()                                                               *)
(***************************************************************************)
\* process() takes creeps out of the room, dead or into the outbox
LEMMA ProcessInv ==
  ASSUME Inv, NEW r \in Sectors, Cross!Process(r)
  PROVE  Inv'
<1>1. Cross!Loads(r) = {Now(r)} /\ Cross!Contents(r) = Now(r)
  BY DEF Inv, Storage, KeptIsNow, Cross!Loads, Now, Cross!Contents, Cross!Process
<1>a. PICK dying \in SUBSET Now(r) : \E leaving \in SUBSET (Now(r) \ dying) :
        /\ Cross!Ticks(r, Now(r), dying, leaving)
        /\ \E to \in [leaving -> Sectors] : Cross!Sends(r, leaving, to)
  BY <1>1 DEF Cross!Process
<1>b. PICK leaving \in SUBSET (Now(r) \ dying) :
        /\ Cross!Ticks(r, Now(r), dying, leaving)
        /\ \E to \in [leaving -> Sectors] : Cross!Sends(r, leaving, to)
  BY <1>a
<1>2. PICK to \in [leaving -> Sectors] : Cross!Ticks(r, Now(r), dying, leaving) /\ Cross!Sends(r, leaving, to)
  BY <1>b
<1>3. /\ crossing[r] = "queued" /\ crossing' = [crossing EXCEPT ![r] = "sending"]
      /\ live' = [live EXCEPT ![r] = Now(r) \ (dying \cup leaving)]
      /\ updated' = [updated EXCEPT ![r] = dying \cup leaving # {}]
      /\ dead' = dead \cup dying
      /\ outbox' = [outbox EXCEPT ![r] = {<<c, to[c]>> : c \in leaving}]
      /\ UNCHANGED <<tick, processing, extra, fresh, blob, cached, finalIntents, active>>
  BY <1>2 DEF Cross!Process, Cross!Ticks, Cross!Sends
<1>4. Now(r) \subseteq Travellers
  BY ContentsTyped DEF Inv
<1>5. Types'
  BY <1>3, <1>4 DEF Inv, Types, Phases
<1>6. /\ \A q \in Sectors : q # r => crossing'[q] = crossing[q] /\ live'[q] = live[q] /\ updated'[q] = updated[q] /\ outbox'[q] = outbox[q]
      /\ crossing'[r] = "sending" /\ live'[r] = Now(r) \ (dying \cup leaving) /\ updated'[r] = (dying \cup leaving # {})
      /\ \A q \in Sectors : Now(q)' = Now(q) /\ Later(q)' = Later(q)
  BY <1>3 DEF Inv, Types, Now, Later
<1>7. Order'
  <2>1. ~ \E q \in Sectors : crossing[q] \in {"woken", "finalized"}
    BY <1>3 DEF Inv, Order, ProcessedBeforeFinalized, Cross!AllProcessed
  <2>2. IntentsFollow'
    BY <1>6 DEF IntentsFollow, Cross!Resting
  <2>3. QED
    BY <1>3, <1>6, <2>1, <2>2 DEF Inv, Order, OutboxSends, FreshMarks, IntentsWait, AwakeIsProcessing,
       SleepersWake,
         ExtraSleeps, ProcessedBeforeFinalized
<1>8. Storage'
  <2>1. KeptIsNow' /\ FinalIsLater'
    BY <1>3, <1>6 DEF Inv, Storage, KeptIsNow, FinalIsLater
  <2>2. UnchangedIsNow'
    BY <1>6 DEF Inv, Storage, UnchangedIsNow
  <2>3. AwakeIsActive' /\ SleepersAreEmpty' /\ WokenIsEmpty'
    BY <1>3, <1>6 DEF Inv, Storage, AwakeIsActive, SleepersAreEmpty, WokenIsEmpty
  <2>4. QED
    BY <2>1, <2>2, <2>3 DEF Storage
<1>9. Alone'
  <2>1. \A c \in Travellers : \A q \in Sectors :
          InRoom(c, q)' <=> InRoom(c, q) /\ ~(q = r /\ c \in dying \cup leaving)
    BY <1>1, <1>3, <1>6 DEF InRoom, Cross!Contents, Now, Later
  <2>2. \A c \in Travellers : \A q, s \in Sectors :
          Sent(c, q, s)' <=> Sent(c, q, s) \/ (q = r /\ c \in leaving /\ to[c] = s)
    <3>1. outbox[r] = {}
      BY <1>3 DEF Inv, Order, OutboxSends
    <3>2. outbox'[r] = {<<c, to[c]>> : c \in leaving}
      BY <1>3 DEF Inv, Types
    <3>3. QED
      BY <3>1, <3>2, <1>6 DEF Sent
  <2>3. \A c \in Travellers : \A q \in Sectors : Announced(c, q)' <=> Announced(c, q)
    BY <1>3 DEF Announced
  <2>4. \A c \in dying \cup leaving : c \in Travellers /\ InRoom(c, r)
    BY <1>1, <1>4 DEF InRoom
  <2>5. \A c \in leaving : to[c] \in Sectors /\ c \notin dying
    OBVIOUS
  <2>6. OneRoom' /\ OneIntent'
    BY <2>1, <2>3 DEF Inv, Alone, OneRoom, OneIntent
  <2>7. OneLetter'
    BY <2>2, <2>4 DEF Inv, Alone, OneLetter, NotBoth
  <2>8. NotBoth'
    BY <2>1, <2>2, <2>3, <2>4 DEF Inv, Alone, NotBoth, OneRoom
  <2>9. DeadOrSomewhere'
    <3>1. \A c \in Travellers : c \notin dead' <=> c \notin dead /\ c \notin dying
      BY <1>3
    <3>2. SUFFICES ASSUME NEW c \in Travellers
                   PROVE  c \notin dead' <=> \E q \in Sectors : InRoom(c, q)' \/ Announced(c, q)' \/ \E s \in Sectors : Sent(c, q, s)'
      BY DEF DeadOrSomewhere
    <3>3. CASE c \in dying
      BY <3>1, <3>3, <2>1, <2>2, <2>3, <2>4, <2>5 DEF Inv, Alone, NotBoth, OneRoom
    <3>4. CASE c \in leaving
      BY <3>1, <3>4, <2>2, <2>4, <2>5 DEF Inv, Alone, DeadOrSomewhere
    <3>5. CASE c \notin dying \cup leaving
      BY <3>1, <3>5, <2>1, <2>2, <2>3 DEF Inv, Alone, DeadOrSomewhere
    <3>6. QED
      BY <3>3, <3>4, <3>5
  <2>10. QED
    BY <2>6, <2>7, <2>8, <2>9 DEF Alone
<1>10. QED
  BY <1>5, <1>7, <1>8, <1>9 DEF Inv

\* where creeps are depends on the rooms' contents, the letters and the intents
LEMMA SamePlaces ==
  ASSUME Alone, dead' = dead,
         \A q \in Sectors : Cross!Contents(q)' = Cross!Contents(q) /\ outbox'[q] = outbox[q] /\ finalIntents'[q] = finalIntents[q]
  PROVE  Alone'
<1>1. \A c \in Travellers : \A q, s \in Sectors :
        /\ InRoom(c, q)' <=> InRoom(c, q)
        /\ Sent(c, q, s)' <=> Sent(c, q, s)
        /\ Announced(c, q)' <=> Announced(c, q)
  BY DEF InRoom, Sent, Announced
<1>2. OneRoom' /\ OneLetter' /\ OneIntent' /\ NotBoth'
  BY <1>1 DEF Alone, OneRoom, OneLetter, OneIntent, NotBoth
<1>3. DeadOrSomewhere'
  BY <1>1 DEF Alone, DeadOrSomewhere
<1>4. QED
  BY <1>2, <1>3 DEF Alone

\* publishInterRoomIntents puts letters into lists and marks their rooms
LEMMA PublishInv ==
  ASSUME Inv, NEW r \in Sectors, Cross!PublishInterRoomIntents(r)
  PROVE  Inv'
<1>1. /\ crossing[r] = "sending" /\ crossing' = [crossing EXCEPT ![r] = "marking"]
      /\ finalIntents' = [q \in Sectors |-> finalIntents[q] \cup {c \in Travellers : <<c, q>> \in outbox[r]}]
      /\ outbox' = [outbox EXCEPT ![r] = {}]
      /\ fresh' = [fresh EXCEPT ![r] = Cross!Targets(r) \ processing]
      /\ processing' = processing \cup Cross!Targets(r)
      /\ UNCHANGED <<tick, extra, blob, cached, live, updated, active, dead>>
  BY DEF Cross!PublishInterRoomIntents
<1>2. Cross!Targets(r) \subseteq Sectors /\ \A q \in Sectors : q \in Cross!Targets(r) <=> \E c \in Travellers : <<c, q>> \in outbox[r]
  <2>1. outbox[r] \subseteq Travellers \X Sectors
    BY DEF Inv, Types
  <2>2. \A q : q \in Cross!Targets(r) <=> \E letter \in outbox[r] : letter[2] = q
    BY DEF Cross!Targets
  <2>3. \A letter \in outbox[r] : /\ letter[1] \in Travellers /\ letter[2] \in Sectors
                                  /\ letter = <<letter[1], letter[2]>>
    BY <2>1
  <2>4. \A q : q \in Cross!Targets(r) => q \in Sectors /\ \E c \in Travellers : <<c, q>> \in outbox[r]
    BY <2>2, <2>3
  <2>5. \A q \in Sectors : \A c \in Travellers : <<c, q>> \in outbox[r] => q \in Cross!Targets(r)
    <3>1. \A q \in Sectors : \A c \in Travellers : <<c, q>>[2] = q
      OBVIOUS
    <3>2. QED
      BY <2>2, <3>1
  <2>6. QED
    BY <2>4, <2>5
<1>3. /\ \A q \in Sectors : q # r => crossing'[q] = crossing[q] /\ outbox'[q] = outbox[q] /\ fresh'[q] = fresh[q]
      /\ crossing'[r] = "marking" /\ outbox'[r] = {} /\ fresh'[r] = Cross!Targets(r) \ processing
      /\ \A q \in Sectors : Now(q)' = Now(q) /\ Later(q)' = Later(q)
  BY <1>1 DEF Inv, Types, Now, Later
<1>4. Types'
  <2>1. finalIntents' \in [Sectors -> SUBSET Travellers]
    BY <1>1 DEF Inv, Types
  <2>2. QED
    BY <1>1, <1>2, <2>1 DEF Inv, Types, Phases
<1>5. Order'
  <2>1. ~ \E q \in Sectors : crossing[q] \in {"woken", "finalized"}
    BY <1>1 DEF Inv, Order, ProcessedBeforeFinalized, Cross!AllProcessed
  <2>2. fresh[r] = {}
    BY <1>1 DEF Inv, Order, FreshMarks
  <2>3. OutboxSends' /\ FreshMarks' /\ AwakeIsProcessing' /\ ProcessedBeforeFinalized'
    BY <1>1, <1>3, <2>1 DEF Inv, Order, OutboxSends, FreshMarks, AwakeIsProcessing, ProcessedBeforeFinalized
  <2>4. IntentsWait'
    <3>1. \A q \in Sectors : finalIntents'[q] # {} => finalIntents[q] # {} \/ q \in Cross!Targets(r)
      BY <1>1, <1>2
    <3>2. QED
      BY <1>1, <1>3, <2>1, <3>1 DEF Inv, Order, IntentsWait
  <2>5. SleepersWake'
    BY <1>1, <1>2, <1>3, <2>2 DEF Inv, Order, SleepersWake
  <2>6. ExtraSleeps'
    <3>1. \A q \in Cross!Targets(r) \ processing : crossing[q] = "asleep" /\ crossing'[q] = "asleep"
      BY <1>1, <1>2, <1>3 DEF Inv, Order, AwakeIsProcessing
    <3>2. \A q \in Sectors : crossing[q] = "asleep" => crossing'[q] = "asleep"
      BY <1>1, <1>3
    <3>3. QED
      BY <1>1, <1>2, <1>3, <3>1, <3>2 DEF Inv, Types, Order, ExtraSleeps
  <2>7. IntentsFollow'
    BY <1>3 DEF IntentsFollow, Cross!Resting
  <2>8. QED
    BY <2>3, <2>4, <2>5, <2>6, <2>7 DEF Order
<1>6. Storage'
  BY <1>1, <1>3 DEF Inv, Storage, KeptIsNow, UnchangedIsNow, FinalIsLater, AwakeIsActive, SleepersAreEmpty,
     WokenIsEmpty
<1>7. Alone'
  <2>1. \A c \in Travellers : \A q \in Sectors : InRoom(c, q)' <=> InRoom(c, q)
    BY <1>1, <1>3 DEF InRoom, Cross!Contents, Now, Later
  <2>2. \A c \in Travellers : \A q, s \in Sectors : Sent(c, q, s)' <=> Sent(c, q, s) /\ q # r
    BY <1>3 DEF Sent
  <2>3. \A c \in Travellers : \A q \in Sectors : Announced(c, q)' <=> Announced(c, q) \/ Sent(c, r, q)
    BY <1>1 DEF Announced, Sent
  <2>4. OneRoom' /\ OneLetter'
    BY <2>1, <2>2 DEF Inv, Alone, OneRoom, OneLetter
  <2>5. OneIntent'
    BY <2>3 DEF Inv, Alone, OneIntent, OneLetter, NotBoth
  <2>6. NotBoth'
    BY <2>1, <2>2, <2>3 DEF Inv, Alone, NotBoth, OneLetter
  <2>7. DeadOrSomewhere'
    BY <1>1, <2>1, <2>2, <2>3 DEF Inv, Alone, DeadOrSomewhere
  <2>8. QED
    BY <2>4, <2>5, <2>6, <2>7 DEF Alone
<1>8. QED
  BY <1>4, <1>5, <1>6, <1>7 DEF Inv

\* the marked rooms are to be finalized additionally
LEMMA RoomDidProcessInv ==
  ASSUME Inv, NEW r \in Sectors, Cross!RoomDidProcess(r)
  PROVE  Inv'
<1>1. /\ crossing[r] = "marking" /\ crossing' = [crossing EXCEPT ![r] = "processed"]
      /\ extra' = extra \cup fresh[r]
      /\ fresh' = [fresh EXCEPT ![r] = {}]
      /\ UNCHANGED <<tick, processing, blob, cached, live, updated, outbox, finalIntents, active, dead>>
  BY DEF Cross!RoomDidProcess, Cross!room
<1>2. /\ \A q \in Sectors : q # r => crossing'[q] = crossing[q] /\ fresh'[q] = fresh[q]
      /\ crossing'[r] = "processed" /\ fresh'[r] = {} /\ fresh[r] \subseteq Sectors
      /\ \A q \in Sectors : Now(q)' = Now(q) /\ Later(q)' = Later(q)
  BY <1>1 DEF Inv, Types, Now, Later
<1>3. Types'
  BY <1>1, <1>2 DEF Inv, Types, Phases
<1>4. Order'
  <2>1. ~ \E q \in Sectors : crossing[q] \in {"woken", "finalized"}
    BY <1>1 DEF Inv, Order, ProcessedBeforeFinalized, Cross!AllProcessed
  <2>2. OutboxSends' /\ FreshMarks' /\ IntentsWait' /\ AwakeIsProcessing' /\ ProcessedBeforeFinalized'
    BY <1>1, <1>2, <2>1
       DEF Inv, Order, OutboxSends, FreshMarks, IntentsWait, AwakeIsProcessing, ProcessedBeforeFinalized
  <2>3. SleepersWake'
    BY <1>1, <1>2 DEF Inv, Types, Order, SleepersWake
  <2>4. ExtraSleeps'
    <3>1. \A q \in Sectors : crossing[q] = "asleep" => crossing'[q] = "asleep"
      BY <1>1, <1>2
    <3>2. QED
      BY <1>1, <1>2, <3>1 DEF Inv, Types, Order, ExtraSleeps
  <2>5. IntentsFollow'
    BY <1>2 DEF IntentsFollow, Cross!Resting
  <2>6. QED
    BY <2>2, <2>3, <2>4, <2>5 DEF Order
<1>5. Storage'
  BY <1>1, <1>2 DEF Inv, Storage, KeptIsNow, UnchangedIsNow, FinalIsLater, AwakeIsActive, SleepersAreEmpty,
     WokenIsEmpty
<1>6. \A q \in Sectors : Cross!Contents(q)' = Cross!Contents(q)
  BY <1>1, <1>2 DEF Cross!Contents, Now, Later
<1>7. QED
  BY <1>1, <1>3, <1>4, <1>5, <1>6, SamePlaces DEF Inv

\* a room asleep has no creeps
LEMMA ProcessExtraInv ==
  ASSUME Inv, NEW r \in Sectors, Cross!ProcessExtra(r)
  PROVE  Inv'
<1>1. crossing[r] = "asleep" /\ r \in processing /\ r \in extra /\ Cross!AllProcessed
  BY DEF Cross!ProcessExtra, Inv, Order, ExtraSleeps
<1>2. Now(r) = {} /\ Later(r) = {}
  BY <1>1 DEF Inv, Storage, SleepersAreEmpty
<1>3. /\ crossing' = [crossing EXCEPT ![r] = "woken"] /\ extra' = extra \ {r}
      /\ live' = [live EXCEPT ![r] = {}]
      /\ updated' = [updated EXCEPT ![r] = FALSE]
      /\ dead' = dead
      /\ UNCHANGED <<tick, processing, fresh, blob, cached, outbox, finalIntents, active>>
  <2>1. PICK dying \in SUBSET Now(r) : \E leaving \in SUBSET (Now(r) \ dying) : Cross!Ticks(r, Now(r), dying, leaving)
    BY DEF Cross!ProcessExtra, Now
  <2>2. PICK leaving \in SUBSET (Now(r) \ dying) : Cross!Ticks(r, Now(r), dying, leaving)
    BY <2>1
  <2>3. dying = {} /\ leaving = {}
    BY <1>2
  <2>4. Cross!Ticks(r, {}, {}, {})
    BY <2>2, <2>3, <1>2
  <2>5. QED
    BY <2>4 DEF Cross!Ticks, Cross!ProcessExtra
<1>4. /\ \A q \in Sectors : q # r => crossing'[q] = crossing[q] /\ live'[q] = live[q] /\ updated'[q] = updated[q]
      /\ crossing'[r] = "woken" /\ live'[r] = {} /\ updated'[r] = FALSE
      /\ \A q \in Sectors : Now(q)' = Now(q) /\ Later(q)' = Later(q)
  BY <1>3 DEF Inv, Types, Now, Later
<1>5. Types'
  BY <1>3 DEF Inv, Types, Phases
<1>6. Order'
  <2>1. \A q \in Sectors : fresh[q] = {}
    BY <1>1 DEF Inv, Order, FreshMarks, Cross!AllProcessed
  <2>2. OutboxSends' /\ FreshMarks' /\ IntentsWait' /\ AwakeIsProcessing' /\ ProcessedBeforeFinalized'
    BY <1>1, <1>3, <1>4, <2>1
       DEF Inv, Order, OutboxSends, FreshMarks, IntentsWait, AwakeIsProcessing, ProcessedBeforeFinalized, Cross!AllProcessed
  <2>3. SleepersWake' /\ ExtraSleeps'
    BY <1>3, <1>4, <2>1 DEF Inv, Types, Order, SleepersWake, ExtraSleeps
  <2>4. IntentsFollow'
    BY <1>4 DEF IntentsFollow, Cross!Resting
  <2>5. QED
    BY <2>2, <2>3, <2>4 DEF Order
<1>7. Storage'
  <2>1. KeptIsNow' /\ FinalIsLater' /\ WokenIsEmpty'
    BY <1>1, <1>3, <1>4 DEF Inv, Storage, KeptIsNow, FinalIsLater, WokenIsEmpty
  <2>2. UnchangedIsNow'
    BY <1>2, <1>4 DEF Inv, Storage, UnchangedIsNow
  <2>3. AwakeIsActive' /\ SleepersAreEmpty'
    BY <1>2, <1>3, <1>4 DEF Inv, Storage, AwakeIsActive, SleepersAreEmpty
  <2>4. QED
    BY <2>1, <2>2, <2>3 DEF Storage
<1>8. \A q \in Sectors : Cross!Contents(q)' = Cross!Contents(q)
  BY <1>1, <1>2, <1>3, <1>4 DEF Cross!Contents, Now, Later
<1>9. QED
  BY <1>3, <1>5, <1>6, <1>7, <1>8, SamePlaces DEF Inv
-----------------------------------------------------------------------------
(***************************************************************************)
(* finalize() and the next tick                                            *)
(***************************************************************************)
\* a room is stored as it is, on both sides if it goes to sleep
LEMMA Stored ==
  ASSUME Inv, NEW r \in Sectors, NEW creeps \in SUBSET Travellers, NEW sleeps \in BOOLEAN,
         creeps = live[r] \cup finalIntents[r], crossing[r] \in {"processed", "woken"}, tick' = tick,
         Cross!Stores(r, creeps, Cross!ReceivedUpdate(r), sleeps)
  PROVE  /\ blob' \in [(0..1) \X Sectors -> SUBSET Travellers]
         /\ Later(r)' = creeps /\ Now(r)' = IF sleeps THEN creeps ELSE Now(r)
         /\ \A q \in Sectors : q # r => Now(q)' = Now(q) /\ Later(q)' = Later(q)
<1>1. (IF Cross!ReceivedUpdate(r) THEN creeps ELSE Now(r)) = creeps
  BY DEF Cross!ReceivedUpdate, Inv, Storage, UnchangedIsNow
<1>2. blob' = [blob EXCEPT ![Cross!Key(r, tick + 1)] = creeps, ![Cross!Key(r, tick)] = IF sleeps THEN creeps ELSE @]
  BY <1>1 DEF Cross!Stores, Now
<1>3. tick \in Nat /\ tick + 1 \in Nat
  BY DEF Inv, Types
<1>4. \A q \in Sectors : /\ Cross!Key(q, tick) \in (0..1) \X Sectors /\ Cross!Key(q, tick + 1) \in (0..1) \X Sectors
                         /\ Cross!Key(q, tick) # Cross!Key(r, tick + 1) /\ Cross!Key(q, tick + 1) # Cross!Key(r, tick)
                         /\ q # r => Cross!Key(q, tick) # Cross!Key(r, tick) /\ Cross!Key(q, tick + 1) # Cross!Key(r, tick + 1)
  <2>1. \A q \in Sectors : /\ Cross!Key(q, tick) \in (0..1) \X Sectors /\ Cross!Key(q, tick) # Cross!Key(r, tick + 1)
                           /\ Cross!Key(r, tick) # Cross!Key(q, tick + 1)
                           /\ Cross!Key(q, tick) = Cross!Key(r, tick) => q = r
    BY <1>3, Sides
  <2>2. \A q \in Sectors : /\ Cross!Key(q, tick + 1) \in (0..1) \X Sectors
                           /\ Cross!Key(q, tick + 1) = Cross!Key(r, tick + 1) => q = r
    BY <1>3, Sides
  <2>3. QED
    BY <2>1, <2>2
<1>5. blob \in [(0..1) \X Sectors -> SUBSET Travellers]
  BY DEF Inv, Types
<1>6. blob' \in [(0..1) \X Sectors -> SUBSET Travellers]
  BY <1>2, <1>4, <1>5
<1>7. \A q \in Sectors : Now(q)' = blob'[Cross!Key(q, tick)] /\ Later(q)' = blob'[Cross!Key(q, tick + 1)]
  BY DEF Now, Later, Cross!Key
<1>8. QED
  BY <1>2, <1>4, <1>5, <1>6, <1>7 DEF Now, Later

\* finalize() moves announced creeps into the room
LEMMA FinalizeInv ==
  ASSUME Inv, NEW r \in Sectors, Cross!Finalize(r)
  PROVE  Inv'
<1> DEFINE creeps == live[r] \cup finalIntents[r]
           before == IF cached[r] # None THEN cached[r] ELSE blob[Cross!Key(r, tick)]
<1>1. PICK again \in BOOLEAN :
        /\ live' = [live EXCEPT ![r] = creeps]
        /\ Cross!Activates(r, before, creeps, again)
        /\ Cross!Stores(r, creeps, Cross!ReceivedUpdate(r), Cross!UsersIn(creeps) = {} /\ ~again)
  BY DEF Cross!Finalize
<1>2. /\ crossing[r] \in {"processed", "woken"} /\ Cross!AllProcessed
      /\ crossing' = [crossing EXCEPT ![r] = "finalized"]
      /\ finalIntents' = [finalIntents EXCEPT ![r] = {}]
      /\ UNCHANGED <<tick, processing, extra, fresh, cached, updated, outbox, dead>>
  BY DEF Cross!Finalize
<1> DEFINE sleeps == creeps = {} /\ ~again
<1>3. creeps \in SUBSET Travellers /\ before = Now(r)
  BY <1>2 DEF Inv, Types, Storage, KeptIsNow, Now
<1>4. /\ blob' \in [(0..1) \X Sectors -> SUBSET Travellers]
      /\ Later(r)' = creeps /\ Now(r)' = IF sleeps THEN creeps ELSE Now(r)
      /\ \A q \in Sectors : q # r => Now(q)' = Now(q) /\ Later(q)' = Later(q)
  <2>1. Cross!Stores(r, creeps, Cross!ReceivedUpdate(r), sleeps)
    BY <1>1, NoUsers
  <2> HIDE DEF creeps, sleeps
  <2>2. creeps = live[r] \cup finalIntents[r] /\ sleeps \in BOOLEAN
    BY DEF creeps, sleeps
  <2>3. QED
    BY <1>2, <1>3, <2>1, <2>2, Stored
<1>5. /\ active' \subseteq active \cup {r} /\ active \subseteq active' \cup {r}
      /\ r \notin active' => sleeps \/ (creeps = {} /\ Now(r) = {})
  <2>1. Cross!UsersIn(creeps) = {} <=> creeps = {}
    BY NoUsers
  <2>2. Cross!UsersIn(Now(r)) = {} <=> Now(r) = {}
    BY NoUsers
  <2>3. r \in active \/ (crossing[r] = "woken" /\ Now(r) = {})
    BY <1>2 DEF Inv, Storage, AwakeIsActive, SleepersAreEmpty
  <2>4. active' = IF creeps = {} /\ ~again THEN active \ {r}
                  ELSE IF Cross!UsersIn(Now(r)) # Cross!UsersIn(creeps) \/ (creeps = {} /\ crossing[r] = "woken") THEN active \cup {r}
                  ELSE active
    BY <1>1, <1>3, <2>1 DEF Cross!Activates
  <2> HIDE DEF creeps
  <2>5. QED
    BY <2>1, <2>2, <2>3, <2>4
<1> HIDE DEF creeps, before, sleeps
<1>6. /\ \A q \in Sectors : q # r => crossing'[q] = crossing[q] /\ live'[q] = live[q] /\ finalIntents'[q] = finalIntents[q]
                                    /\ (q \in active' <=> q \in active)
      /\ crossing'[r] = "finalized" /\ live'[r] = creeps /\ finalIntents'[r] = {}
  BY <1>1, <1>2, <1>5 DEF Inv, Types
<1>7. Types'
  BY <1>1, <1>2, <1>3, <1>4, <1>5 DEF Inv, Types, Phases
<1>8. Order'
  <2>1. OutboxSends' /\ FreshMarks' /\ IntentsWait' /\ AwakeIsProcessing' /\ ProcessedBeforeFinalized'
    BY <1>2, <1>6
       DEF Inv, Order, OutboxSends, FreshMarks, IntentsWait, AwakeIsProcessing, ProcessedBeforeFinalized, Cross!AllProcessed
  <2>2. \A q \in Sectors : crossing'[q] = "asleep" <=> crossing[q] = "asleep"
    BY <1>2, <1>6
  <2>3. SleepersWake' /\ ExtraSleeps'
    BY <1>2, <2>2 DEF Inv, Types, Order, SleepersWake, ExtraSleeps
  <2>4. IntentsFollow'
    BY <1>6 DEF IntentsFollow, Cross!Resting
  <2>5. QED
    BY <2>1, <2>3, <2>4 DEF Order
<1>9. Storage'
  <2>1. KeptIsNow' /\ UnchangedIsNow'
    BY <1>2, <1>4, <1>6 DEF Inv, Storage, KeptIsNow, UnchangedIsNow
  <2>2. FinalIsLater' /\ WokenIsEmpty'
    BY <1>4, <1>6 DEF Inv, Storage, FinalIsLater, WokenIsEmpty
  <2>3. AwakeIsActive'
    BY <1>6 DEF Inv, Storage, AwakeIsActive
  <2>4. SleepersAreEmpty'
    BY <1>4, <1>5, <1>6 DEF Inv, Storage, SleepersAreEmpty, sleeps
  <2>5. QED
    BY <2>1, <2>2, <2>3, <2>4 DEF Storage
<1>10. Alone'
  <2>1. \A c \in Travellers : \A q \in Sectors : InRoom(c, q)' <=> InRoom(c, q) \/ (q = r /\ Announced(c, r))
    <3>1. Cross!Contents(r) = live[r] /\ Cross!Contents(r)' = creeps
      BY <1>2, <1>4, <1>6 DEF Cross!Contents, Later
    <3>2. \A q \in Sectors : q # r => Cross!Contents(q)' = Cross!Contents(q)
      BY <1>2, <1>4, <1>6 DEF Cross!Contents, Now, Later
    <3>3. QED
      BY <3>1, <3>2 DEF InRoom, Announced, creeps
  <2>2. \A c \in Travellers : \A q \in Sectors : Announced(c, q)' <=> Announced(c, q) /\ q # r
    BY <1>6 DEF Announced
  <2>3. \A c \in Travellers : \A q, s \in Sectors : Sent(c, q, s)' <=> Sent(c, q, s)
    BY <1>2 DEF Sent
  <2>4. OneRoom'
    BY <2>1 DEF Inv, Alone, OneRoom, NotBoth
  <2>5. OneLetter' /\ OneIntent'
    BY <2>2, <2>3 DEF Inv, Alone, OneLetter, OneIntent
  <2>6. NotBoth'
    BY <2>1, <2>2, <2>3 DEF Inv, Alone, NotBoth, OneIntent
  <2>7. DeadOrSomewhere'
    BY <1>2, <2>1, <2>2, <2>3 DEF Inv, Alone, DeadOrSomewhere
  <2>8. QED
    BY <2>4, <2>5, <2>6, <2>7 DEF Alone
<1>11. QED
  BY <1>7, <1>8, <1>9, <1>10 DEF Inv

\* when the next tick begins nothing is on its way
LEMMA NothingOnItsWay ==
  ASSUME Inv, \A r \in Sectors : crossing[r] \in {"asleep", "queued", "finalized"}, extra = {},
         NEW r \in Sectors, crossing[r] # "queued"
  PROVE  outbox[r] = {} /\ fresh[r] = {} /\ finalIntents[r] = {}
<1>1. \A q \in Sectors : outbox[q] = {} /\ fresh[q] = {}
  BY DEF Inv, Order, OutboxSends, FreshMarks
<1>2. QED
  BY <1>1 DEF Inv, Order, IntentsWait, SleepersWake

\* the next tick begins with the side that was written
LEMMA AdvanceInv == ASSUME Inv, Cross!Advance PROVE Inv'
<1>1. PICK ringing \in SUBSET (Sectors \ active) :
        /\ active' = active \cup ringing
        /\ crossing' = [r \in Sectors |-> IF r \in active \cup ringing THEN "queued" ELSE "asleep"]
        /\ processing' = active \cup ringing
  BY DEF Cross!Advance
<1>2. /\ \A r \in Sectors : crossing[r] \in {"asleep", "finalized"}
      /\ extra = {} /\ tick' = tick + 1
      /\ cached' = [r \in Sectors |-> IF crossing[r] = "finalized" THEN live[r] ELSE None]
      /\ live' = [r \in Sectors |-> {}] /\ updated' = [r \in Sectors |-> FALSE]
      /\ UNCHANGED <<extra, fresh, blob, outbox, finalIntents, dead>>
  BY DEF Cross!Advance, Cross!Empty
<1>3. \A r \in Sectors : outbox[r] = {} /\ fresh[r] = {} /\ finalIntents[r] = {}
  BY <1>2, NothingOnItsWay
<1>4. \A r \in Sectors : Now(r)' = Later(r) /\ Later(r)' = Now(r)
  <2>1. \A r \in Sectors : Cross!Key(r, tick + 2) = Cross!Key(r, tick)
    BY Sides DEF Inv, Types
  <2>2. tick + 1 + 1 = tick + 2
    BY DEF Inv, Types
  <2>3. \A r \in Sectors : Now(r)' = blob[Cross!Key(r, tick + 1)] /\ Later(r)' = blob[Cross!Key(r, tick + 1 + 1)]
    BY <1>2 DEF Now, Later, Cross!Key
  <2>4. QED
    BY <2>1, <2>2, <2>3 DEF Now, Later
<1>5. Types'
  BY <1>1, <1>2 DEF Inv, Types, Phases
<1>6. Order'
  BY <1>1, <1>2, <1>3 DEF Inv, Types, Order, OutboxSends, FreshMarks, IntentsWait, IntentsFollow,
     AwakeIsProcessing,
       SleepersWake, ExtraSleeps, ProcessedBeforeFinalized
<1>7. \A r \in Sectors : crossing'[r] \in {"asleep", "queued"} /\ (crossing'[r] = "asleep" => r \notin active)
  BY <1>1
<1>8. Storage'
  <2>1. KeptIsNow'
    BY <1>2, <1>4 DEF Inv, Storage, KeptIsNow, FinalIsLater
  <2>2. UnchangedIsNow' /\ FinalIsLater' /\ WokenIsEmpty'
    BY <1>7 DEF UnchangedIsNow, FinalIsLater, WokenIsEmpty
  <2>3. AwakeIsActive'
    BY <1>1 DEF AwakeIsActive
  <2>4. SleepersAreEmpty'
    BY <1>2, <1>4, <1>7 DEF Inv, Storage, SleepersAreEmpty
  <2>5. QED
    BY <2>1, <2>2, <2>3, <2>4 DEF Storage
<1>9. \A r \in Sectors : Cross!Contents(r)' = Cross!Contents(r)
  <2>1. \A r \in Sectors : Cross!Contents(r)' = Later(r)
    BY <1>4, <1>7 DEF Cross!Contents, Now
  <2>2. \A r \in Sectors : Cross!Contents(r) = Later(r)
    BY <1>2 DEF Cross!Contents, Now, Later, Inv, Storage, SleepersAreEmpty
  <2>3. QED
    BY <2>1, <2>2
<1>10. QED
  BY <1>2, <1>5, <1>6, <1>8, <1>9, SamePlaces DEF Inv
-----------------------------------------------------------------------------
(***************************************************************************)
(* The theorem                                                             *)
(***************************************************************************)
\* every step preserves the invariant
LEMMA NextInv == ASSUME Inv, [Cross!Next]_Cross!vars PROVE Inv'
<1>1. CASE UNCHANGED Cross!vars
  <2>1. UNCHANGED <<tick, crossing, blob, cached, live, updated, outbox, fresh, finalIntents, processing, extra, active, dead>>
    BY <1>1 DEF Cross!vars, Cross!tick, Cross!room
  <2>2. Types'
    BY <2>1 DEF Inv, Types
  <2>3. Order'
    BY <2>1 DEF Inv, Order, OutboxSends, FreshMarks, IntentsWait, IntentsFollow, Cross!Resting,
       AwakeIsProcessing,
         SleepersWake, ExtraSleeps, ProcessedBeforeFinalized, Cross!AllProcessed
  <2>4. Storage'
    BY <2>1 DEF Inv, Storage, KeptIsNow, UnchangedIsNow, FinalIsLater, AwakeIsActive, SleepersAreEmpty,
         WokenIsEmpty, Now, Later, Cross!Key
  <2>5. \A r \in Sectors : Cross!Contents(r)' = Cross!Contents(r)
    BY <2>1 DEF Cross!Contents, Cross!Key
  <2>6. QED
    BY <2>1, <2>2, <2>3, <2>4, <2>5, SamePlaces DEF Inv
<1>2. QED
  BY <1>1, ProcessInv, PublishInv, RoomDidProcessInv, ProcessExtraInv, FinalizeInv, AdvanceInv DEF Cross!Next

\* a creep's place is one
LEMMA PlacesAreOne == ASSUME Inv PROVE Cross!OneCopy
<1> SUFFICES ASSUME NEW c \in Travellers
             PROVE  IF c \in dead THEN Cross!Places(c) = {} ELSE \E place \in Cross!Places(c) : Cross!Places(c) = {place}
  BY DEF Cross!OneCopy
<1> DEFINE AtHome(r) == <<"room", r>>
           ByLetter(r) == <<"outbox", r>>
           ByIntent(r) == <<"intent", r>>
           Home == {r \in Sectors : InRoom(c, r)}
           Letters == {r \in Sectors : \E q \in Sectors : Sent(c, r, q)}
           Intents == {r \in Sectors : Announced(c, r)}
<1>1. Cross!Places(c) = {AtHome(r) : r \in Home} \cup {ByLetter(r) : r \in Letters} \cup {ByIntent(r) : r \in Intents}
  <2>1. {q \in Sectors : c \in {letter[1] : letter \in outbox[q]}} = Letters
    <3>1. ASSUME NEW r \in Sectors
          PROVE  c \in {letter[1] : letter \in outbox[r]} <=> \E q \in Sectors : Sent(c, r, q)
      <4>1. \A letter \in outbox[r] : letter[2] \in Sectors /\ letter = <<letter[1], letter[2]>>
        BY DEF Inv, Types
      <4>2. c \in {letter[1] : letter \in outbox[r]} <=> \E letter \in outbox[r] : letter[1] = c
        OBVIOUS
      <4>3. (\E letter \in outbox[r] : letter[1] = c) => \E q \in Sectors : Sent(c, r, q)
        BY <4>1 DEF Sent
      <4>4. \A q \in Sectors : <<c, q>>[1] = c
        OBVIOUS
      <4>5. (\E q \in Sectors : Sent(c, r, q)) => \E letter \in outbox[r] : letter[1] = c
        BY <4>4 DEF Sent
      <4>6. QED
        BY <4>2, <4>3, <4>5
    <3>2. QED
      BY <3>1
  <2>2. {q \in Sectors : c \in Cross!Contents(q)} = Home
    BY DEF InRoom
  <2>3. {q \in Sectors : c \in finalIntents[q]} = Intents
    BY DEF Announced
  <2>4. QED
    BY <2>1, <2>2, <2>3 DEF Cross!Places
<1>2. CASE c \in dead
  <2>1. Home = {} /\ Letters = {} /\ Intents = {}
    BY <1>2 DEF Inv, Alone, DeadOrSomewhere
  <2>2. QED
    BY <1>1, <1>2, <2>1
<1>3. CASE c \notin dead
  <2>1. PICK r \in Sectors : InRoom(c, r) \/ Announced(c, r) \/ \E q \in Sectors : Sent(c, r, q)
    BY <1>3 DEF Inv, Alone, DeadOrSomewhere
  <2>2. CASE InRoom(c, r)
    <3>1. Home = {r} /\ Letters = {} /\ Intents = {}
      BY <2>2 DEF Inv, Alone, OneRoom, NotBoth
    <3>2. /\ {AtHome(q) : q \in Home} = {AtHome(r)} /\ {ByLetter(q) : q \in Letters} = {}
          /\ {ByIntent(q) : q \in Intents} = {}
      BY <3>1
    <3>3. Cross!Places(c) = {AtHome(r)}
      BY <1>1, <3>2
    <3> HIDE DEF AtHome, ByLetter, ByIntent, Home, Letters, Intents
    <3>4. QED
      BY <1>3, <3>3
  <2>3. CASE Announced(c, r)
    <3>1. Home = {} /\ Letters = {} /\ Intents = {r}
      BY <2>3 DEF Inv, Alone, OneIntent, NotBoth
    <3>2. /\ {AtHome(q) : q \in Home} = {} /\ {ByLetter(q) : q \in Letters} = {}
          /\ {ByIntent(q) : q \in Intents} = {ByIntent(r)}
      BY <3>1
    <3>3. Cross!Places(c) = {ByIntent(r)}
      BY <1>1, <3>2
    <3> HIDE DEF AtHome, ByLetter, ByIntent, Home, Letters, Intents
    <3>4. QED
      BY <1>3, <3>3
  <2>4. CASE \E q \in Sectors : Sent(c, r, q)
    <3>1. Home = {} /\ Letters = {r} /\ Intents = {}
      BY <2>4 DEF Inv, Alone, OneLetter, NotBoth
    <3>2. /\ {AtHome(q) : q \in Home} = {} /\ {ByLetter(q) : q \in Letters} = {ByLetter(r)}
          /\ {ByIntent(q) : q \in Intents} = {}
      BY <3>1
    <3>3. Cross!Places(c) = {ByLetter(r)}
      BY <1>1, <3>2
    <3> HIDE DEF AtHome, ByLetter, ByIntent, Home, Letters, Intents
    <3>4. QED
      BY <1>3, <3>3
  <2>5. QED
    BY <2>1, <2>2, <2>3, <2>4
<1>4. QED
  BY <1>2, <1>3

\* the invariant holds what is promised
LEMMA InvImplies == ASSUME Inv PROVE Cross!NobodyGetsLost
<1>1. Cross!KeptIsStored
  BY DEF Inv, Storage, KeptIsNow, FinalIsLater, Cross!KeptIsStored, Cross!Loads, Now, Later
<1>2. ASSUME Cross!Resting, NEW r \in Sectors
      PROVE  finalIntents[r] = {} /\ (crossing[r] = "asleep" => Cross!Contents(r) = {})
  <2>1. crossing[r] = "asleep" => Cross!Contents(r) = {}
    BY DEF Inv, Storage, SleepersAreEmpty, Cross!Contents, Now
  <2>2. finalIntents[r] = {}
    BY <1>2 DEF Inv, Order, IntentsFollow
  <2>3. QED
    BY <2>1, <2>2
<1>3. QED
  BY <1>1, <1>2, PlacesAreOne DEF Cross!NobodyGetsLost

(* No creep is ever lost or doubled between rooms, and none rests in a room *)
(* that sleeps, for any number of rooms, creeps and players                 *)
(* (mods/creep/processor.ts, engine/processor/room.ts and model.ts).        *)
THEOREM NoneIsLost == Cross!Spec => []NobodyGetsLost
<1>1. Cross!Init => Inv
  BY InitInv
<1>2. Inv /\ [Cross!Next]_Cross!vars => Inv'
  BY NextInv
<1>3. Inv => NobodyGetsLost
  BY InvImplies DEF NobodyGetsLost
<1>4. QED
  BY <1>1, <1>2, <1>3, PTL DEF Cross!Spec
-----------------------------------------------------------------------------
(***************************************************************************)
(* The roster: what a request is about to write passed its checks on the   *)
(* blob that it read, at a moment before; and a runner that works has the  *)
(* roster, or news of it are on the way.                                   *)
(***************************************************************************)
Passed(c) ==
  \E op \in Power!Operations, when \in 0..rosterTime :
    /\ Power!Check(op, Power!Live(client[c].prior, when))
    /\ client[c].next = Power!Apply(op, Power!Live(client[c].prior, when), when)

RosterTypes ==
  /\ rosterTime \in Nat /\ mail \in Nat
  /\ client = [c \in Clients |-> client[c]]
  /\ \A c \in Clients : client[c].pc \in {"read", "write"} => client[c].op \in Power!Operations

Fresh ==
  \/ runner \notin {"loaded", "running"} \/ view = roster \/ dirty \/ mail > 0
  \/ \E c \in Clients : client[c].pc = "publish"

RosterInv == RosterTypes /\ (\A c \in Clients : client[c].pc = "write" => Passed(c)) /\ Fresh

(* One request that goes on does not touch what the others have passed.    *)
LEMMA OneRequest ==
  ASSUME RosterInv, NEW c \in Clients, NEW to, client' = [client EXCEPT ![c] = to], rosterTime' = rosterTime, mail' \in Nat,
         to.pc \in {"read", "write"} => to.op \in Power!Operations,
         to.pc = "write" => \E op \in Power!Operations, when \in 0..rosterTime :
             Power!Check(op, Power!Live(to.prior, when)) /\ to.next = Power!Apply(op, Power!Live(to.prior, when), when)
  PROVE  RosterTypes' /\ \A d \in Clients : client'[d].pc = "write" => Passed(d)'
<1>1. client = [d \in Clients |-> client[d]] /\ client'[c] = to /\ \A d \in Clients : d # c => client'[d] = client[d]
  BY DEF RosterInv, RosterTypes
<1>2. RosterTypes'
  <2>1. client' = [d \in Clients |-> client'[d]]
    BY <1>1
  <2> QED BY <1>1, <2>1 DEF RosterInv, RosterTypes
<1>3. ASSUME NEW d \in Clients, client'[d].pc = "write" PROVE Passed(d)'
  <2>1. CASE d = c
    BY <1>1, <1>3, <2>1 DEF Passed
  <2>2. CASE d # c
    BY <1>1, <1>3, <2>2 DEF RosterInv, Passed
  <2> QED BY <2>1, <2>2
<1> QED BY <1>2, <1>3

(* requests *)
LEMMA RequestSteps ==
  ASSUME Power!Assumptions, RosterInv, NEW c \in Clients,
         \/ \E op \in Power!Operations : Power!Request(c, op)
         \/ Power!Reads(c) \/ Power!Stores(c) \/ Power!Retries(c) \/ Power!Publishes(c)
  PROVE  RosterInv'
<1>1. rosterTime \in Nat /\ mail \in Nat /\ UNCHANGED <<rosterTime, dirty, runner, view>>
      /\ client = [d \in Clients |-> client[d]]
  BY DEF RosterInv, RosterTypes, Power!Request, Power!Reads, Power!Stores, Power!Retries, Power!Publishes
<1>2. ASSUME client[c].pc # "publish", UNCHANGED <<roster, mail>>, NEW to, client' = [client EXCEPT ![c] = to]
      PROVE  Fresh'
  <2>1. ASSUME NEW d \in Clients, client[d].pc = "publish" PROVE client'[d].pc = "publish"
    BY <1>1, <1>2, <2>1
  <2> QED BY <1>1, <1>2, <2>1 DEF RosterInv, Fresh
<1>3. CASE \E op \in Power!Operations : Power!Request(c, op)
  <2>1. PICK op \in Power!Operations : Power!Request(c, op)
    BY <1>3
  <2> DEFINE to == [pc |-> "read", op |-> op, attempt |-> 1]
  <2>2. client[c].pc = "idle" /\ client' = [client EXCEPT ![c] = to] /\ UNCHANGED <<roster, mail>>
    BY <2>1 DEF Power!Request, Power!Idle
  <2>3. to.pc = "read" /\ to.op \in Power!Operations
    OBVIOUS
  <2> HIDE DEF to
  <2>4. RosterTypes' /\ \A d \in Clients : client'[d].pc = "write" => Passed(d)'
    BY <1>1, <2>2, <2>3, OneRequest
  <2>5. Fresh'
    BY <1>2, <2>2
  <2> QED BY <2>4, <2>5 DEF RosterInv
<1>4. CASE Power!Reads(c)
  <2> DEFINE live0 == Power!Live(roster, rosterTime)
             passes == Power!Check(client[c].op, live0)
             to == IF passes
                   THEN [pc |-> "write", op |-> client[c].op, attempt |-> client[c].attempt,
                         prior |-> roster, next |-> Power!Apply(client[c].op, live0, rosterTime)]
                   ELSE Power!Idle
  <2>1. client[c].pc = "read" /\ client' = [client EXCEPT ![c] = to] /\ UNCHANGED <<roster, mail>>
    BY <1>4 DEF Power!Reads, Power!Goes
  <2>2. client[c].op \in Power!Operations /\ rosterTime \in 0..rosterTime
    BY <1>1, <2>1 DEF RosterInv, RosterTypes
  <2>3. /\ to.pc # "read"
        /\ to.pc = "write" => to.op = client[c].op /\ to.prior = roster /\ passes /\ to.next = Power!Apply(client[c].op, live0, rosterTime)
    BY DEF Power!Idle
  <2>4. to.pc = "write" => \E op \in Power!Operations, when \in 0..rosterTime :
             Power!Check(op, Power!Live(to.prior, when)) /\ to.next = Power!Apply(op, Power!Live(to.prior, when), when)
    <3> HIDE DEF to
    <3> QED BY <2>2, <2>3
  <2> HIDE DEF to
  <2>5. RosterTypes' /\ \A d \in Clients : client'[d].pc = "write" => Passed(d)'
    BY <1>1, <2>1, <2>3, <2>4, <2>2, OneRequest
  <2>6. Fresh'
    BY <1>2, <2>1
  <2> QED BY <2>5, <2>6 DEF RosterInv
<1>5. CASE Power!Stores(c)
  <2>1. client[c].pc = "write" /\ client' = [client EXCEPT ![c] = [pc |-> "publish"]] /\ mail' = mail
    BY <1>5 DEF Power!Stores, Power!Goes
  <2>2. RosterTypes' /\ \A d \in Clients : client'[d].pc = "write" => Passed(d)'
    BY <1>1, <2>1, OneRequest
  <2>3. client'[c].pc = "publish"
    BY <1>1, <2>1
  <2> QED BY <2>2, <2>3 DEF RosterInv, Fresh
<1>6. CASE Power!Retries(c)
  <2> DEFINE to == IF client[c].attempt = Attempts THEN Power!Idle
                   ELSE [pc |-> "read", op |-> client[c].op, attempt |-> client[c].attempt + 1]
  <2>1. client[c].pc = "write" /\ client' = [client EXCEPT ![c] = to] /\ UNCHANGED <<roster, mail>>
    BY <1>6 DEF Power!Retries, Power!Goes
  <2>2. to.pc # "write" /\ (to.pc = "read" => to.op = client[c].op)
    BY DEF Power!Idle
  <2>3. client[c].op \in Power!Operations
    BY <2>1 DEF RosterInv, RosterTypes
  <2> HIDE DEF to
  <2>4. RosterTypes' /\ \A d \in Clients : client'[d].pc = "write" => Passed(d)'
    BY <1>1, <2>1, <2>2, <2>3, OneRequest
  <2>5. Fresh'
    BY <1>2, <2>1
  <2> QED BY <2>4, <2>5 DEF RosterInv
<1>7. CASE Power!Publishes(c)
  <2>1. /\ client[c].pc = "publish" /\ client' = [client EXCEPT ![c] = Power!Idle]
        /\ mail' = (IF runner = "off" THEN 0 ELSE mail + 1) /\ roster' = roster
    BY <1>7 DEF Power!Publishes, Power!Goes
  <2>2. mail' \in Nat /\ (runner # "off" => mail' > 0)
    BY <1>1, <2>1
  <2>3. RosterTypes' /\ \A d \in Clients : client'[d].pc = "write" => Passed(d)'
    BY <1>1, <2>1, <2>2, OneRequest DEF Power!Idle
  <2> QED BY <1>1, <2>2, <2>3 DEF RosterInv, Fresh
<1> QED BY <1>3, <1>4, <1>5, <1>6, <1>7

(* The runner, and time: what was checked at a moment before still was. *)
LEMMA RunnerSteps ==
  ASSUME RosterInv,
         \/ Power!Subscribes \/ Power!Hears \/ Power!Initialize \/ Power!Refresh \/ Power!LoadPowerCreepsBlob
         \/ Power!Loaded \/ Power!TimePasses
  PROVE  RosterInv'
<1>1. rosterTime \in Nat /\ mail \in Nat /\ client' = client /\ roster' = roster /\ mail' \in Nat /\ rosterTime' \in {rosterTime, rosterTime + 1}
  BY DEF RosterInv, RosterTypes, Power!Subscribes, Power!Hears, Power!Initialize, Power!Refresh,
     Power!LoadPowerCreepsBlob, Power!Loaded, Power!TimePasses, Power!notRunner
<1>2. RosterTypes'
  BY <1>1 DEF RosterInv, RosterTypes
<1>3. ASSUME NEW c \in Clients, client'[c].pc = "write" PROVE Passed(c)'
  <2>1. 0..rosterTime \subseteq 0..rosterTime'
    BY <1>1
  <2>2. Passed(c)
    BY <1>1, <1>3 DEF RosterInv
  <2> QED BY <1>1, <2>1, <2>2 DEF Passed
<1>4. Fresh'
  BY <1>1 DEF RosterInv, Fresh, Power!Subscribes, Power!Hears, Power!Initialize, Power!Refresh,
     Power!LoadPowerCreepsBlob, Power!Loaded, Power!TimePasses, Power!notRunner
<1> QED BY <1>2, <1>3, <1>4 DEF RosterInv

(* the invariant of the roster *)
LEMMA RosterHolds == ASSUME Power!Assumptions PROVE Power!Spec => []RosterInv
<1>1. Power!Init => RosterInv
  BY DEF Power!Init, Power!Idle, RosterInv, RosterTypes, Fresh
<1>2. RosterInv /\ [Power!Next]_Power!vars => RosterInv'
  <2> SUFFICES ASSUME RosterInv, [Power!Next]_Power!vars PROVE RosterInv'
    OBVIOUS
  <2>1. CASE UNCHANGED Power!vars
    BY <2>1 DEF Power!vars, RosterInv, RosterTypes, Fresh, Passed
  <2> QED BY <2>1, RequestSteps, RunnerSteps DEF Power!Next
<1> QED BY <1>1, <1>2, PTL DEF Power!Spec

(* A runner that works and has no news to hear or to look at has the       *)
(* roster, whatever changed it during its subscription, its first load or  *)
(* a refresh: for any number of requests and names.                        *)
THEOREM RunnersAgree == ASSUME Power!Assumptions PROVE Power!Spec => []RunnerCurrent
<1>1. RosterInv => RunnerCurrent
  BY DEF RosterInv, RosterTypes, Fresh, RunnerCurrent, Power!RunnerCurrent
<1> QED BY <1>1, RosterHolds, PTL

(* Whoever writes the roster replaces the one that he has read and checked: *)
(* requests that race change it one after another, none is lost.            *)
THEOREM RequestsAreAtomic == ASSUME Power!Assumptions PROVE Power!Spec => MutatesAtomically
<1>1. ASSUME RosterInv, [Power!Next]_Power!vars, roster' # roster
      PROVE  \E op \in Power!Operations, when \in 0..rosterTime :
               /\ Power!Check(op, Power!Live(roster, when))
               /\ roster' = Power!Apply(op, Power!Live(roster, when), when)
  <2>1. PICK c \in Clients : Power!Stores(c)
    BY <1>1 DEF Power!Next, Power!vars, Power!notRunner, Power!Request, Power!Reads, Power!Retries,
       Power!Publishes, Power!Subscribes, Power!Hears, Power!Initialize, Power!Refresh,
       Power!LoadPowerCreepsBlob, Power!Loaded, Power!TimePasses
  <2>2. client[c].pc = "write" /\ roster = client[c].prior /\ roster' = client[c].next
    BY <2>1 DEF Power!Stores, Power!Unchanged
  <2>3. Passed(c)
    BY <1>1, <2>2 DEF RosterInv
  <2> QED BY <2>2, <2>3 DEF Passed
<1>2. ASSUME RosterInv, [Power!Next]_Power!vars
      PROVE  [roster' # roster => \E op \in Power!Operations, when \in 0..rosterTime :
                LET live0 == Power!Live(roster, when)
                IN Power!Check(op, live0) /\ roster' = Power!Apply(op, live0, when)]_roster
  BY <1>1, <1>2
<1>3. RosterInv /\ [Power!Next]_Power!vars
        => [roster' # roster => \E op \in Power!Operations, when \in 0..rosterTime :
              LET live0 == Power!Live(roster, when)
              IN Power!Check(op, live0) /\ roster' = Power!Apply(op, live0, when)]_roster
  BY <1>2
<1> QED BY <1>3, RosterHolds, PTL DEF Power!Spec, MutatesAtomically, Power!MutatesAtomically
-----------------------------------------------------------------------------
(***************************************************************************)
(* Terminals: what is promised to a terminal has been counted.  Rooms that *)
(* have been processed send no more, and what they have sent is delivered  *)
(* before any of them begins anew.                                         *)
(***************************************************************************)
SendStates == {Term!NoSend} \cup [pc : {"count", "sent"}, to : Depots, amount : Nat]

TerminalTypes ==
  /\ saved \in [Depots -> Int] /\ stock \in [Depots -> Int] /\ ingress \in [Depots -> Nat]
  /\ send \in [Depots -> SendStates] /\ inbox \in [Depots -> [Depots -> Nat]]
  /\ terminalPhase \in [Depots -> {"intents", "tasks", "processed", "finalized"}]

SendOrder ==
  /\ \A r \in Depots : terminalPhase[r] \in {"processed", "finalized"} => send[r] = Term!NoSend
  /\ \A r \in Depots : terminalPhase[r] \in {"intents", "tasks"} => \A q \in Depots : inbox[q][r] = 0
  /\ \A r \in Depots : terminalPhase[r] = "finalized" =>
       inbox[r] = Term!Empty /\ \A q \in Depots : terminalPhase[q] \in {"processed", "finalized"}

\* what each room sends to r, as a function that can be summed
SentTo(r) == [from \in Depots |-> IF send[from].pc = "sent" /\ send[from].to = r THEN send[from].amount ELSE 0]
Incoming(r) == Sum(SentTo(r), Depots) + Sum(inbox[r], Depots)

Counted(r) == terminalPhase[r] # "finalized" => Incoming(r) <= ingress[r]
Fitting(r) == terminalPhase[r] # "finalized" => saved[r] + Incoming(r) <= Capacity \/ saved[r] + Incoming(r) <= saved[r]

TerminalInv == TerminalTypes /\ SendOrder /\ \A r \in Depots : Counted(r) /\ Fitting(r)

(* the sums of the model *)
LEMMA PromisedIs == ASSUME NEW r \in Depots PROVE Term!Promised(r) = Sum(SentTo(r), Depots)
<1> DEFINE Adds(g) == g = [s \in SUBSET Depots |->
             IF s = {} THEN 0
             ELSE (IF send[Picked(s)].pc = "sent" /\ send[Picked(s)].to = r THEN send[Picked(s)].amount ELSE 0)
                    + g[s \ {Picked(s)}]]
<1>1. Term!Promised(r) = (CHOOSE g : Adds(g))[Depots]
  BY DEF Term!Promised, Picked, Term!MapThenSumSet, MapThenSumSet, MapThenFoldSet, Term!MapThenFoldSet
<1>2. ASSUME NEW g PROVE Adds(g) <=> Summing(g, SentTo(r), Depots)
  <2>1. \A s \in SUBSET Depots : s # {} => Picked(s) \in Depots
    BY DEF Picked
  <2> QED BY <2>1 DEF Summing, SumStep, SentTo
<1>3. (CHOOSE g : Adds(g)) = (CHOOSE g : Summing(g, SentTo(r), Depots))
  <2> HIDE DEF Adds
  <2> QED BY <1>2, Zenon
<1> QED BY <1>1, <1>3, SumIs

(* the sum of the letters *)
LEMMA OnItsWayIs == ASSUME NEW r \in Depots PROVE Term!OnItsWay(r) = Sum(inbox[r], Depots)
  BY DEF Term!OnItsWay, Sum, Term!MapThenSumSet, MapThenSumSet, MapThenFoldSet, Term!MapThenFoldSet

(* the largest and the smallest of two numbers *)
MaxOf(x, y) == Max({x, y})
MinOf(x, y) == Min({x, y})
LEMMA OfTwo ==
  \A x, y \in Int :
    /\ MaxOf(x, y) \in {x, y} /\ MaxOf(x, y) >= x /\ MaxOf(x, y) >= y
    /\ MinOf(x, y) \in {x, y} /\ MinOf(x, y) <= x /\ MinOf(x, y) <= y
<1> SUFFICES ASSUME NEW x \in Int, NEW y \in Int
             PROVE  /\ MaxOf(x, y) \in {x, y} /\ MaxOf(x, y) >= x /\ MaxOf(x, y) >= y
                    /\ MinOf(x, y) \in {x, y} /\ MinOf(x, y) <= x /\ MinOf(x, y) <= y
  OBVIOUS
<1>1. /\ \E m \in {x, y} : \A n \in {x, y} : m >= n
      /\ \E m \in {x, y} : \A n \in {x, y} : m <= n
  OBVIOUS
<1>2. /\ MaxOf(x, y) \in {x, y} /\ \A n \in {x, y} : MaxOf(x, y) >= n
      /\ MinOf(x, y) \in {x, y} /\ \A n \in {x, y} : MinOf(x, y) <= n
  BY <1>1 DEF MaxOf, MinOf, Max, Min
<1> QED BY <1>2

(* What is sent is not more than was asked for, and fits on top of what was counted before. *)
LEMMA FitsInto ==
  ASSUME NEW s, NEW before \in Nat, s.amount \in Nat, saved[s.to] \in Int, Capacity \in Nat
  PROVE  /\ Term!Fits(s, before) \in Nat /\ Term!Fits(s, before) <= s.amount
         /\ Term!Fits(s, before) = 0 \/ saved[s.to] + (before + Term!Fits(s, before)) <= Capacity
<1> DEFINE here == saved[s.to] amount == s.amount
           space == Capacity - here + amount - (before + amount)
           least == MinOf(amount, space) most == MaxOf(0, least)
<1>1. Term!Fits(s, before) = most
  BY DEF Term!Fits, Term!Total, Term!Max, Term!Min, Max, Min, MaxOf, MinOf
<1>2. here \in Int /\ amount \in Nat /\ space \in Int
  OBVIOUS
<1>3. least \in {amount, space} /\ least <= amount /\ least <= space
  <2> HIDE DEF amount, space
  <2> QED BY <1>2, OfTwo
<1>4. least \in Int /\ least <= amount /\ least <= space
  <2> HIDE DEF least, amount, space
  <2> QED BY <1>2, <1>3
<1>5. most \in {0, least}
  <2> HIDE DEF least
  <2> QED BY <1>4, OfTwo
<1>6. 0 <= most
  <2> HIDE DEF least
  <2> QED BY <1>4, OfTwo
<1>7. most \in Nat /\ most <= amount /\ (most = 0 \/ here + (before + most) <= Capacity)
  <2> HIDE DEF here, amount, least, most
  <2> QED BY <1>2, <1>4, <1>5, <1>6
<1> QED BY <1>1, <1>7

(* sums of what is sent, and on its way *)
LEMMA IncomingNat ==
  ASSUME Term!Assumptions, TerminalTypes, NEW r \in Depots
  PROVE  /\ \A from \in Depots : SentTo(r)[from] \in Nat /\ inbox[r][from] \in Nat
         /\ Sum(SentTo(r), Depots) \in Nat /\ Sum(inbox[r], Depots) \in Nat
         /\ Incoming(r) \in Nat
<1>1. IsFiniteSet(Depots)
  BY DEF Term!Assumptions, Term!IsFiniteSet, IsFiniteSet
<1>2. \A from \in Depots : SentTo(r)[from] \in Nat /\ inbox[r][from] \in Nat
  BY DEF SentTo, TerminalTypes, SendStates, Term!NoSend
<1>3. Sum(SentTo(r), Depots) \in Nat /\ Sum(inbox[r], Depots) \in Nat
  BY <1>1, <1>2, SumNatural
<1> QED BY <1>2, <1>3 DEF Incoming

(* A step that does not touch what is sent, nor the letters, the counters and the stocks as stored. *)
LEMMA IncomingStays ==
  ASSUME NEW r \in Depots, SentTo(r)' = SentTo(r), inbox'[r] = inbox[r], saved'[r] = saved[r],
         ingress'[r] = ingress[r], terminalPhase'[r] = "finalized" \/ terminalPhase[r] # "finalized",
         Counted(r) /\ Fitting(r)
  PROVE  Counted(r)' /\ Fitting(r)'
<1>1. Incoming(r)' = Incoming(r)
  BY DEF Incoming
<1> QED BY <1>1 DEF Counted, Fitting

(* where nobody sends and no letter lies *)
LEMMA NothingIncoming ==
  ASSUME Term!Assumptions, NEW r \in Depots, \A from \in Depots : SentTo(r)[from] = 0 /\ inbox[r][from] = 0
  PROVE  Incoming(r) = 0
<1>1. IsFiniteSet(Depots)
  BY DEF Term!Assumptions, Term!IsFiniteSet, IsFiniteSet
<1>2. Sum(SentTo(r), Depots) = 0
  BY <1>1, SumNatural
<1>3. Sum(inbox[r], Depots) = 0
  BY <1>1, SumNatural
<1> QED BY <1>2, <1>3 DEF Incoming

(* at first nothing is sent *)
LEMMA TerminalInit == ASSUME Term!Assumptions PROVE Term!Init => TerminalInv
<1> SUFFICES ASSUME Term!Init PROVE TerminalInv
  OBVIOUS
<1>1. TerminalTypes
  <2>1. stock \in [Depots -> Int]
    <3>1. Capacity \in Nat /\ Stocks \subseteq 0..Capacity
      BY DEF Term!Assumptions
    <3>2. stock \in [Depots -> Stocks] /\ Stocks \subseteq Int
      BY <3>1 DEF Term!Init
    <3>3. \A x \in Depots : stock[x] \in Int
      BY <3>2
    <3> QED BY <3>2, <3>3
  <2> QED BY <2>1 DEF Term!Init, TerminalTypes, Term!Empty, SendStates
<1>2. SendOrder
  BY DEF Term!Init, SendOrder, Term!Empty
<1>3. ASSUME NEW r \in Depots PROVE Counted(r) /\ Fitting(r)
  <2>1. \A from \in Depots : SentTo(r)[from] = 0 /\ inbox[r][from] = 0
    BY DEF Term!Init, SentTo, Term!NoSend, Term!Empty
  <2>2. Incoming(r) = 0
    BY <1>1, <2>1, NothingIncoming
  <2>3. ingress[r] = 0 /\ saved[r] \in Int
    BY <1>1 DEF Term!Init, Term!Empty, TerminalTypes
  <2> QED BY <2>2, <2>3 DEF Counted, Fitting
<1> QED BY <1>1, <1>2, <1>3 DEF TerminalInv

(* intents *)
LEMMA IntentSteps ==
  ASSUME Term!Assumptions, TerminalInv, NEW r \in Depots,
         \/ \E to \in Depots, amount \in Term!Amounts : Term!Send(r, to, amount)
         \/ \E amount \in Flows : Term!Move(r, amount)
         \/ Term!IntentsEnd(r)
  PROVE  TerminalInv'
<1>1. TerminalTypes /\ SendOrder /\ UNCHANGED <<saved, ingress, inbox, day>> /\ terminalPhase[r] = "intents"
  BY DEF TerminalInv, Term!Send, Term!Move, Term!IntentsEnd
<1>2. /\ terminalPhase' = terminalPhase \/ terminalPhase' = [terminalPhase EXCEPT ![r] = "tasks"]
      /\ send' = send \/ \E to \in Depots, amount \in Nat :
           send[r] = Term!NoSend /\ send' = [send EXCEPT ![r] = [pc |-> "count", to |-> to, amount |-> amount]]
      /\ stock' \in [Depots -> Int]
  <2>1. CASE \E to \in Depots, amount \in Term!Amounts : Term!Send(r, to, amount)
    <3>1. PICK to \in Depots, amount \in Term!Amounts : Term!Send(r, to, amount)
      BY <2>1
    <3>2. MaxAmount \in Nat
      BY DEF Term!Assumptions
    <3>3. amount \in Nat
      BY <3>2 DEF Term!Amounts
    <3>4. /\ send[r] = Term!NoSend
          /\ send' = [send EXCEPT ![r] = [pc |-> "count", to |-> to, amount |-> amount]]
          /\ terminalPhase' = terminalPhase /\ stock' = stock
      BY <3>1 DEF Term!Send
    <3> QED BY <1>1, <3>3, <3>4 DEF TerminalTypes
  <2>2. CASE \E amount \in Flows : Term!Move(r, amount)
    <3>1. PICK amount \in Flows : Term!Move(r, amount)
      BY <2>2
    <3>2. amount \in Int /\ stock[r] \in Int
      BY <1>1 DEF Term!Assumptions, TerminalTypes
    <3> QED BY <1>1, <3>1, <3>2 DEF Term!Move, TerminalTypes
  <2>3. CASE Term!IntentsEnd(r)
    BY <1>1, <2>3 DEF Term!IntentsEnd, TerminalTypes
  <2> QED BY <2>1, <2>2, <2>3
<1>3. TerminalTypes'
  <2>1. terminalPhase' \in [Depots -> {"intents", "tasks", "processed", "finalized"}]
    BY <1>1, <1>2 DEF TerminalTypes
  <2>2. send' \in [Depots -> SendStates]
    <3>1. \A to \in Depots, amount \in Nat : [pc |-> "count", to |-> to, amount |-> amount] \in SendStates
      BY DEF SendStates
    <3>2. send \in [Depots -> SendStates]
      BY <1>1 DEF TerminalTypes
    <3> QED BY <1>2, <3>1, <3>2
  <2> QED BY <1>1, <1>2, <2>1, <2>2 DEF TerminalTypes
<1>4. \A q \in Depots : terminalPhase'[q] = terminalPhase[q] \/ (q = r /\ terminalPhase'[q] = "tasks")
  BY <1>1, <1>2 DEF TerminalTypes
<1>5. \A q \in Depots : send'[q] = send[q] \/ (q = r /\ send[q].pc # "sent" /\ send'[q].pc # "sent")
  BY <1>1, <1>2 DEF TerminalTypes, Term!NoSend
<1>6. SendOrder'
  BY <1>1, <1>2, <1>4 DEF SendOrder, TerminalTypes
<1>7. ASSUME NEW q \in Depots PROVE Counted(q)' /\ Fitting(q)'
  <2>1. SentTo(q)' = SentTo(q)
    BY <1>5 DEF SentTo
  <2> QED BY <1>1, <1>4, <2>1, IncomingStays DEF TerminalInv
<1> QED BY <1>3, <1>6, <1>7 DEF TerminalInv

(* the task counts its amount, and sends what fits on top of what was counted before *)
LEMMA CountsStep == ASSUME Term!Assumptions, TerminalInv, NEW r \in Depots, Term!Counts(r) PROVE TerminalInv'
<1> DEFINE s == send[r] fits == Term!Fits(s, ingress[s.to])
<1>1. /\ TerminalTypes /\ SendOrder /\ s.pc = "count" /\ terminalPhase[r] = "tasks"
      /\ ingress' = [ingress EXCEPT ![s.to] = ingress[s.to] + s.amount]
      /\ send' = [send EXCEPT ![r] = [pc |-> "sent", to |-> s.to, amount |-> fits]]
      /\ UNCHANGED <<stock, saved, inbox, terminalPhase, day>>
  BY DEF TerminalInv, Term!Counts
<1>2. s.to \in Depots /\ s.amount \in Nat /\ ingress[s.to] \in Nat /\ saved[s.to] \in Int /\ Capacity \in Nat
  BY <1>1 DEF TerminalTypes, SendStates, Term!NoSend, Term!Assumptions
<1>3. fits \in Nat /\ fits <= s.amount /\ (fits = 0 \/ saved[s.to] + (ingress[s.to] + fits) <= Capacity)
  BY <1>2, FitsInto
<1> HIDE DEF fits
<1>4. TerminalTypes'
  BY <1>1, <1>2, <1>3 DEF TerminalTypes, SendStates
<1>5. SendOrder'
  BY <1>1 DEF SendOrder, TerminalTypes
<1>6. ASSUME NEW q \in Depots, q # s.to PROVE Counted(q)' /\ Fitting(q)'
  <2>1. SentTo(q)' = SentTo(q)
    <3>1. \A from \in Depots : from # r => send'[from] = send[from]
      BY <1>1 DEF TerminalTypes
    <3>2. send'[r].to = s.to
      BY <1>1 DEF TerminalTypes
    <3> QED BY <1>1, <1>6, <3>1, <3>2 DEF SentTo
  <2>2. ingress'[q] = ingress[q]
    BY <1>1, <1>6 DEF TerminalTypes
  <2> QED BY <1>1, <2>1, <2>2, IncomingStays DEF TerminalInv
<1>7. ASSUME NEW q \in Depots, q = s.to PROVE Counted(q)' /\ Fitting(q)'
  <2>1. /\ SentTo(q)'[r] = fits /\ SentTo(q)[r] = 0
        /\ \A from \in Depots : from # r => SentTo(q)'[from] = SentTo(q)[from]
    <3>1. \A from \in Depots : from # r => send'[from] = send[from]
      BY <1>1 DEF TerminalTypes
    <3>2. send'[r] = [pc |-> "sent", to |-> q, amount |-> fits]
      BY <1>1, <1>7 DEF TerminalTypes
    <3> QED BY <1>1, <3>1, <3>2 DEF SentTo
  <2>2. q \in Depots
    OBVIOUS
  <2>3. Sum(SentTo(q)', Depots) = Sum(SentTo(q), Depots) + (fits - 0)
    <3>1. IsFiniteSet(Depots)
      BY DEF Term!Assumptions, Term!IsFiniteSet, IsFiniteSet
    <3>2. \A from \in Depots : SentTo(q)[from] \in Int /\ SentTo(q)'[from] \in Int
      <4>1. \A from \in Depots : SentTo(q)[from] \in Nat
        BY <1>1, <2>2, IncomingNat
      <4> QED BY <1>3, <2>1, <4>1
    <3> QED BY <2>1, <3>1, <3>2, SumChanges
  <2> DEFINE a == Sum(SentTo(q), Depots) b == Sum(inbox[q], Depots) i == ingress[q] h == saved[q]
  <2>4. Incoming(q) = a + b /\ Incoming(q)' = (a + (fits - 0)) + b /\ a \in Nat /\ b \in Nat
    BY <1>1, <2>2, <2>3, IncomingNat DEF Incoming
  <2>5. /\ i \in Nat /\ h \in Int /\ ingress'[q] = i + s.amount /\ saved'[q] = h
        /\ terminalPhase'[q] = terminalPhase[q] /\ (fits = 0 \/ h + (i + fits) <= Capacity)
    BY <1>1, <1>2, <1>3, <1>7 DEF TerminalTypes
  <2>6. /\ terminalPhase[q] # "finalized" => a + b <= i
        /\ terminalPhase[q] # "finalized" => h + (a + b) <= Capacity \/ h + (a + b) <= h
    BY <2>2, <2>4 DEF TerminalInv, Counted, Fitting
  <2> HIDE DEF a, b, i, h
  <2>7. ASSUME terminalPhase[q] # "finalized"
        PROVE  /\ (a + (fits - 0)) + b <= i + s.amount
               /\ h + ((a + (fits - 0)) + b) <= Capacity \/ h + ((a + (fits - 0)) + b) <= h
    <3> DEFINE m == s.amount
    <3>1. m \in Nat /\ fits <= m /\ fits \in Nat /\ Capacity \in Nat
      BY <1>2, <1>3
    <3> HIDE DEF m, s
    <3>2. (a + (fits - 0)) + b <= i + m
      BY <2>4, <2>5, <2>6, <2>7, <3>1
    <3>3. h + ((a + (fits - 0)) + b) <= Capacity \/ h + ((a + (fits - 0)) + b) <= h
      <4>1. CASE fits = 0
        BY <2>4, <2>5, <2>6, <2>7, <4>1
      <4>2. CASE h + (i + fits) <= Capacity
        BY <2>4, <2>5, <2>6, <2>7, <3>1, <4>2
      <4> QED BY <2>5, <4>1, <4>2
    <3> QED BY <3>2, <3>3 DEF m
  <2> QED BY <2>4, <2>5, <2>7 DEF Counted, Fitting
<1> QED BY <1>4, <1>5, <1>6, <1>7 DEF TerminalInv

(* what was sent becomes a letter *)
LEMMA ProcessedStep == ASSUME Term!Assumptions, TerminalInv, NEW r \in Depots, Term!Processed(r) PROVE TerminalInv'
<1>1. /\ TerminalTypes /\ SendOrder /\ terminalPhase[r] = "tasks" /\ UNCHANGED <<saved, ingress, day>>
      /\ terminalPhase' = [terminalPhase EXCEPT ![r] = "processed"]
      /\ send' = [send EXCEPT ![r] = Term!NoSend]
  BY DEF TerminalInv, Term!Processed
<1>2. /\ \A q \in Depots : q # r => terminalPhase'[q] = terminalPhase[q] /\ send'[q] = send[q]
      /\ terminalPhase'[r] = "processed" /\ send'[r] = Term!NoSend
      /\ \A q \in Depots : terminalPhase[q] # "finalized"
  BY <1>1 DEF TerminalTypes, SendOrder
<1>3. CASE send[r] = Term!NoSend
  <2>1. UNCHANGED <<stock, inbox, send>>
    BY <1>1, <1>3 DEF Term!Processed, TerminalTypes
  <2>2. TerminalTypes'
    BY <1>1, <2>1 DEF TerminalTypes
  <2>3. SendOrder'
    BY <1>1, <1>2, <2>1 DEF SendOrder
  <2>4. ASSUME NEW q \in Depots PROVE Counted(q)' /\ Fitting(q)'
    <3>1. SentTo(q)' = SentTo(q)
      BY <2>1 DEF SentTo
    <3> QED BY <1>1, <1>2, <2>1, <3>1, IncomingStays DEF TerminalInv
  <2> QED BY <2>2, <2>3, <2>4 DEF TerminalInv
<1>4. CASE send[r] # Term!NoSend
  <2> DEFINE to == send[r].to amount == send[r].amount
  <2>1. /\ send[r].pc = "sent" /\ to \in Depots /\ amount \in Nat
        /\ stock' = [stock EXCEPT ![r] = stock[r] - amount] /\ inbox' = [inbox EXCEPT ![to][r] = amount]
    BY <1>1, <1>4 DEF Term!Processed, TerminalTypes, SendStates
  <2>2. /\ \A q \in Depots : q # to => inbox'[q] = inbox[q]
        /\ inbox'[to] = [inbox[to] EXCEPT ![r] = amount]
    BY <1>1, <2>1 DEF TerminalTypes
  <2>3. \A q \in Depots : \A from \in Depots : from # r => inbox'[q][from] = inbox[q][from]
    BY <1>1, <2>1, <2>2 DEF TerminalTypes
  <2>4. TerminalTypes'
    BY <1>1, <2>1 DEF TerminalTypes, SendStates
  <2>5. SendOrder'
    BY <1>1, <1>2, <2>3 DEF SendOrder
  <2>6. ASSUME NEW q \in Depots, q # to PROVE Counted(q)' /\ Fitting(q)'
    <3>1. SentTo(q)' = SentTo(q)
      BY <1>2, <2>6 DEF SentTo, Term!NoSend
    <3> QED BY <1>1, <1>2, <2>2, <2>6, <3>1, IncomingStays DEF TerminalInv
  <2>7. ASSUME NEW q \in Depots, q = to PROVE Counted(q)' /\ Fitting(q)'
    <3>1. /\ SentTo(q)[r] = amount /\ SentTo(q)'[r] = 0 /\ inbox[q][r] = 0 /\ inbox'[q][r] = amount
          /\ \A from \in Depots : from # r =>
               SentTo(q)'[from] = SentTo(q)[from] /\ inbox'[q][from] = inbox[q][from]
      <4>1. SentTo(q)[r] = amount /\ SentTo(q)'[r] = 0
        BY <1>2, <2>1, <2>7 DEF SentTo, Term!NoSend
      <4>2. inbox[q][r] = 0 /\ inbox'[q][r] = amount
        BY <1>1, <2>1, <2>2, <2>7 DEF SendOrder, TerminalTypes
      <4>3. \A from \in Depots : from # r => SentTo(q)'[from] = SentTo(q)[from]
        BY <1>2 DEF SentTo
      <4> QED BY <2>1, <2>3, <4>1, <4>2, <4>3
    <3>2. q \in Depots /\ IsFiniteSet(Depots)
      BY DEF Term!Assumptions, Term!IsFiniteSet, IsFiniteSet
    <3>3. \A from \in Depots : /\ SentTo(q)[from] \in Int /\ SentTo(q)'[from] \in Int
                               /\ inbox[q][from] \in Int /\ inbox'[q][from] \in Int
      <4>1. \A from \in Depots : SentTo(q)[from] \in Nat /\ inbox[q][from] \in Nat
        BY <1>1, <3>2, IncomingNat
      <4> QED BY <2>1, <3>1, <4>1
    <3> DEFINE a == Sum(SentTo(q), Depots) b == Sum(inbox[q], Depots)
    <3>4. Sum(SentTo(q)', Depots) = a + (0 - amount)
      BY <3>1, <3>2, <3>3, SumChanges
    <3>5. Sum(inbox'[q], Depots) = b + (amount - 0)
      BY <3>1, <3>2, <3>3, SumChanges
    <3>6. a \in Nat /\ b \in Nat
      BY <1>1, <3>2, IncomingNat
    <3>7. (a + (0 - amount)) + (b + (amount - 0)) = a + b
      <4> HIDE DEF a, b, amount
      <4> QED BY <2>1, <3>6
    <3>8. Incoming(q)' = Incoming(q)
      BY <3>4, <3>5, <3>7 DEF Incoming
    <3> QED BY <1>1, <1>2, <3>2, <3>8 DEF TerminalInv, Counted, Fitting
  <2> QED BY <2>4, <2>5, <2>6, <2>7 DEF TerminalInv
<1> QED BY <1>3, <1>4

(* what was sent is delivered, and the counter begins anew *)
LEMMA FinalizeStep == ASSUME Term!Assumptions, TerminalInv, NEW r \in Depots, Term!Finalize(r) PROVE TerminalInv'
<1> DEFINE received == Term!MapThenSumSet(LAMBDA from : inbox[r][from], Depots)
<1>1. /\ TerminalTypes /\ SendOrder /\ (\A q \in Depots : terminalPhase[q] \in {"processed", "finalized"})
      /\ UNCHANGED <<saved, send, day>>
      /\ terminalPhase' = [terminalPhase EXCEPT ![r] = "finalized"] /\ inbox' = [inbox EXCEPT ![r] = Term!Empty]
      /\ stock' = [stock EXCEPT ![r] = stock[r] + received]
      /\ ingress' = [ingress EXCEPT ![r] = IF received > 0 THEN 0 ELSE ingress[r]]
  BY DEF TerminalInv, Term!Finalize, Term!AllIn
<1>2. received \in Nat
  <2>1. received = Term!OnItsWay(r)
    BY DEF Term!OnItsWay
  <2> QED BY <1>1, <2>1, OnItsWayIs, IncomingNat
<1> HIDE DEF received
<1>3. TerminalTypes'
  BY <1>1, <1>2 DEF TerminalTypes, Term!Empty
<1>4. \A q \in Depots : q # r => /\ terminalPhase'[q] = terminalPhase[q] /\ inbox'[q] = inbox[q]
                                 /\ ingress'[q] = ingress[q]
  BY <1>1 DEF TerminalTypes
<1>5. terminalPhase'[r] = "finalized" /\ inbox'[r] = Term!Empty
  BY <1>1 DEF TerminalTypes
<1>6. SendOrder'
  BY <1>1, <1>4, <1>5 DEF SendOrder
<1>7. ASSUME NEW q \in Depots PROVE Counted(q)' /\ Fitting(q)'
  <2>1. CASE q = r
    BY <1>5, <2>1 DEF Counted, Fitting
  <2>2. CASE q # r
    <3>1. SentTo(q)' = SentTo(q)
      BY <1>1 DEF SentTo
    <3> QED BY <1>1, <1>4, <2>2, <3>1, IncomingStays DEF TerminalInv
  <2> QED BY <2>1, <2>2
<1> QED BY <1>3, <1>6, <1>7 DEF TerminalInv

(* the next tick begins with nothing on its way *)
LEMMA NextTickStep == ASSUME Term!Assumptions, TerminalInv, Term!NextTick PROVE TerminalInv'
<1>1. /\ TerminalTypes /\ SendOrder /\ (\A q \in Depots : terminalPhase[q] = "finalized")
      /\ saved' = stock /\ terminalPhase' = [r \in Depots |-> "intents"]
      /\ UNCHANGED <<stock, ingress, send, inbox>>
  BY DEF TerminalInv, Term!NextTick, Term!AllIn
<1>2. \A r \in Depots : send[r] = Term!NoSend /\ inbox[r] = Term!Empty
  BY <1>1 DEF SendOrder
<1>3. TerminalTypes'
  BY <1>1 DEF TerminalTypes
<1>4. SendOrder'
  BY <1>1, <1>2 DEF SendOrder, Term!Empty
<1>5. ASSUME NEW r \in Depots PROVE Counted(r)' /\ Fitting(r)'
  <2>1. \A from \in Depots : SentTo(r)[from] = 0 /\ inbox[r][from] = 0
    BY <1>2 DEF SentTo, Term!NoSend, Term!Empty
  <2>2. Incoming(r) = 0
    BY <1>1, <2>1, NothingIncoming
  <2>3. Incoming(r)' = Incoming(r)
    BY <1>1 DEF Incoming, SentTo
  <2>4. ingress'[r] \in Nat /\ saved'[r] \in Int
    BY <1>3 DEF TerminalTypes
  <2> QED BY <2>2, <2>3, <2>4 DEF Counted, Fitting
<1> QED BY <1>3, <1>4, <1>5 DEF TerminalInv

(* However many rooms send to a terminal in one tick, in whatever order    *)
(* they are processed, what they send together fits into it as it was when *)
(* the tick began: for any number of rooms, amounts and ticks.             *)
THEOREM TerminalsAreNotOverfilled == ASSUME Term!Assumptions PROVE Term!Spec => []SendsFit
<1>1. TerminalInv /\ [Term!Next]_Term!vars => TerminalInv'
  <2> SUFFICES ASSUME TerminalInv, [Term!Next]_Term!vars PROVE TerminalInv'
    OBVIOUS
  <2>1. CASE UNCHANGED Term!vars
    <3>1. UNCHANGED <<stock, saved, ingress, send, inbox, terminalPhase>>
      BY <2>1 DEF Term!vars
    <3>2. TerminalTypes' /\ SendOrder'
      BY <3>1 DEF TerminalInv, TerminalTypes, SendOrder
    <3>3. ASSUME NEW q \in Depots PROVE Counted(q)' /\ Fitting(q)'
      <4>1. SentTo(q)' = SentTo(q)
        BY <3>1 DEF SentTo
      <4> QED BY <3>1, <4>1, IncomingStays DEF TerminalInv
    <3> QED BY <3>2, <3>3 DEF TerminalInv
  <2> QED BY <2>1, IntentSteps, CountsStep, ProcessedStep, FinalizeStep, NextTickStep DEF Term!Next
<1>2. TerminalInv => SendsFit
  <2> SUFFICES ASSUME TerminalInv, NEW r \in Depots, terminalPhase[r] # "finalized"
               PROVE  saved[r] + Term!Promised(r) + Term!OnItsWay(r) <= Max({Capacity, saved[r]})
    BY DEF SendsFit, Term!SendsFit, Term!Max, Max
  <2> DEFINE a == Sum(SentTo(r), Depots) b == Sum(inbox[r], Depots) h == saved[r] m == MaxOf(Capacity, h)
  <2>1. a \in Nat /\ b \in Nat /\ h \in Int /\ Capacity \in Int
    BY IncomingNat DEF TerminalInv, TerminalTypes, Term!Assumptions
  <2>2. h + (a + b) <= Capacity \/ h + (a + b) <= h
    BY DEF TerminalInv, Fitting, Incoming
  <2>3. m \in {Capacity, h} /\ m >= Capacity /\ m >= h
    <3> HIDE DEF h
    <3> QED BY <2>1, OfTwo
  <2>4. h + a + b <= m
    <3> HIDE DEF a, b, h, m
    <3> QED BY <2>1, <2>2, <2>3
  <2> QED BY <2>4, PromisedIs, OnItsWayIs DEF MaxOf
<1> QED BY <1>1, <1>2, TerminalInit, PTL DEF Term!Spec
-----------------------------------------------------------------------------
(***************************************************************************)
(* Notifications: a row of the index is covered by the user's next drain,  *)
(* or by a recorder that is about to schedule one.  While main drains, it  *)
(* owes that to the rows that it does not see any more.                    *)
(***************************************************************************)
Pending == {"row", "index", "schedule", "count"}
Draining == {"pop", "prefs", "flush", "deliver", "remove", "removeRows", "flushRows", "next", "reschedule"}

NoteTypes ==
  /\ now \in Nat /\ throttle \in Nat /\ index \subseteq Rows /\ dueUsers \in Nat \cup {Unscheduled}
  /\ recorder \in [Recorders -> {Notes!Quiet} \cup [pc : Pending, row : Rows, created : BOOLEAN]]
  /\ drain \in {Notes!Quiet} \cup [pc : Draining, found : SUBSET Rows, total : Nat]
  /\ drain.pc = "deliver" => throttle <= now

Covered(row) ==
  \/ dueUsers # Unscheduled /\ (dueUsers <= throttle \/ dueUsers <= Due[row])
  \/ \E r \in Recorders : recorder[r].pc = "schedule" /\ recorder[r].row = row

Owed(row) ==
  /\ drain.pc \in {"none", "flushRows"} => Covered(row)
  /\ drain.pc = "flush" => row \in drain.found \/ Covered(row)
  /\ drain.pc = "reschedule" => drain.total <= Due[row] \/ Covered(row)

NoteInv == NoteTypes /\ \A row \in index : Owed(row)

(* A row stays covered while the user's drain is only moved forward and no *)
(* recorder forgets to schedule.                                           *)
LEMMA StaysCovered ==
  ASSUME Notes!Assumptions, NoteTypes, NEW row \in Rows, Covered(row), throttle' \in Nat, throttle <= throttle',
         dueUsers # Unscheduled => dueUsers' \in Nat /\ dueUsers' <= dueUsers,
         \A r \in Recorders : recorder[r].pc = "schedule" =>
            recorder'[r] = recorder[r] \/ (dueUsers' \in Nat /\ dueUsers' <= Due[recorder[r].row])
  PROVE  Covered(row)'
<1>1. Unscheduled \notin Int /\ Due[row] \in Nat
  BY DEF Notes!Assumptions
<1>2. CASE dueUsers # Unscheduled /\ (dueUsers <= throttle \/ dueUsers <= Due[row])
  <2>1. dueUsers \in Nat /\ dueUsers' \in Nat /\ dueUsers' # Unscheduled /\ dueUsers' <= dueUsers /\ throttle \in Nat
    BY <1>1, <1>2 DEF NoteTypes
  <2>2. dueUsers' <= throttle' \/ dueUsers' <= Due[row]
    BY <1>1, <1>2, <2>1
  <2> QED BY <2>1, <2>2 DEF Covered
<1>3. CASE \E r \in Recorders : recorder[r].pc = "schedule" /\ recorder[r].row = row
  BY <1>1, <1>3 DEF Covered
<1> QED BY <1>2, <1>3 DEF Covered

(* at first there is nothing to deliver *)
LEMMA NotesInit == Notes!Init => NoteInv
<1> SUFFICES ASSUME Notes!Init PROVE NoteInv
  OBVIOUS
<1>1. NoteTypes
  BY DEF Notes!Init, NoteTypes, Notes!Quiet
<1> QED BY <1>1 DEF Notes!Init, NoteInv

(* What recorders do covers the row that they add to the index. *)
LEMMA RecorderSteps ==
  ASSUME Notes!Assumptions, NoteInv, NEW r \in Recorders,
         \/ \E row \in Rows : Notes!Record(r, row)
         \/ Notes!WritesRow(r) \/ Notes!WritesIndex(r) \/ Notes!WritesSchedule(r) \/ Notes!Counts(r)
  PROVE  NoteInv'
<1>1. NoteTypes /\ UNCHANGED <<now, throttle, drain>> /\ \A row \in index : Owed(row)
  BY DEF NoteInv, Notes!Record, Notes!WritesRow, Notes!WritesIndex, Notes!WritesSchedule, Notes!Counts
<1>2. Unscheduled \notin Int /\ \A row \in Rows : Due[row] \in Nat
  BY DEF Notes!Assumptions
<1>3. recorder[r].pc \in Pending => recorder[r] \in [pc : Pending, row : Rows, created : BOOLEAN]
  BY <1>1 DEF NoteTypes, Notes!Quiet, Pending
<1>4. SUFFICES /\ recorder' = [recorder EXCEPT ![r] = recorder'[r]]
               /\ recorder'[r] \in {Notes!Quiet} \cup [pc : Pending, row : Rows, created : BOOLEAN]
               /\ index' \subseteq Rows /\ dueUsers' \in Nat \cup {Unscheduled}
               /\ dueUsers # Unscheduled => dueUsers' \in Nat /\ dueUsers' <= dueUsers
               /\ recorder[r].pc = "schedule" => dueUsers' \in Nat /\ dueUsers' <= Due[recorder[r].row]
               /\ \A row \in index' \ index : recorder'[r].pc = "schedule" /\ recorder'[r].row = row
  <2>1. NoteTypes'
    BY <1>1, <1>4 DEF NoteTypes
  <2>2. ASSUME NEW row \in Rows, Covered(row) PROVE Covered(row)'
    <3>1. \A s \in Recorders : s # r => recorder'[s] = recorder[s]
      BY <1>1, <1>4 DEF NoteTypes
    <3>2. throttle' \in Nat /\ throttle <= throttle'
      BY <1>1 DEF NoteTypes
    <3> QED BY <1>1, <1>4, <2>2, <3>1, <3>2, StaysCovered
  <2>3. ASSUME NEW row \in index' PROVE Owed(row)'
    <3>1. CASE row \in index
      <4>1. Owed(row) /\ row \in Rows
        BY <1>1, <3>1 DEF NoteTypes
      <4> QED BY <1>1, <2>2, <4>1 DEF Owed
    <3>2. CASE row \notin index
      <4>1. Covered(row)'
        BY <1>4, <2>3, <3>2 DEF Covered
      <4> QED BY <4>1 DEF Owed
    <3> QED BY <3>1, <3>2
  <2> QED BY <2>1, <2>3 DEF NoteInv
<1>5. CASE \E row \in Rows : Notes!Record(r, row)
  <2>1. PICK row \in Rows : Notes!Record(r, row)
    BY <1>5
  <2>2. /\ recorder[r] = Notes!Quiet /\ UNCHANGED <<index, dueUsers>>
        /\ recorder' = [recorder EXCEPT ![r] = [pc |-> "row", row |-> row, created |-> FALSE]]
    BY <2>1 DEF Notes!Record, Notes!rows
  <2> QED BY <1>1, <2>2 DEF NoteTypes, Notes!Quiet, Pending
<1>6. CASE Notes!WritesRow(r)
  <2>1. /\ recorder[r].pc = "row" /\ UNCHANGED <<index, dueUsers>>
        /\ recorder' = [recorder EXCEPT ![r].pc = "index", ![r].created = count[recorder[r].row] = 0]
    BY <1>6 DEF Notes!WritesRow, Notes!RecordStep
  <2>2. /\ recorder' = [recorder EXCEPT ![r] = recorder'[r]]
        /\ recorder'[r] \in [pc : Pending, row : Rows, created : BOOLEAN]
    BY <1>1, <1>3, <2>1 DEF NoteTypes, Pending
  <2> QED BY <1>1, <2>1, <2>2 DEF NoteTypes
<1>7. CASE Notes!WritesIndex(r)
  <2>1. /\ recorder[r].pc = "index" /\ UNCHANGED dueUsers /\ index' = index \cup {recorder[r].row}
        /\ recorder' = [recorder EXCEPT ![r].pc = "schedule"]
    BY <1>7 DEF Notes!WritesIndex, Notes!RecordStep, Notes!RecorderGoes
  <2>2. /\ recorder' = [recorder EXCEPT ![r] = recorder'[r]] /\ recorder[r].row \in Rows
        /\ recorder'[r] \in [pc : Pending, row : Rows, created : BOOLEAN]
        /\ recorder'[r].pc = "schedule" /\ recorder'[r].row = recorder[r].row
    BY <1>1, <1>3, <2>1 DEF NoteTypes, Pending
  <2> QED BY <1>1, <2>1, <2>2 DEF NoteTypes
<1>8. CASE Notes!WritesSchedule(r)
  <2>1. /\ recorder[r].pc = "schedule" /\ UNCHANGED index
        /\ dueUsers' = IF dueUsers = Unscheduled \/ Due[recorder[r].row] < dueUsers
                       THEN Due[recorder[r].row] ELSE dueUsers
        /\ recorder' = [recorder EXCEPT ![r] = Notes!Quiet] \/ recorder' = [recorder EXCEPT ![r].pc = "count"]
    BY <1>8 DEF Notes!WritesSchedule, Notes!RecordStep, Notes!RecorderGoes, Notes!ScheduleUserDrain
  <2>2. /\ recorder' = [recorder EXCEPT ![r] = recorder'[r]] /\ recorder[r].row \in Rows
        /\ recorder'[r] \in {Notes!Quiet} \cup [pc : Pending, row : Rows, created : BOOLEAN]
    BY <1>1, <1>3, <2>1 DEF NoteTypes, Pending
  <2>3. Due[recorder[r].row] \in Nat /\ dueUsers \in Nat \cup {Unscheduled}
    BY <1>1, <1>2, <2>2 DEF NoteTypes
  <2>4. dueUsers' \in Nat /\ dueUsers' <= Due[recorder[r].row] /\ (dueUsers # Unscheduled => dueUsers' <= dueUsers)
    BY <1>2, <2>1, <2>3
  <2> QED BY <1>1, <2>1, <2>2, <2>4 DEF NoteTypes
<1>9. CASE Notes!Counts(r)
  <2>1. recorder[r].pc = "count" /\ UNCHANGED <<index, dueUsers>> /\ recorder' = [recorder EXCEPT ![r] = Notes!Quiet]
    BY <1>9 DEF Notes!Counts, Notes!RecordStep
  <2> QED BY <1>1, <2>1 DEF NoteTypes
<1> QED BY <1>5, <1>6, <1>7, <1>8, <1>9

(* a drain that puts the user back, not later than `limit` *)
LEMMA Scheduling ==
  ASSUME Notes!Assumptions, NoteTypes, NEW limit \in Nat, Notes!ScheduleUserDrain(limit)
  PROVE  /\ dueUsers' \in Nat /\ dueUsers' <= limit /\ dueUsers' # Unscheduled
         /\ dueUsers # Unscheduled => dueUsers' <= dueUsers
<1>1. Unscheduled \notin Int /\ dueUsers \in Nat \cup {Unscheduled}
  BY DEF Notes!Assumptions, NoteTypes
<1> QED BY <1>1 DEF Notes!ScheduleUserDrain

(* main, from the user who is due to the one who is put back *)
LEMMA DrainSteps ==
  ASSUME Notes!Assumptions, NoteInv,
         \/ Notes!FindsUser \/ Notes!PopsUser \/ Notes!FindsAll \/ Notes!Throttled \/ Notes!FindsDue
         \/ Notes!Delivers \/ Notes!RemovesIndex \/ Notes!RemovesRows \/ Notes!FlushesRows
         \/ Notes!FindsNext \/ Notes!Reschedules
  PROVE  NoteInv'
<1>1. NoteTypes /\ UNCHANGED <<now, recorder>> /\ \A row \in index : Owed(row)
  BY DEF NoteInv, Notes!FindsUser, Notes!PopsUser, Notes!FindsAll, Notes!Throttled, Notes!FindsDue,
     Notes!Delivers, Notes!RemovesIndex, Notes!RemovesRows, Notes!FlushesRows, Notes!FindsNext,
     Notes!Reschedules, Notes!OnlyDrain
<1>2. Unscheduled \notin Int /\ \A row \in Rows : Due[row] \in Nat
  BY DEF Notes!Assumptions
<1>3. drain.pc \in Draining => drain \in [pc : Draining, found : SUBSET Rows, total : Nat]
  BY <1>1 DEF NoteTypes, Notes!Quiet, Draining
<1> DEFINE Drains(d) == d \in {Notes!Quiet} \cup [pc : Draining, found : SUBSET Rows, total : Nat]
<1>4. ASSUME NEW row \in Rows, Covered(row), UNCHANGED throttle, UNCHANGED dueUsers PROVE Covered(row)'
  BY <1>1, <1>4 DEF Covered
<1>5. CASE Notes!FindsUser
  <2>1. drain' = [pc |-> "pop", found |-> {}, total |-> 0] /\ UNCHANGED <<index, throttle, dueUsers>>
    BY <1>5 DEF Notes!FindsUser, Notes!OnlyDrain, Notes!rows
  <2>2. NoteTypes'
    BY <1>1, <2>1 DEF NoteTypes, Draining
  <2> QED BY <2>1, <2>2 DEF NoteInv, Owed
<1>6. CASE Notes!PopsUser
  <2>1. /\ drain.pc = "pop" /\ drain' = [drain EXCEPT !.pc = "prefs"] /\ dueUsers' = Unscheduled
        /\ UNCHANGED <<index, throttle>>
    BY <1>6 DEF Notes!PopsUser, Notes!DrainStep, Notes!DrainGoes
  <2>2. drain' \in [pc : Draining, found : SUBSET Rows, total : Nat] /\ drain'.pc = "prefs"
    BY <1>3, <2>1 DEF Draining
  <2>3. NoteTypes'
    BY <1>1, <2>1, <2>2 DEF NoteTypes
  <2> QED BY <2>2, <2>3 DEF NoteInv, Owed
<1>7. CASE Notes!FindsAll
  <2>1. /\ drain.pc = "prefs" /\ drain' = [drain EXCEPT !.pc = "flush", !.found = index]
        /\ UNCHANGED <<index, throttle, dueUsers>>
    BY <1>7 DEF Notes!FindsAll, Notes!DrainStep, Notes!OnlyDrain, Notes!rows
  <2>2. /\ drain' \in [pc : Draining, found : SUBSET Rows, total : Nat] /\ drain'.pc = "flush"
        /\ drain'.found = index
    BY <1>1, <1>3, <2>1 DEF NoteTypes, Draining
  <2>3. NoteTypes'
    BY <1>1, <2>1, <2>2 DEF NoteTypes
  <2> QED BY <2>1, <2>2, <2>3 DEF NoteInv, Owed
<1>8. CASE Notes!Throttled
  <2>1. drain' = Notes!Quiet /\ Notes!ScheduleUserDrain(throttle) /\ UNCHANGED <<index, throttle>>
    BY <1>8 DEF Notes!Throttled
  <2>2. throttle \in Nat /\ dueUsers' \in Nat /\ dueUsers' <= throttle /\ dueUsers' # Unscheduled
    BY <1>1, <2>1, Scheduling DEF NoteTypes
  <2>3. NoteTypes'
    BY <1>1, <2>1, <2>2 DEF NoteTypes, Notes!Quiet
  <2>4. \A row \in index' : Covered(row)'
    BY <2>1, <2>2 DEF Covered
  <2> QED BY <2>1, <2>3, <2>4 DEF NoteInv, Owed, Notes!Quiet
<1>9. CASE Notes!FindsDue
  <2>1. /\ drain.pc = "prefs" /\ throttle <= now /\ UNCHANGED <<index, throttle, dueUsers>>
        /\ drain' = [drain EXCEPT !.pc = IF {row \in index : Due[row] <= now} = {} THEN "next" ELSE "deliver",
                                  !.found = {row \in index : Due[row] <= now}]
    BY <1>9 DEF Notes!FindsDue, Notes!DrainStep, Notes!OnlyDrain, Notes!rows
  <2>2. {row \in index : Due[row] <= now} \in SUBSET Rows
    BY <1>1 DEF NoteTypes
  <2>3. drain' \in [pc : Draining, found : SUBSET Rows, total : Nat] /\ drain'.pc \in {"next", "deliver"}
    BY <1>3, <2>1, <2>2 DEF Draining
  <2>4. NoteTypes'
    BY <1>1, <2>1, <2>3 DEF NoteTypes
  <2> QED BY <2>3, <2>4 DEF NoteInv, Owed
<1>10. CASE Notes!Delivers
  <2>1. /\ drain.pc = "deliver" /\ throttle' = now + Interval /\ drain' = [drain EXCEPT !.pc = "remove"]
        /\ UNCHANGED <<index, dueUsers>>
    BY <1>10 DEF Notes!Delivers, Notes!DrainStep, Notes!DrainGoes, Notes!rows
  <2>2. drain' \in [pc : Draining, found : SUBSET Rows, total : Nat] /\ drain'.pc = "remove"
    BY <1>3, <2>1 DEF Draining
  <2>3. throttle' \in Nat
    BY <1>1, <2>1 DEF NoteTypes, Notes!Assumptions
  <2>4. NoteTypes'
    BY <1>1, <2>1, <2>2, <2>3 DEF NoteTypes
  <2> QED BY <2>2, <2>4 DEF NoteInv, Owed
<1>11. CASE Notes!RemovesIndex
  <2>1. /\ drain.pc \in {"remove", "flush"} /\ index' = index \ drain.found /\ UNCHANGED <<throttle, dueUsers>>
        /\ drain' = [drain EXCEPT !.pc = IF drain.pc = "flush" THEN "flushRows" ELSE "removeRows"]
    BY <1>11 DEF Notes!RemovesIndex, Notes!DrainStep, Notes!DrainGoes
  <2>2. /\ drain' \in [pc : Draining, found : SUBSET Rows, total : Nat]
        /\ drain'.pc = IF drain.pc = "flush" THEN "flushRows" ELSE "removeRows"
    BY <1>3, <2>1 DEF Draining
  <2>3. NoteTypes'
    BY <1>1, <2>1, <2>2 DEF NoteTypes
  <2>4. ASSUME NEW row \in index', drain'.pc = "flushRows" PROVE Covered(row)'
    <3>1. row \in Rows /\ Covered(row)
      BY <1>1, <2>1, <2>2, <2>4 DEF NoteTypes, Owed
    <3> QED BY <1>4, <2>1, <3>1
  <2> QED BY <2>2, <2>3, <2>4 DEF NoteInv, Owed
<1>12. CASE Notes!RemovesRows
  <2>1. drain.pc = "removeRows" /\ drain' = [drain EXCEPT !.pc = "next"] /\ UNCHANGED <<index, throttle, dueUsers>>
    BY <1>12 DEF Notes!RemovesRows, Notes!DrainStep, Notes!DrainGoes
  <2>2. drain' \in [pc : Draining, found : SUBSET Rows, total : Nat] /\ drain'.pc = "next"
    BY <1>3, <2>1 DEF Draining
  <2>3. NoteTypes'
    BY <1>1, <2>1, <2>2 DEF NoteTypes
  <2> QED BY <2>2, <2>3 DEF NoteInv, Owed
<1>13. CASE Notes!FlushesRows
  <2>1. drain.pc = "flushRows" /\ drain' = Notes!Quiet /\ UNCHANGED <<index, throttle, dueUsers>>
    BY <1>13 DEF Notes!FlushesRows, Notes!DrainStep
  <2>2. NoteTypes'
    BY <1>1, <2>1 DEF NoteTypes, Notes!Quiet
  <2>3. ASSUME NEW row \in index' PROVE Covered(row)'
    <3>1. row \in Rows /\ Covered(row)
      BY <1>1, <2>1, <2>3 DEF NoteTypes, Owed
    <3> QED BY <1>4, <2>1, <3>1
  <2> QED BY <2>1, <2>2, <2>3 DEF NoteInv, Owed, Notes!Quiet
<1>14. CASE Notes!FindsNext
  <2>1. drain.pc = "next" /\ UNCHANGED <<index, throttle, dueUsers>>
    BY <1>14 DEF Notes!FindsNext, Notes!DrainStep, Notes!OnlyDrain, Notes!rows
  <2>2. CASE index = {}
    <3>1. drain' = Notes!Quiet
      BY <1>14, <2>2 DEF Notes!FindsNext
    <3>2. NoteTypes'
      BY <1>1, <2>1, <3>1 DEF NoteTypes, Notes!Quiet
    <3> QED BY <2>1, <2>2, <3>2 DEF NoteInv
  <2>3. CASE index # {}
    <3> DEFINE next == Min({Due[row] : row \in index})
    <3>1. drain' = [drain EXCEPT !.pc = "reschedule", !.total = next]
      BY <1>14, <2>3 DEF Notes!FindsNext, Notes!Min, Min
    <3>2. next \in Nat /\ \A row \in index : next <= Due[row]
      <4>1. {Due[row] : row \in index} \in SUBSET Nat /\ {Due[row] : row \in index} # {}
        BY <1>1, <1>2, <2>3 DEF NoteTypes
      <4>2. next \in {Due[row] : row \in index} /\ \A n \in {Due[row] : row \in index} : next <= n
        BY <4>1, LeastIsThere
      <4> QED BY <4>1, <4>2
    <3> HIDE DEF next
    <3>3. /\ drain' \in [pc : Draining, found : SUBSET Rows, total : Nat]
          /\ drain'.pc = "reschedule" /\ drain'.total = next
      BY <1>3, <2>1, <3>1, <3>2 DEF Draining
    <3>4. NoteTypes'
      BY <1>1, <2>1, <3>3 DEF NoteTypes
    <3> QED BY <2>1, <3>2, <3>3, <3>4 DEF NoteInv, Owed
  <2> QED BY <2>2, <2>3
<1>15. CASE Notes!Reschedules
  <2>1. /\ drain.pc = "reschedule" /\ drain' = Notes!Quiet /\ Notes!ScheduleUserDrain(drain.total)
        /\ UNCHANGED <<index, throttle>>
    BY <1>15 DEF Notes!Reschedules, Notes!DrainStep
  <2>2. drain.total \in Nat
    BY <1>3, <2>1 DEF Draining
  <2>3. /\ dueUsers' \in Nat /\ dueUsers' <= drain.total /\ dueUsers' # Unscheduled
        /\ dueUsers # Unscheduled => dueUsers' <= dueUsers
    BY <1>1, <2>1, <2>2, Scheduling
  <2>4. NoteTypes'
    BY <1>1, <2>1, <2>3 DEF NoteTypes, Notes!Quiet
  <2>5. ASSUME NEW row \in index' PROVE Covered(row)'
    <3>1. row \in Rows /\ (drain.total <= Due[row] \/ Covered(row)) /\ Due[row] \in Nat
      BY <1>1, <1>2, <2>1, <2>5 DEF NoteTypes, Owed
    <3>2. CASE Covered(row)
      <4>1. throttle' \in Nat /\ throttle <= throttle'
        BY <1>1, <2>1 DEF NoteTypes
      <4> QED BY <1>1, <2>3, <3>1, <3>2, <4>1, StaysCovered
    <3>3. CASE drain.total <= Due[row]
      BY <2>2, <2>3, <3>1, <3>3 DEF Covered
    <3> QED BY <3>1, <3>2, <3>3
  <2> QED BY <2>1, <2>4, <2>5 DEF NoteInv, Owed, Notes!Quiet
<1> QED BY <1>5, <1>6, <1>7, <1>8, <1>9, <1>10, <1>11, <1>12, <1>13, <1>14, <1>15

(* so no step leaves a row uncovered *)
LEMMA NoteSteps == ASSUME Notes!Assumptions PROVE NoteInv /\ [Notes!Next]_Notes!vars => NoteInv'
<1> SUFFICES ASSUME NoteInv, [Notes!Next]_Notes!vars PROVE NoteInv'
  OBVIOUS
<1>1. CASE Notes!TimePasses
  <2>1. now' = now + 1 /\ UNCHANGED <<index, dueUsers, throttle, recorder, drain>>
    BY <1>1 DEF Notes!TimePasses, Notes!rows
  <2>2. NoteTypes'
    BY <2>1 DEF NoteInv, NoteTypes
  <2> QED BY <2>1, <2>2 DEF NoteInv, Owed, Covered
<1>2. CASE UNCHANGED Notes!vars
  BY <1>2 DEF Notes!vars, Notes!rows, NoteInv, NoteTypes, Owed, Covered
<1> QED BY <1>1, <1>2, RecorderSteps, DrainSteps DEF Notes!Next

(* However records and a drain of the same user interleave, no row is left *)
(* without a drain to come that is not later than its group and the user's *)
(* throttle allow: for any number of recorders, rows and due times.        *)
THEOREM NobodyIsStranded == ASSUME Notes!Assumptions PROVE Notes!Spec => []NothingStranded
<1>1. NoteInv => NothingStranded
  <2> SUFFICES ASSUME NoteInv, Notes!AllQuiet, index # {}
               PROVE  dueUsers # Unscheduled /\ dueUsers <= Max({throttle, Min({Due[row] : row \in index})})
    BY DEF NothingStranded, Notes!NothingStranded, Notes!Min, Notes!Max, Min, Max
  <2> DEFINE next == Min({Due[row] : row \in index})
  <2>1. /\ NoteTypes /\ throttle \in Nat /\ dueUsers \in Nat \cup {Unscheduled}
        /\ \A row \in Rows : Due[row] \in Nat
    BY DEF NoteInv, NoteTypes, Notes!Assumptions
  <2>2. {Due[row] : row \in index} \in SUBSET Nat /\ {Due[row] : row \in index} # {}
    BY <2>1 DEF NoteTypes
  <2>3. PICK row \in index : next = Due[row]
    BY <2>2, LeastIsThere
  <2>4. dueUsers # Unscheduled /\ (dueUsers <= throttle \/ dueUsers <= Due[row])
    <3>1. Covered(row)
      BY DEF NoteInv, Owed, Notes!AllQuiet, Notes!Quiet
    <3>2. \A r \in Recorders : recorder[r].pc = "none"
      BY DEF Notes!AllQuiet, Notes!NobodyRecords, Notes!Quiet
    <3> QED BY <3>1, <3>2 DEF Covered
  <2>5. next \in Nat /\ dueUsers \in Nat /\ (dueUsers <= throttle \/ dueUsers <= next)
    BY <2>1, <2>2, <2>3, <2>4, LeastIsThere
  <2> HIDE DEF next
  <2>6. Max({throttle, next}) \in {throttle, next} /\ throttle <= Max({throttle, next}) /\ next <= Max({throttle, next})
    <3>1. \E m \in {throttle, next} : \A n \in {throttle, next} : m >= n
      BY <2>1, <2>5
    <3>2. /\ Max({throttle, next}) \in {throttle, next}
          /\ \A n \in {throttle, next} : Max({throttle, next}) >= n
      BY <3>1 DEF Max
    <3> QED BY <2>1, <2>5, <3>2
  <2>7. dueUsers <= Max({throttle, next})
    <3> DEFINE m == Max({throttle, next})
    <3>1. m \in Nat /\ throttle <= m /\ next <= m
      BY <2>1, <2>5, <2>6
    <3> HIDE DEF m
    <3>2. dueUsers <= m
      BY <2>1, <2>5, <3>1
    <3> QED BY <3>2 DEF m
  <2> QED BY <2>4, <2>7 DEF next
<1> QED BY <1>1, NotesInit, NoteSteps, PTL DEF Notes!Spec
-----------------------------------------------------------------------------
(***************************************************************************)
(* Unless they are recorded during a drain, occurrences are delivered,     *)
(* counted in a row, or yet to be counted by a recorder.  Those of rows    *)
(* that are being removed have been delivered already.                     *)
(***************************************************************************)
Owes(state) ==
  IF state.pc \in {"row", "count"} \/ (state.pc \in {"index", "schedule"} /\ ~state.created) THEN 1 ELSE 0
Uncounted == [r \in Recorders |-> Owes(recorder[r])]
Removing == IF drain.pc \in {"remove", "removeRows"} THEN drain.found ELSE {}

Exclusive == drain = Notes!Quiet \/ Notes!NobodyRecords
Accounts == recorded + Sum(count, Removing) = delivered + Sum(count, Rows) + Sum(Uncounted, Recorders)

CountTypes == count \in [Rows -> Nat] /\ recorded \in Nat /\ delivered \in Nat /\ overlapped \in BOOLEAN
CountInv == CountTypes /\ (~overlapped => Exclusive /\ Accounts)

(* the sums of the model *)
LEMMA CountedIs == ASSUME NEW S PROVE Notes!MapThenSumSet(LAMBDA row : count[row], S) = Sum(count, S)
  BY DEF Sum, Notes!MapThenSumSet, MapThenSumSet, MapThenFoldSet, Notes!MapThenFoldSet

(* sums of counts *)
LEMMA CountSums ==
  ASSUME Notes!Assumptions, NEW counts \in [Rows -> Nat], NEW S \in SUBSET Rows
  PROVE  Sum(counts, S) \in Nat /\ Sum(counts, {}) = 0
<1>1. IsFiniteSet(Rows)
  BY DEF Notes!Assumptions, Notes!IsFiniteSet, IsFiniteSet
<1>2. IsFiniteSet(S)
  BY <1>1, FS_Subset
<1> QED BY <1>1, <1>2, SumNatural, SumOut

(* what is left after rows are removed *)
LEMMA Removed ==
  ASSUME Notes!Assumptions, CountTypes, NEW gone \in SUBSET Rows
  PROVE  Notes!Without(gone) \in [Rows -> Nat] /\ Sum(Notes!Without(gone), Rows) + Sum(count, gone) = Sum(count, Rows)
<1> DEFINE left == Notes!Without(gone)
<1>1. left \in [Rows -> Nat] /\ \A row \in Rows : left[row] = IF row \in gone THEN 0 ELSE count[row]
  BY DEF Notes!Without, CountTypes
<1>2. IsFiniteSet(Rows) /\ IsFiniteSet(gone) /\ IsFiniteSet(Rows \ gone)
  <2>1. IsFiniteSet(Rows) /\ Rows \ gone \in SUBSET Rows
    BY DEF Notes!Assumptions, Notes!IsFiniteSet, IsFiniteSet
  <2> QED BY <2>1, FS_Subset
<1> HIDE DEF left
<1>3. Sum(left, Rows) = Sum(left, gone) + Sum(left, Rows \ gone)
  BY <1>1, <1>2, SumParts
<1>4. Sum(left, gone) = 0
  BY <1>1, <1>2, SumNatural
<1>5. Sum(left, Rows \ gone) = Sum(count, Rows \ gone)
  BY <1>1, <1>2, SumSame
<1>6. Sum(count, Rows) = Sum(count, gone) + Sum(count, Rows \ gone)
  <2>1. \A row \in Rows : count[row] \in Int
    BY DEF CountTypes
  <2> QED BY <1>2, <2>1, SumParts
<1>7. Sum(count, gone) \in Nat /\ Sum(count, Rows \ gone) \in Nat
  BY CountSums DEF CountTypes
<1> DEFINE x == Sum(count, gone) y == Sum(count, Rows \ gone)
<1>8. (0 + y) + x = x + y
  <2>1. x \in Nat /\ y \in Nat
    BY <1>7
  <2> HIDE DEF x, y
  <2> QED BY <2>1
<1> QED BY <1>1, <1>3, <1>4, <1>5, <1>6, <1>8 DEF left

(* a step of one recorder *)
LEMMA Uncounts ==
  ASSUME Notes!Assumptions, NEW r \in Recorders, \A s \in Recorders : s # r => recorder'[s] = recorder[s]
  PROVE  /\ Sum(Uncounted, Recorders) \in Nat /\ Uncounted[r] \in {0, 1} /\ Uncounted'[r] \in {0, 1}
         /\ Uncounted[r] = Owes(recorder[r]) /\ Uncounted'[r] = Owes(recorder'[r])
         /\ Sum(Uncounted', Recorders) = Sum(Uncounted, Recorders) + (Uncounted'[r] - Uncounted[r])
<1>1. \A s \in Recorders : /\ Uncounted[s] = Owes(recorder[s]) /\ Uncounted'[s] = Owes(recorder'[s])
                           /\ Uncounted[s] \in {0, 1} /\ Uncounted'[s] \in {0, 1}
  BY DEF Uncounted, Owes
<1>2. \A s \in Recorders : s # r => Uncounted'[s] = Uncounted[s]
  BY <1>1
<1>3. IsFiniteSet(Recorders)
  BY DEF Notes!Assumptions, Notes!IsFiniteSet, IsFiniteSet
<1> DEFINE before == Uncounted after == Uncounted'
<1> HIDE DEF before, after
<1>4. /\ \A s \in Recorders : before[s] \in Nat /\ after[s] \in Nat
      /\ \A s \in Recorders : s # r => after[s] = before[s]
  BY <1>1, <1>2 DEF before, after
<1>5. Sum(before, Recorders) \in Nat
  BY <1>3, <1>4, SumNatural
<1>6. Sum(after, Recorders) = Sum(before, Recorders) + (after[r] - before[r])
  BY <1>3, <1>4, SumChanges
<1> QED BY <1>1, <1>5, <1>6 DEF before, after

(* Each occurrence is counted by the claim of its row, or by an increment. *)
LEMMA RecorderCounts ==
  ASSUME Notes!Assumptions, NoteInv, CountInv, NEW r \in Recorders,
         \/ \E row \in Rows : Notes!Record(r, row)
         \/ Notes!WritesRow(r) \/ Notes!WritesIndex(r) \/ Notes!WritesSchedule(r) \/ Notes!Counts(r)
  PROVE  CountInv'
<1>1. NoteTypes /\ CountTypes /\ UNCHANGED <<drain, delivered>> /\ overlapped' \in BOOLEAN /\ (overlapped => overlapped')
  BY DEF NoteInv, CountInv, CountTypes, Notes!Record, Notes!WritesRow, Notes!WritesIndex,
     Notes!WritesSchedule, Notes!Counts
<1>2. recorder[r].pc \in Pending => recorder[r] \in [pc : Pending, row : Rows, created : BOOLEAN]
  BY <1>1 DEF NoteTypes, Notes!Quiet, Pending
<1>3. SUFFICES /\ \A s \in Recorders : s # r => recorder'[s] = recorder[s]
               /\ ~overlapped' => ~overlapped /\ (drain = Notes!Quiet \/ recorder[r].pc \in Pending)
               /\ \/ count' = count /\ recorded' \in Nat /\ recorded' + Owes(recorder[r]) = recorded + Owes(recorder'[r])
                  \/ /\ recorded' = recorded /\ Owes(recorder[r]) = 1 /\ Owes(recorder'[r]) = 0
                     /\ \E row \in Rows : count' = [count EXCEPT ![row] = count[row] + 1]
  <2>1. CountTypes'
    BY <1>1, <1>3 DEF CountTypes
  <2>2. ASSUME ~overlapped' PROVE Exclusive' /\ Accounts'
    <3>1. drain = Notes!Quiet /\ drain' = Notes!Quiet /\ Accounts
      BY <1>1, <1>3, <2>2 DEF CountInv, Exclusive, Notes!NobodyRecords, Notes!Quiet, Pending
    <3>2. Removing = {} /\ Removing' = {}
      BY <3>1 DEF Removing, Notes!Quiet
    <3> DEFINE owed == Sum(Uncounted, Recorders) sum == Sum(count, Rows)
               was == Owes(recorder[r]) becomes == Owes(recorder'[r])
    <3>3. /\ owed \in Nat /\ was \in {0, 1} /\ becomes \in {0, 1}
          /\ Sum(Uncounted', Recorders) = owed + (becomes - was)
      BY <1>3, Uncounts
    <3>4. sum \in Nat /\ Sum(count, {}) = 0 /\ Sum(count', {}) = 0
      <4>1. Sum(count', {}) = 0
        BY <2>1, CountSums DEF CountTypes
      <4> QED BY <1>1, <4>1, CountSums DEF CountTypes
    <3>5. recorded + 0 = delivered + sum + owed
      BY <3>1, <3>2, <3>4 DEF Accounts
    <3>6. recorded \in Nat /\ recorded' \in Nat /\ delivered \in Nat
      BY <1>1, <2>1 DEF CountTypes
    <3>7. SUFFICES recorded' + 0 = delivered + Sum(count', Rows) + (owed + (becomes - was))
      BY <1>1, <3>1, <3>2, <3>3, <3>4 DEF Accounts, Exclusive
    <3>8. CASE count' = count /\ recorded' + was = recorded + becomes
      <4> DEFINE next == recorded'
      <4>2. next + was = recorded + becomes /\ next \in Nat /\ sum \in Nat
        BY <3>4, <3>6, <3>8
      <4>3. owed \in Nat /\ was \in {0, 1} /\ becomes \in {0, 1}
        BY <3>3
      <4>1. next + 0 = delivered + sum + (owed + (becomes - was))
        <5> HIDE DEF sum, owed, was, becomes, next
        <5> QED BY <3>5, <3>6, <4>2, <4>3
      <4> QED BY <3>8, <4>1
    <3>9. CASE /\ recorded' = recorded /\ was = 1 /\ becomes = 0
               /\ \E row \in Rows : count' = [count EXCEPT ![row] = count[row] + 1]
      <4>1. PICK row \in Rows : count' = [count EXCEPT ![row] = count[row] + 1]
        BY <3>9
      <4>2. Sum(count', Rows) = sum + (count'[row] - count[row])
        <5> DEFINE before == count after == count'
        <5>1. IsFiniteSet(Rows)
          BY DEF Notes!Assumptions, Notes!IsFiniteSet, IsFiniteSet
        <5>2. /\ \A x \in Rows : before[x] \in Int /\ after[x] \in Int
              /\ \A x \in Rows : x # row => after[x] = before[x]
          BY <1>1, <2>1, <4>1 DEF CountTypes
        <5> HIDE DEF before, after
        <5>3. Sum(after, Rows) = Sum(before, Rows) + (after[row] - before[row])
          BY <5>1, <5>2, SumChanges
        <5> QED BY <5>3 DEF before, after
      <4>3. count'[row] - count[row] = 1
        BY <1>1, <4>1 DEF CountTypes
      <4>4. recorded' + 0 = delivered + (sum + 1) + (owed + (becomes - was))
        <5> HIDE DEF sum, owed, was, becomes
        <5> QED BY <3>3, <3>4, <3>5, <3>6, <3>9
      <4> QED BY <4>2, <4>3, <4>4
    <3> QED BY <1>3, <3>8, <3>9
  <2> QED BY <2>1, <2>2 DEF CountInv
<1>4. CASE \E row \in Rows : Notes!Record(r, row)
  <2>1. PICK row \in Rows : Notes!Record(r, row)
    BY <1>4
  <2>2. /\ recorder[r] = Notes!Quiet /\ count' = count /\ recorded' = recorded + 1
        /\ ~overlapped' => ~overlapped /\ drain = Notes!Quiet
        /\ recorder' = [recorder EXCEPT ![r] = [pc |-> "row", row |-> row, created |-> FALSE]]
    BY <2>1 DEF Notes!Record, Notes!rows
  <2>3. recorder'[r] = [pc |-> "row", row |-> row, created |-> FALSE]
    BY <1>1, <2>2 DEF NoteTypes
  <2>4. Owes(recorder[r]) = 0 /\ Owes(recorder'[r]) = 1
    BY <2>2, <2>3 DEF Owes, Notes!Quiet
  <2> QED BY <1>1, <2>2, <2>4 DEF NoteTypes, CountTypes
<1>5. CASE Notes!WritesRow(r)
  <2> DEFINE row == recorder[r].row
  <2>1. /\ recorder[r].pc = "row" /\ recorded' = recorded
        /\ count' = [count EXCEPT ![row] = IF count[row] = 0 THEN 1 ELSE count[row]]
        /\ recorder' = [recorder EXCEPT ![r].pc = "index", ![r].created = count[row] = 0]
    BY <1>5 DEF Notes!WritesRow, Notes!RecordStep, Notes!ClaimRow
  <2>2. row \in Rows /\ recorder'[r].pc = "index" /\ (recorder'[r].created <=> count[row] = 0)
    BY <1>1, <1>2, <2>1 DEF NoteTypes, Pending
  <2>3. Owes(recorder[r]) = 1 /\ Owes(recorder'[r]) = IF count[row] = 0 THEN 0 ELSE 1
    BY <2>1, <2>2 DEF Owes
  <2>4. CASE count[row] = 0
    <3>1. count' = [count EXCEPT ![row] = count[row] + 1]
      BY <2>1, <2>4
    <3> QED BY <1>1, <2>1, <2>2, <2>3, <2>4, <3>1 DEF NoteTypes, Pending
  <2>5. CASE count[row] # 0
    <3>1. count' = count
      BY <1>1, <2>1, <2>5 DEF CountTypes
    <3> QED BY <1>1, <2>1, <2>2, <2>3, <2>5, <3>1 DEF NoteTypes, CountTypes, Pending
  <2> QED BY <2>4, <2>5
<1>6. CASE Notes!WritesIndex(r)
  <2>1. /\ recorder[r].pc = "index" /\ recorded' = recorded /\ count' = count
        /\ recorder' = [recorder EXCEPT ![r].pc = "schedule"]
    BY <1>6 DEF Notes!WritesIndex, Notes!RecordStep, Notes!RecorderGoes
  <2>2. recorder'[r].pc = "schedule" /\ recorder'[r].created = recorder[r].created
    BY <1>1, <1>2, <2>1 DEF NoteTypes, Pending
  <2>3. Owes(recorder[r]) = Owes(recorder'[r])
    BY <2>1, <2>2 DEF Owes
  <2> QED BY <1>1, <2>1, <2>3 DEF NoteTypes, CountTypes, Pending
<1>7. CASE Notes!WritesSchedule(r)
  <2>1. /\ recorder[r].pc = "schedule" /\ recorded' = recorded /\ count' = count
        /\ recorder' = IF recorder[r].created THEN [recorder EXCEPT ![r] = Notes!Quiet]
                       ELSE [recorder EXCEPT ![r].pc = "count"]
    BY <1>7 DEF Notes!WritesSchedule, Notes!RecordStep, Notes!RecorderGoes
  <2>2. IF recorder[r].created THEN recorder'[r].pc = "none" ELSE recorder'[r].pc = "count"
    BY <1>1, <1>2, <2>1 DEF NoteTypes, Pending, Notes!Quiet
  <2>3. Owes(recorder[r]) = Owes(recorder'[r])
    BY <2>1, <2>2 DEF Owes
  <2> QED BY <1>1, <2>1, <2>3 DEF NoteTypes, CountTypes, Pending
<1>8. CASE Notes!Counts(r)
  <2> DEFINE row == recorder[r].row
  <2>1. /\ recorder[r].pc = "count" /\ recorded' = recorded
        /\ count' = [count EXCEPT ![row] = count[row] + 1] /\ recorder' = [recorder EXCEPT ![r] = Notes!Quiet]
    BY <1>8 DEF Notes!Counts, Notes!RecordStep
  <2>2. row \in Rows /\ recorder'[r].pc = "none"
    BY <1>1, <1>2, <2>1 DEF NoteTypes, Pending, Notes!Quiet
  <2>3. Owes(recorder[r]) = 1 /\ Owes(recorder'[r]) = 0
    BY <2>1, <2>2 DEF Owes
  <2> QED BY <1>1, <2>1, <2>2, <2>3 DEF NoteTypes, Pending
<1> QED BY <1>4, <1>5, <1>6, <1>7, <1>8

(* The drain delivers what it counted in the rows that it removes. *)
LEMMA DrainCounts ==
  ASSUME Notes!Assumptions, NoteInv, CountInv,
         \/ Notes!FindsUser \/ Notes!PopsUser \/ Notes!FindsAll \/ Notes!Throttled \/ Notes!FindsDue
         \/ Notes!Delivers \/ Notes!RemovesIndex \/ Notes!RemovesRows \/ Notes!FlushesRows
         \/ Notes!FindsNext \/ Notes!Reschedules
  PROVE  CountInv'
<1>1. NoteTypes /\ CountTypes /\ UNCHANGED <<recorder, recorded>> /\ overlapped' \in BOOLEAN
  BY DEF NoteInv, CountInv, CountTypes, Notes!FindsUser, Notes!PopsUser, Notes!FindsAll, Notes!Throttled,
     Notes!FindsDue,
     Notes!Delivers, Notes!RemovesIndex, Notes!RemovesRows, Notes!FlushesRows, Notes!FindsNext,
     Notes!Reschedules, Notes!OnlyDrain
<1>2. drain.pc \in Draining => drain \in [pc : Draining, found : SUBSET Rows, total : Nat]
  BY <1>1 DEF NoteTypes, Notes!Quiet, Draining
<1>3. ~overlapped' => ~overlapped /\ Notes!NobodyRecords'
  <2>1. ~overlapped' => ~overlapped /\ (drain.pc \in Draining \/ Notes!NobodyRecords)
    BY <1>1 DEF Notes!FindsUser, Notes!PopsUser, Notes!FindsAll, Notes!Throttled, Notes!FindsDue,
       Notes!Delivers, Notes!RemovesIndex, Notes!RemovesRows, Notes!FlushesRows, Notes!FindsNext,
       Notes!Reschedules, Notes!DrainStep, Notes!OnlyDrain, CountTypes, Draining
  <2>2. drain.pc \in Draining => drain # Notes!Quiet
    BY DEF Draining, Notes!Quiet
  <2> QED BY <1>1, <2>1, <2>2 DEF CountInv, Exclusive, Notes!NobodyRecords
<1> DEFINE found == drain.found
<1>4. SUFFICES \/ Removing' = Removing /\ UNCHANGED <<count, delivered>>
               \/ /\ found \in SUBSET Rows /\ Removing = {} /\ Removing' = found
                  /\ count' = count /\ delivered' = delivered + Sum(count, found)
               \/ /\ found \in SUBSET Rows /\ Removing = found /\ Removing' = {}
                  /\ count' = Notes!Without(found) /\ delivered' = delivered
               \/ /\ found \in SUBSET Rows /\ Removing = {} /\ Removing' = {}
                  /\ count' = Notes!Without(found) /\ delivered' = delivered + Sum(count, found)
  <2>1. CASE Removing' = Removing /\ UNCHANGED <<count, delivered>>
    <3>1. CountTypes' /\ (Accounts => Accounts') /\ (~overlapped' => ~overlapped /\ Exclusive')
      BY <1>1, <1>3, <2>1 DEF CountTypes, Accounts, Uncounted, Exclusive
    <3> QED BY <3>1 DEF CountInv
  <2>2. CASE ~ (Removing' = Removing /\ UNCHANGED <<count, delivered>>)
    <3> DEFINE owed == Sum(Uncounted, Recorders) sum == Sum(count, Rows) part == Sum(count, found)
               after == Sum(Notes!Without(found), Rows)
    <3>1. found \in SUBSET Rows
      BY <1>4, <2>2
    <3>2. part \in Nat /\ sum \in Nat /\ Sum(count, {}) = 0
      BY <1>1, <3>1, CountSums DEF CountTypes
    <3>3. Notes!Without(found) \in [Rows -> Nat] /\ after + part = sum
      BY <1>1, <3>1, Removed
    <3>4. delivered + part \in Nat /\ recorded \in Nat /\ delivered \in Nat
      BY <1>1, <3>2 DEF CountTypes
    <3>5. CountTypes'
      BY <1>1, <1>4, <2>2, <3>3, <3>4 DEF CountTypes
    <3>6. Sum(count', {}) = 0 /\ Sum(count', Rows) \in Nat
      BY <3>5, CountSums DEF CountTypes
    <3>7. Sum(Uncounted', Recorders) = owed
      BY <1>1 DEF Uncounted
    <3>8. owed \in Nat
      <4>1. \A s \in Recorders : Uncounted[s] \in Nat
        BY DEF Uncounted, Owes
      <4>2. IsFiniteSet(Recorders)
        BY DEF Notes!Assumptions, Notes!IsFiniteSet, IsFiniteSet
      <4> QED BY <4>1, <4>2, SumNatural
    <3>9. ASSUME Accounts PROVE Accounts'
      <4>1. CASE Removing = {} /\ Removing' = found /\ count' = count /\ delivered' = delivered + part
        <5>1. recorded + 0 = delivered + sum + owed
          BY <3>2, <3>9, <4>1 DEF Accounts
        <5>2. recorded + part = (delivered + part) + sum + owed
          <6> HIDE DEF part, sum, owed
          <6> QED BY <3>2, <3>4, <3>8, <5>1
        <5> QED BY <1>1, <3>7, <4>1, <5>2 DEF Accounts
      <4>2. CASE Removing = found /\ Removing' = {} /\ count' = Notes!Without(found) /\ delivered' = delivered
        <5>1. recorded + part = delivered + sum + owed
          BY <3>9, <4>2 DEF Accounts
        <5>2. after \in Nat
          BY <3>6, <4>2
        <5>3. recorded + 0 = delivered + after + owed
          <6> HIDE DEF part, sum, owed, after
          <6> QED BY <3>2, <3>3, <3>4, <3>8, <5>1, <5>2
        <5> QED BY <1>1, <3>6, <3>7, <4>2, <5>3 DEF Accounts
      <4>3. CASE /\ Removing = {} /\ Removing' = {} /\ count' = Notes!Without(found)
                 /\ delivered' = delivered + part
        <5>1. recorded + 0 = delivered + sum + owed
          BY <3>2, <3>9, <4>3 DEF Accounts
        <5>2. after \in Nat
          BY <3>6, <4>3
        <5>3. recorded + 0 = (delivered + part) + after + owed
          <6> HIDE DEF part, sum, owed, after
          <6> QED BY <3>2, <3>3, <3>4, <3>8, <5>1, <5>2
        <5> QED BY <1>1, <3>6, <3>7, <4>3, <5>3 DEF Accounts
      <4> QED BY <1>4, <2>2, <4>1, <4>2, <4>3
    <3> QED BY <1>3, <3>5, <3>9 DEF CountInv, Exclusive
  <2> QED BY <2>1, <2>2
<1>5. CASE Notes!FindsUser
  BY <1>5 DEF Notes!FindsUser, Notes!OnlyDrain, Notes!rows, Removing, Notes!Quiet
<1>6. CASE Notes!PopsUser
  BY <1>2, <1>6 DEF Notes!PopsUser, Notes!DrainStep, Notes!DrainGoes, Removing, Draining
<1>7. CASE Notes!FindsAll
  BY <1>2, <1>7 DEF Notes!FindsAll, Notes!DrainStep, Notes!OnlyDrain, Notes!rows, Removing, Draining
<1>8. CASE Notes!Throttled
  BY <1>8 DEF Notes!Throttled, Notes!DrainStep, Removing, Notes!Quiet
<1>9. CASE Notes!FindsDue
  <2>1. /\ drain.pc = "prefs" /\ UNCHANGED <<count, delivered>>
        /\ drain' = [drain EXCEPT !.pc = IF {row \in index : Due[row] <= now} = {} THEN "next" ELSE "deliver",
                                  !.found = {row \in index : Due[row] <= now}]
    BY <1>9 DEF Notes!FindsDue, Notes!DrainStep, Notes!OnlyDrain, Notes!rows
  <2>2. drain'.pc \in {"next", "deliver"}
    BY <1>2, <2>1 DEF Draining
  <2> QED BY <2>1, <2>2 DEF Removing
<1>10. CASE Notes!Delivers
  <2>1. /\ drain.pc = "deliver" /\ drain' = [drain EXCEPT !.pc = "remove"] /\ count' = count
        /\ delivered' = delivered + Sum(count, found)
    BY <1>10, CountedIs DEF Notes!Delivers, Notes!DrainStep, Notes!DrainGoes, Notes!rows
  <2>2. found \in SUBSET Rows /\ drain'.pc = "remove" /\ drain'.found = found
    BY <1>2, <2>1 DEF Draining
  <2> QED BY <2>1, <2>2 DEF Removing
<1>11. CASE Notes!RemovesIndex
  <2>1. /\ drain.pc \in {"remove", "flush"} /\ UNCHANGED <<count, delivered>>
        /\ drain' = [drain EXCEPT !.pc = IF drain.pc = "flush" THEN "flushRows" ELSE "removeRows"]
    BY <1>11 DEF Notes!RemovesIndex, Notes!DrainStep, Notes!DrainGoes
  <2>2. drain'.pc = (IF drain.pc = "flush" THEN "flushRows" ELSE "removeRows") /\ drain'.found = found
    BY <1>2, <2>1 DEF Draining
  <2> QED BY <2>1, <2>2 DEF Removing
<1>12. CASE Notes!RemovesRows
  <2>1. /\ drain.pc = "removeRows" /\ drain' = [drain EXCEPT !.pc = "next"] /\ delivered' = delivered
        /\ count' = Notes!Without(found)
    BY <1>12 DEF Notes!RemovesRows, Notes!DrainStep, Notes!DrainGoes
  <2>2. found \in SUBSET Rows /\ drain'.pc = "next"
    BY <1>2, <2>1 DEF Draining
  <2> QED BY <2>1, <2>2 DEF Removing
<1>13. CASE Notes!FlushesRows
  <2>1. /\ drain.pc = "flushRows" /\ drain' = Notes!Quiet /\ count' = Notes!Without(found)
        /\ delivered' = delivered + Sum(count, found)
    BY <1>13, CountedIs DEF Notes!FlushesRows, Notes!DrainStep
  <2>2. found \in SUBSET Rows
    BY <1>2, <2>1 DEF Draining
  <2> QED BY <2>1, <2>2 DEF Removing, Notes!Quiet
<1>14. CASE Notes!FindsNext
  <2>1. /\ drain.pc = "next" /\ UNCHANGED <<count, delivered>>
        /\ \/ drain' = Notes!Quiet
           \/ drain' = [drain EXCEPT !.pc = "reschedule", !.total = Notes!Min({Due[row] : row \in index})]
    BY <1>14 DEF Notes!FindsNext, Notes!DrainStep, Notes!OnlyDrain, Notes!rows
  <2>2. drain'.pc \in {"none", "reschedule"}
    <3>1. CASE drain' = Notes!Quiet
      BY <3>1 DEF Notes!Quiet
    <3>2. CASE drain' = [drain EXCEPT !.pc = "reschedule", !.total = Notes!Min({Due[row] : row \in index})]
      BY <1>2, <2>1, <3>2 DEF Draining
    <3> QED BY <2>1, <3>1, <3>2
  <2> QED BY <2>1, <2>2 DEF Removing
<1>15. CASE Notes!Reschedules
  BY <1>15 DEF Notes!Reschedules, Notes!DrainStep, Removing, Notes!Quiet
<1> QED BY <1>5, <1>6, <1>7, <1>8, <1>9, <1>10, <1>11, <1>12, <1>13, <1>14, <1>15

(* Occurrences that are recorded at once, by any number of recorders, are  *)
(* each delivered once or still counted: none is lost or counted twice.    *)
THEOREM EachOccurrenceCounts == ASSUME Notes!Assumptions PROVE Notes!Spec => []CountsConverge
<1>1. Notes!Init => CountInv
  <2> SUFFICES ASSUME Notes!Init PROVE CountInv
    OBVIOUS
  <2>1. CountTypes
    BY DEF Notes!Init, CountTypes
  <2>2. IsFiniteSet(Rows) /\ IsFiniteSet(Recorders)
    BY DEF Notes!Assumptions, Notes!IsFiniteSet, IsFiniteSet
  <2>3. Removing = {} /\ Exclusive /\ recorded = 0 /\ delivered = 0
    BY DEF Notes!Init, Removing, Notes!Quiet, Exclusive
  <2>4. Sum(count, {}) = 0
    BY <2>1, CountSums DEF CountTypes
  <2>5. Sum(count, Rows) = 0
    <3>1. \A row \in Rows : count[row] = 0
      BY DEF Notes!Init
    <3> QED BY <2>2, <3>1, SumNatural
  <2>6. Sum(Uncounted, Recorders) = 0
    <3>1. \A r \in Recorders : Uncounted[r] = 0
      BY DEF Notes!Init, Uncounted, Owes, Notes!Quiet
    <3> QED BY <2>2, <3>1, SumNatural
  <2> QED BY <2>1, <2>3, <2>4, <2>5, <2>6 DEF CountInv, Accounts
<1>2. NoteInv /\ CountInv /\ [Notes!Next]_Notes!vars => CountInv'
  <2> SUFFICES ASSUME NoteInv, CountInv, [Notes!Next]_Notes!vars PROVE CountInv'
    OBVIOUS
  <2>1. CASE Notes!TimePasses \/ UNCHANGED Notes!vars
    <3>1. UNCHANGED <<count, recorder, drain, recorded, delivered, overlapped>>
      BY <2>1 DEF Notes!TimePasses, Notes!vars, Notes!rows
    <3> QED BY <3>1 DEF CountInv, CountTypes, Exclusive, Notes!NobodyRecords, Accounts, Removing, Uncounted
  <2> QED BY <2>1, RecorderCounts, DrainCounts DEF Notes!Next
<1>3. CountInv => CountsConverge
  <2> SUFFICES ASSUME CountInv, Notes!AllQuiet, ~overlapped PROVE recorded = delivered + Sum(count, Rows)
    BY CountedIs DEF CountsConverge, Notes!CountsConverge
  <2>1. Removing = {} /\ \A r \in Recorders : Uncounted[r] = 0
    BY DEF Notes!AllQuiet, Notes!NobodyRecords, Notes!Quiet, Removing, Uncounted, Owes
  <2>2. IsFiniteSet(Recorders)
    BY DEF Notes!Assumptions, Notes!IsFiniteSet, IsFiniteSet
  <2>3. Sum(Uncounted, Recorders) = 0
    BY <2>1, <2>2, SumNatural
  <2> DEFINE sum == Sum(count, Rows)
  <2>4. CountTypes /\ sum \in Nat /\ Sum(count, {}) = 0
    BY CountSums DEF CountInv, CountTypes
  <2>5. recorded + 0 = delivered + sum + 0
    BY <2>1, <2>3, <2>4 DEF CountInv, Accounts
  <2>6. recorded \in Nat /\ delivered \in Nat
    BY <2>4 DEF CountTypes
  <2>7. recorded = delivered + sum
    <3> HIDE DEF sum
    <3> QED BY <2>4, <2>5, <2>6
  <2> QED BY <2>7
<1> QED BY <1>1, <1>2, <1>3, NotesInit, NoteSteps, PTL DEF Notes!Spec
-----------------------------------------------------------------------------
(***************************************************************************)
(* Movement: who has moved stands where he wanted to, and is not in the    *)
(* way of anybody there, unless it is the first of a broken circuit.       *)
(***************************************************************************)
Alike(c, d) == c \in hostile <=> d \in hostile

WalkTypes ==
  /\ start \in Starts /\ target \in [Creeps -> Tiles \cup {Unmoving}] /\ listed \subseteq Creeps
  /\ resolved \subseteq Creeps /\ moved \subseteq Walk!Movers /\ moved \subseteq resolved
  /\ movePhase \in {"announce", "withdraw", "resolve"}
  /\ movePhase # "resolve" => moved = {} /\ resolved = {}

\* where everybody is when these have moved
Standing(gone) == [c \in Creeps |-> IF c \in gone THEN target[c] ELSE start[c]]

\* all who want one tile are in its list
Contested == \A c, d \in Walk!Movers : c # d /\ target[c] = target[d] => c \in listed

\* no two who are in each other's way have moved to one tile
Distinct(gone) == \A c, d \in gone : c # d /\ target[c] = target[d] => ~Alike(c, d)

BrokenWhen(circle, gone) ==
  circle \subseteq hostile /\ \E c \in circle \ gone, d \in gone \ hostile : target[d] = target[c]

\* nobody who has moved is in the way of one who stayed there, and conversely
Yields(c, d) ==
  target[c] = start[d] /\ Alike(c, d) =>
    d \in resolved /\ \E circle \in SUBSET Creeps : {c, d} \subseteq circle /\ Walk!Circuit(circle) /\ Walk!Broken(circle)

WalkInv ==
  /\ WalkTypes /\ pos = Standing(moved)
  /\ movePhase = "announce" => listed = Walk!Movers
  /\ Contested /\ Distinct(moved)
  /\ \A c \in moved, d \in Creeps \ moved : Yields(c, d)

(* Resolve is a function of stacks that is defined by recursion: the creeps that are not *)
(* in the stack become fewer. *)
Answer(g, stack) ==
  LET c == stack[Len(stack)]
      d == CHOOSE d \in Walk!Obstacles(c) : TRUE
  IN IF Walk!Obstacles(c) = {} THEN Walk!Unchanged
     ELSE IF d \notin Walk!Movers \/ d \in resolved THEN Walk!Refused
     ELSE IF d = stack[1] THEN Walk!Unchanged
     ELSE IF d \in Walk!Range(stack) THEN Walk!Refused
     ELSE g[Append(stack, d)]
ResolveStep(g, stack) ==
  IF target[stack[Len(stack)]] \in Walls
  THEN [Walk!Refused EXCEPT !.resolved = resolved \cup {stack[Len(stack)]}]
  ELSE Walk!Moves(stack, Answer(g, stack))
Resolving(g) == g = [stack \in Walk!Stacks |-> ResolveStep(g, stack)]

(* The recursive definition is a choice. *)
LEMMA ResolveIs == Walk!Resolve = CHOOSE g : Resolving(g)
  BY DEF Walk!Resolve, Resolving, ResolveStep, Answer

(* a creep is put onto a stack *)
LEMMA Pushed ==
  ASSUME NEW stack \in Walk!Stacks, NEW d \in Creeps, d \notin Walk!Range(stack)
  PROVE  /\ Append(stack, d) \in Walk!Stacks /\ Walk!Range(Append(stack, d)) = Walk!Range(stack) \cup {d}
         /\ Len(Append(stack, d)) = Len(stack) + 1 /\ Len(stack) \in Nat /\ Append(stack, d)[Len(stack) + 1] = d
         /\ \A i \in 1..Len(stack) : Append(stack, d)[i] = stack[i] /\ stack[i] \in Walk!Range(stack)
<1> DEFINE more == Append(stack, d)
<1>1. stack \in Seq(Creeps) /\ \A i, j \in 1..Len(stack) : stack[i] = stack[j] => i = j
  BY DEF Walk!Stacks, Walk!IsInjective
<1>2. /\ more \in Seq(Creeps) /\ Len(more) = Len(stack) + 1 /\ Len(stack) \in Nat /\ more[Len(stack) + 1] = d
      /\ \A i \in 1..Len(stack) : more[i] = stack[i]
  BY <1>1
<1>3. \A i \in 1..Len(stack) : stack[i] \in Walk!Range(stack) /\ stack[i] # d
  BY <1>1 DEF Walk!Range
<1> HIDE DEF more
<1>4. \A i, j \in 1..Len(more) : more[i] = more[j] => i = j
  <2> SUFFICES ASSUME NEW i \in 1..Len(more), NEW j \in 1..Len(more), more[i] = more[j] PROVE i = j
    OBVIOUS
  <2>1. (i \in 1..Len(stack) \/ i = Len(stack) + 1) /\ (j \in 1..Len(stack) \/ j = Len(stack) + 1)
    BY <1>2
  <2> QED BY <1>1, <1>2, <1>3, <2>1
<1>5. DOMAIN more = 1..Len(more)
  BY <1>2
<1>6. Walk!Range(more) = Walk!Range(stack) \cup {d}
  <2>1. DOMAIN stack = 1..Len(stack) /\ Len(more) = Len(stack) + 1
    BY <1>1, <1>2
  <2>2. \A x : x \in Walk!Range(more) => x \in Walk!Range(stack) \cup {d}
    <3> SUFFICES ASSUME NEW i \in 1..Len(more) PROVE more[i] \in Walk!Range(stack) \cup {d}
      BY <1>5 DEF Walk!Range
    <3>1. i \in 1..Len(stack) \/ i = Len(stack) + 1
      BY <1>2
    <3> QED BY <1>2, <1>3, <3>1
  <2>3. \A x \in Walk!Range(stack) : \E i \in 1..Len(stack) : x = more[i]
    BY <1>2, <2>1 DEF Walk!Range
  <2>4. \A i \in 1..Len(stack) : i \in 1..Len(more)
    BY <1>2
  <2>5. Len(stack) + 1 \in 1..Len(more)
    BY <1>2
  <2> QED BY <1>2, <1>5, <2>2, <2>3, <2>4, <2>5 DEF Walk!Range
<1>7. more \in Walk!Stacks
  BY <1>2, <1>4, <1>5 DEF Walk!Stacks, Walk!IsInjective
<1> QED BY <1>2, <1>3, <1>6, <1>7 DEF more

Left(stack) == Cardinality(Creeps \ Walk!Range(stack))

(* then one less is left *)
LEMMA OneLess ==
  ASSUME Walk!Assumptions, NEW stack \in Walk!Stacks
  PROVE  /\ Left(stack) \in Nat
         /\ \A d \in Creeps : d \notin Walk!Range(stack) => Left(Append(stack, d)) = Left(stack) - 1
<1>1. IsFiniteSet(Creeps)
  BY DEF Walk!Assumptions, Walk!IsFiniteSet, IsFiniteSet
<1>2. IsFiniteSet(Creeps \ Walk!Range(stack))
  BY <1>1, FS_Difference
<1>3. Left(stack) \in Nat
  BY <1>2, FS_CardinalityType DEF Left
<1>4. ASSUME NEW d \in Creeps, d \notin Walk!Range(stack) PROVE Left(Append(stack, d)) = Left(stack) - 1
  <2>1. Creeps \ Walk!Range(Append(stack, d)) = (Creeps \ Walk!Range(stack)) \ {d}
    BY <1>4, Pushed
  <2>2. d \in Creeps \ Walk!Range(stack)
    BY <1>4
  <2> QED BY <1>2, <2>1, <2>2, FS_RemoveElement DEF Left
<1> QED BY <1>3, <1>4

(* what a creep is answered depends on the answer to one that is not in the stack *)
LEMMA SameAnswer ==
  ASSUME NEW stack \in Walk!Stacks, NEW g, NEW h,
         \A d \in Creeps : d \notin Walk!Range(stack) => g[Append(stack, d)] = h[Append(stack, d)]
  PROVE  ResolveStep(g, stack) = ResolveStep(h, stack)
<1> DEFINE c == stack[Len(stack)] d == CHOOSE d \in Walk!Obstacles(c) : TRUE
<1>1. Walk!Obstacles(c) # {} => d \in Creeps
  BY DEF Walk!Obstacles
<1>2. Answer(g, stack) = Answer(h, stack)
  BY <1>1 DEF Answer
<1> QED BY <1>2 DEF ResolveStep

(* the function exists *)
LEMMA ResolvingExists == ASSUME Walk!Assumptions PROVE \E g : Resolving(g)
<1> DEFINE Upto(g, n) == \A stack \in Walk!Stacks : Left(stack) <= n => g[stack] = ResolveStep(g, stack)
           T == {n \in Nat : \E g : Upto(g, n)}
<1>1. \A stack \in Walk!Stacks : Left(stack) \in Nat
  BY OneLess
<1>2. 0 \in T
  <2> DEFINE g == [stack \in Walk!Stacks |-> ResolveStep(Walk!Refused, stack)]
  <2>1. ASSUME NEW stack \in Walk!Stacks, Left(stack) <= 0 PROVE g[stack] = ResolveStep(g, stack)
    <3>1. \A d \in Creeps : d \in Walk!Range(stack)
      <4> SUFFICES ASSUME NEW d \in Creeps, d \notin Walk!Range(stack) PROVE FALSE
        OBVIOUS
      <4>1. Left(Append(stack, d)) = Left(stack) - 1 /\ Append(stack, d) \in Walk!Stacks
        BY OneLess, Pushed
      <4>2. Left(Append(stack, d)) \in Nat /\ Left(stack) \in Nat
        BY <1>1, <4>1
      <4> QED BY <2>1, <4>1, <4>2
    <3>2. ResolveStep(g, stack) = ResolveStep(Walk!Refused, stack)
      <4> HIDE DEF g
      <4> QED BY <3>1, SameAnswer
    <3> QED BY <3>2
  <2> HIDE DEF g
  <2>2. Upto(g, 0)
    BY <2>1
  <2> QED BY <2>2
<1>3. ASSUME NEW n \in Nat, n \in T PROVE n + 1 \in T
  <2>1. PICK g : Upto(g, n)
    BY <1>3
  <2> DEFINE h == [stack \in Walk!Stacks |-> ResolveStep(g, stack)]
  <2>2. ASSUME NEW stack \in Walk!Stacks, Left(stack) <= n + 1 PROVE h[stack] = ResolveStep(h, stack)
    <3>1. ASSUME NEW d \in Creeps, d \notin Walk!Range(stack) PROVE g[Append(stack, d)] = h[Append(stack, d)]
      <4>1. Append(stack, d) \in Walk!Stacks /\ Left(Append(stack, d)) = Left(stack) - 1 /\ Left(stack) \in Nat
        BY <3>1, OneLess, Pushed
      <4>2. Left(Append(stack, d)) <= n
        BY <2>2, <4>1
      <4> QED BY <2>1, <4>1, <4>2
    <3>2. ResolveStep(g, stack) = ResolveStep(h, stack)
      <4> HIDE DEF h
      <4> QED BY <3>1, SameAnswer
    <3> QED BY <3>2
  <2> HIDE DEF h
  <2>3. Upto(h, n + 1)
    BY <2>2
  <2> QED BY <2>3
<1> HIDE DEF T
<1>4. \A n \in Nat : n \in T
  BY <1>2, <1>3, SetOfNumbers
<1>5. PICK g : Upto(g, Cardinality(Creeps))
  <2>1. Cardinality(Creeps) \in Nat
    BY FS_CardinalityType DEF Walk!Assumptions, Walk!IsFiniteSet, IsFiniteSet
  <2> QED BY <1>4, <2>1 DEF T
<1> DEFINE h == [stack \in Walk!Stacks |-> g[stack]]
<1>6. ASSUME NEW stack \in Walk!Stacks PROVE h[stack] = ResolveStep(h, stack)
  <2>1. Left(stack) <= Cardinality(Creeps)
    <3>1. IsFiniteSet(Creeps) /\ (Creeps \ Walk!Range(stack)) \in SUBSET Creeps
      BY DEF Walk!Assumptions, Walk!IsFiniteSet, IsFiniteSet
    <3> QED BY <3>1, FS_Subset DEF Left
  <2>2. g[stack] = ResolveStep(g, stack)
    BY <1>5, <2>1
  <2>3. ResolveStep(g, stack) = ResolveStep(h, stack)
    <3>1. \A d \in Creeps : d \notin Walk!Range(stack) => g[Append(stack, d)] = h[Append(stack, d)]
      BY Pushed
    <3> HIDE DEF h
    <3> QED BY <3>1, SameAnswer
  <2> QED BY <2>2, <2>3
<1>7. Resolving(h)
  <2>1. h = [stack \in Walk!Stacks |-> h[stack]]
    OBVIOUS
  <2> HIDE DEF h
  <2> QED BY <1>6, <2>1 DEF Resolving
<1> QED BY <1>7

(* each answer follows from the next *)
LEMMA Resolves ==
  ASSUME Walk!Assumptions, NEW stack \in Walk!Stacks
  PROVE  Walk!Resolve[stack] = ResolveStep(Walk!Resolve, stack)
<1>1. Resolving(Walk!Resolve)
  BY ResolveIs, ResolvingExists
<1> QED BY <1>1 DEF Resolving

-----------------------------------------------------------------------------
(* In each other's way are two creeps that are alike. *)
LEMMA BothWays ==
  ASSUME NEW c \in Creeps, NEW d \in Creeps
  PROVE  Walk!InTheWay(c, d) /\ Walk!InTheWay(d, c) <=> c # d /\ Alike(c, d)
  BY DEF Walk!InTheWay, Alike

(* the ends of a stack *)
LEMMA Ends ==
  ASSUME NEW stack \in Walk!Stacks, stack # <<>>
  PROVE  /\ Len(stack) \in Nat \ {0} /\ stack[1] \in Walk!Range(stack) /\ stack[Len(stack)] \in Walk!Range(stack)
         /\ Walk!Range(stack) \subseteq Creeps
         /\ \A d \in Creeps : /\ Append(stack, d)[1] = stack[1] /\ Len(Append(stack, d)) = Len(stack) + 1
                              /\ Append(stack, d)[Len(Append(stack, d))] = d /\ Append(stack, d) # <<>>
<1>1. stack \in Seq(Creeps) /\ Len(stack) \in Nat \ {0} /\ DOMAIN stack = 1..Len(stack)
  BY DEF Walk!Stacks
<1>2. 1 \in 1..Len(stack) /\ Len(stack) \in 1..Len(stack)
  BY <1>1
<1>3. \A i \in 1..Len(stack) : stack[i] \in Walk!Range(stack) /\ stack[i] \in Creeps
  BY <1>1 DEF Walk!Range
<1>4. Walk!Range(stack) \subseteq Creeps
  BY <1>1 DEF Walk!Range
<1>5. \A d \in Creeps : /\ Append(stack, d)[1] = stack[1] /\ Len(Append(stack, d)) = Len(stack) + 1
                        /\ Append(stack, d)[Len(Append(stack, d))] = d /\ Append(stack, d) # <<>>
  BY <1>1
<1> QED BY <1>1, <1>2, <1>3, <1>4, <1>5

\* a stack from its first to its last creep: each but the first is on the tile that one before
\* it wants, and if a friend pushed it, it is a friend too
Linked(all, first, last) ==
  /\ all \subseteq Walk!Movers \ resolved /\ first \in all /\ last \in all
  /\ {start[c] : c \in all \ {first}} = {target[c] : c \in all \ {last}}
  /\ \A c, d \in all \ {last} : target[c] = target[d] => c = d
  /\ \A c \in all : (c \notin hostile => last \notin hostile) /\ (first \notin hostile => c \notin hostile)

\* creeps that exchange places, each going to a place of its own, and all friends or all not
Ring(circle) ==
  Walk!Circuit(circle) /\ \A c, d \in circle : Alike(c, d) /\ (target[c] = target[d] => c = d)

\* what is true of a room that a call of resolve leaves behind
Orderly(r) ==
  /\ moved \subseteq r.moved /\ r.moved \subseteq Walk!Movers
  /\ r.moved \subseteq r.resolved /\ resolved \subseteq r.resolved /\ r.resolved \subseteq Creeps
  /\ r.pos = Standing(r.moved) /\ Distinct(r.moved)
  /\ \A c \in r.moved \ moved : Walk!Conflicts(c, moved) = {}

\* nobody who has moved now stands where one alike, other than who counts, stayed
Clear(r, except) ==
  \A c \in r.moved \ moved, d \in Creeps \ r.moved : target[c] = start[d] /\ Alike(c, d) => d \in except

\* the first of the stack may have moved on from under those after it only in a circuit
Turns(r, all, first) ==
  \E circle \in SUBSET Creeps :
    /\ Ring(circle) /\ all \subseteq circle /\ r.moved \ moved \subseteq circle
    /\ Clear(r, {first})
    /\ ~r.ok => BrokenWhen(circle, r.moved)

Outcome(r, all, first, last) ==
  /\ Orderly(r) /\ r.ok \in BOOLEAN /\ (r.ok <=> last \in r.moved) /\ r.moved \cap (all \ {last}) = {}
  /\ Clear(r, {}) \/ Turns(r, all, first)

(* at most one creep that has not moved is on a tile: it was there *)
LEMMA OneObstacle ==
  ASSUME Walk!Assumptions, WalkInv, NEW c \in Creeps
  PROVE  /\ \A d \in Walk!Obstacles(c) : d \in Creeps \ moved /\ start[d] = target[c] /\ Walk!InTheWay(d, c)
         /\ \A d \in Creeps \ moved : start[d] = target[c] /\ Walk!InTheWay(d, c) => d \in Walk!Obstacles(c)
<1>1. \A d \in Creeps : d \notin moved => pos[d] = start[d]
  BY DEF WalkInv, Standing
<1> QED BY <1>1 DEF Walk!Obstacles

(* no two creeps started on one tile *)
LEMMA OwnTile ==
  ASSUME Walk!Assumptions, WalkInv
  PROVE  /\ start \in [Creeps -> Tiles \ Walls] /\ \A c, d \in Creeps : start[c] = start[d] => c = d
         /\ moved \subseteq resolved /\ moved \subseteq Walk!Movers /\ resolved \subseteq Creeps /\ Walk!Movers \subseteq Creeps
<1>1. start \in Starts
  BY DEF WalkInv, WalkTypes
<1>2. start \in [Creeps -> Tiles \ Walls] /\ Walk!IsInjective(start)
  BY <1>1 DEF Walk!Assumptions
<1> QED BY <1>2 DEF Walk!IsInjective, WalkInv, WalkTypes, Walk!Movers

(* A stack of one creep is linked. *)
LEMMA LinkedAlone ==
  ASSUME NEW c \in Walk!Movers \ resolved
  PROVE  <<c>> \in Walk!Stacks /\ <<c>> # <<>> /\ Walk!Range(<<c>>) = {c} /\ Len(<<c>>) = 1 /\ <<c>>[1] = c /\ Linked({c}, c, c)
<1>1. <<c>> \in Seq(Creeps) /\ DOMAIN <<c>> = {1} /\ <<c>>[1] = c /\ Len(<<c>>) = 1
  BY DEF Walk!Movers
<1>2. <<c>> \in Walk!Stacks /\ Walk!Range(<<c>>) = {c}
  BY <1>1 DEF Walk!Stacks, Walk!IsInjective, Walk!Range
<1>3. Linked({c}, c, c)
  BY DEF Linked
<1> QED BY <1>1, <1>2, <1>3

(* An obstacle that is asked to move lengthens the chain. *)
LEMMA LinkedMore ==
  ASSUME Walk!Assumptions, WalkInv, NEW all, NEW first, NEW c, Linked(all, first, c),
         NEW d \in Walk!Movers \ resolved, d \notin all, start[d] = target[c], Walk!InTheWay(d, c)
  PROVE  Linked(all \cup {d}, first, d)
<1>1. all \subseteq Walk!Movers \ resolved /\ first \in all /\ c \in all /\ Walk!Movers \subseteq Creeps /\ d # first
  BY OwnTile DEF Linked
<1>2. (all \cup {d}) \ {d} = all /\ (all \cup {d}) \ {first} = (all \ {first}) \cup {d} /\ all = (all \ {c}) \cup {c}
  BY <1>1
<1>3. {start[x] : x \in (all \ {first}) \cup {d}} = {start[x] : x \in all \ {first}} \cup {start[d]}
  OBVIOUS
<1>4. {target[x] : x \in (all \ {c}) \cup {c}} = {target[x] : x \in all \ {c}} \cup {target[c]}
  OBVIOUS
<1>5. {start[x] : x \in (all \cup {d}) \ {first}} = {target[x] : x \in (all \cup {d}) \ {d}}
  BY <1>2, <1>3, <1>4 DEF Linked
<1>6. \A x \in all \ {c} : target[x] # target[c]
  <2> SUFFICES ASSUME NEW x \in all \ {c}, target[x] = start[d] PROVE FALSE
    OBVIOUS
  <2>1. target[x] \in {start[y] : y \in all \ {first}}
    BY DEF Linked
  <2>2. PICK y \in all \ {first} : target[x] = start[y]
    BY <2>1
  <2> QED BY <1>1, <2>2, OwnTile
<1>7. \A x, y \in (all \cup {d}) \ {d} : target[x] = target[y] => x = y
  BY <1>2, <1>6 DEF Linked
<1>8. \A x \in all \cup {d} : (x \notin hostile => d \notin hostile) /\ (first \notin hostile => x \notin hostile)
  BY <1>1 DEF Linked, Walk!InTheWay
<1> QED BY <1>1, <1>5, <1>7, <1>8 DEF Linked

(* A chain that comes back to its first creep is a circuit. *)
LEMMA LinkedRound ==
  ASSUME Walk!Assumptions, WalkInv, NEW all, NEW first, NEW c, Linked(all, first, c),
         start[first] = target[c], Walk!InTheWay(first, c)
  PROVE  Ring(all) /\ all \in SUBSET Creeps
<1>1. all \subseteq Walk!Movers \ resolved /\ first \in all /\ c \in all /\ all \subseteq Creeps
  BY OwnTile DEF Linked
<1>2. all = (all \ {first}) \cup {first} /\ all = (all \ {c}) \cup {c}
  BY <1>1
<1>3. {start[x] : x \in (all \ {first}) \cup {first}} = {start[x] : x \in all \ {first}} \cup {start[first]}
  OBVIOUS
<1>4. {target[x] : x \in (all \ {c}) \cup {c}} = {target[x] : x \in all \ {c}} \cup {target[c]}
  OBVIOUS
<1>5. {target[x] : x \in all} = {start[x] : x \in all}
  BY <1>2, <1>3, <1>4 DEF Linked
<1>6. \A x \in all \ {c} : target[x] # target[c]
  <2> SUFFICES ASSUME NEW x \in all \ {c}, target[x] = start[first] PROVE FALSE
    OBVIOUS
  <2>1. target[x] \in {start[y] : y \in all \ {first}}
    BY DEF Linked
  <2>2. PICK y \in all \ {first} : target[x] = start[y]
    BY <2>1
  <2> QED BY <1>1, <2>2, OwnTile
<1>7. \A x, y \in all : target[x] = target[y] => x = y
  BY <1>2, <1>6 DEF Linked
<1>8. \A x, y \in all : Alike(x, y)
  BY <1>1 DEF Linked, Walk!InTheWay, Alike
<1> QED BY <1>1, <1>5, <1>7, <1>8 DEF Ring, Walk!Circuit

(* Before anybody moves, everything is in order. *)
LEMMA OrderlyBefore ==
  ASSUME Walk!Assumptions, WalkInv
  PROVE  /\ Orderly(Walk!Unchanged) /\ Walk!Unchanged.ok = TRUE /\ Walk!Unchanged.moved = moved
         /\ Orderly(Walk!Refused) /\ Walk!Refused.ok = FALSE /\ Walk!Refused.moved = moved
         /\ Walk!Refused.resolved = resolved
<1>1. /\ Walk!Unchanged.ok = TRUE /\ Walk!Unchanged.pos = pos /\ Walk!Unchanged.resolved = resolved
      /\ Walk!Unchanged.moved = moved
  BY DEF Walk!Unchanged
<1>2. /\ Walk!Refused.ok = FALSE /\ Walk!Refused.pos = pos /\ Walk!Refused.resolved = resolved
      /\ Walk!Refused.moved = moved
  BY DEF Walk!Refused, Walk!Unchanged
<1> QED BY <1>1, <1>2, OwnTile DEF Orderly, WalkInv

(* Somebody of one's kind who is going to the same tile and has moved is a conflict. *)
LEMMA Conflicting ==
  ASSUME WalkInv, NEW c \in Walk!Movers, NEW d \in Walk!Movers, c # d, target[c] = target[d], NEW gone, d \in gone
  PROVE  /\ Alike(c, d) => d \in Walk!Conflicts(c, gone)
         /\ c \in hostile => d \in Walk!Conflicts(c, gone)
<1>1. d \in listed
  BY DEF WalkInv, Contested
<1> QED BY <1>1 DEF Walk!Conflicts, Walk!InTheWay, Alike

\* what the end of resolve makes of the obstacle's answer
Settled(stack, all, c, answer, r) ==
  /\ Orderly(r) /\ (r.ok <=> c \in r.moved) /\ r.moved \cap (all \ {c}) = {} /\ r.ok \in BOOLEAN
  /\ Len(stack) = 1 => c \in r.resolved
  /\ r.ok => answer.ok /\ r.moved = answer.moved \cup {c}
  /\ ~r.ok => r.moved = answer.moved /\ (answer.ok => Walk!Conflicts(c, answer.moved) # {})

(* Whoever moves has no conflict, and then stands on the tile he wanted. *)
LEMMA MovesOrderly ==
  ASSUME Walk!Assumptions, WalkInv, NEW stack, NEW all, NEW first, NEW c, c = stack[Len(stack)],
         Linked(all, first, c), NEW answer, Orderly(answer), answer.moved \cap all = {}, answer.ok \in BOOLEAN,
         NEW r, r = Walk!Moves(stack, answer)
  PROVE  Settled(stack, all, c, answer, r)
<1> DEFINE willMove == answer.ok /\ Walk!Conflicts(c, answer.moved) = {}
<1>1. /\ r.ok = willMove
      /\ r.pos = IF willMove THEN [answer.pos EXCEPT ![c] = target[c]] ELSE answer.pos
      /\ r.resolved = IF Len(stack) = 1 \/ willMove THEN answer.resolved \cup {c} ELSE answer.resolved
      /\ r.moved = IF willMove THEN answer.moved \cup {c} ELSE answer.moved
  BY DEF Walk!Moves, Walk!Settles
<1>2. c \in all /\ c \in Creeps /\ c \in Walk!Movers /\ c \notin resolved /\ c \notin answer.moved
  BY OwnTile DEF Linked
<1>3. r.moved \subseteq r.resolved /\ moved \subseteq r.moved /\ r.moved \subseteq Walk!Movers
  BY <1>1, <1>2 DEF Orderly
<1>4. resolved \subseteq r.resolved /\ r.resolved \subseteq Creeps
  BY <1>1, <1>2 DEF Orderly
<1>5. r.pos = Standing(r.moved)
  BY <1>1, <1>2 DEF Orderly, Standing
<1>6. Distinct(r.moved)
  <2>1. CASE willMove
    <3>1. \A d \in answer.moved : target[d] = target[c] => ~Alike(c, d)
      <4> SUFFICES ASSUME NEW d \in answer.moved, target[d] = target[c], Alike(c, d) PROVE FALSE
        OBVIOUS
      <4>1. d \in Walk!Movers /\ d # c
        BY <1>2 DEF Orderly
      <4>2. d \in Walk!Conflicts(c, answer.moved)
        BY <1>2, <4>1, Conflicting
      <4> QED BY <2>1, <4>2
    <3>2. \A d : Alike(c, d) <=> Alike(d, c)
      BY DEF Alike
    <3>3. Distinct(answer.moved) /\ r.moved = answer.moved \cup {c}
      BY <1>1, <2>1 DEF Orderly
    <3> QED BY <3>1, <3>2, <3>3 DEF Distinct
  <2> QED BY <1>1, <2>1 DEF Orderly
<1>7. \A d \in r.moved \ moved : Walk!Conflicts(d, moved) = {}
  <2>1. willMove => Walk!Conflicts(c, moved) = {}
    BY DEF Orderly, Walk!Conflicts
  <2> QED BY <1>1, <2>1 DEF Orderly
<1>8. Orderly(r)
  BY <1>3, <1>4, <1>5, <1>6, <1>7 DEF Orderly
<1>9. r.moved \cap (all \ {c}) = {} /\ (r.ok <=> c \in r.moved)
  BY <1>1, <1>2
<1> QED BY <1>1, <1>8, <1>9 DEF Settled

(* A call that asks nobody, or gets no help: the creep moves to a free tile, or stays. *)
LEMMA OutcomeAlone ==
  ASSUME Walk!Assumptions, WalkInv, NEW stack, NEW all, NEW first, NEW c, c = stack[Len(stack)],
         Linked(all, first, c), NEW answer, NEW r, r = Walk!Moves(stack, answer),
         \/ answer = Walk!Refused
         \/ answer = Walk!Unchanged /\ Walk!Obstacles(c) = {}
         \/ answer = Walk!Unchanged /\ first \in Walk!Obstacles(c)
  PROVE  Outcome(r, all, first, c) /\ (Len(stack) = 1 => c \in r.resolved)
<1>1. all \subseteq Walk!Movers \ resolved /\ c \in all /\ first \in all /\ c \in Creeps /\ moved \subseteq resolved
  BY OwnTile DEF Linked
<1>2. Orderly(answer) /\ answer.moved = moved /\ answer.ok \in BOOLEAN /\ (answer.ok => answer = Walk!Unchanged)
  BY OrderlyBefore
<1>3. /\ Orderly(r) /\ (r.ok <=> c \in r.moved) /\ r.moved \cap (all \ {c}) = {} /\ r.ok \in BOOLEAN
      /\ Len(stack) = 1 => c \in r.resolved
      /\ r.ok => answer.ok /\ r.moved = moved \cup {c}
      /\ ~r.ok => r.moved = moved
  <2>1. answer.moved \cap all = {}
    BY <1>1, <1>2
  <2>2. Settled(stack, all, c, answer, r)
    BY <1>2, <2>1, MovesOrderly
  <2> QED BY <1>2, <2>2 DEF Settled
<1>4. CASE ~r.ok
  BY <1>3, <1>4 DEF Outcome, Clear
<1>5. CASE r.ok
  <2>1. r.moved \ moved = {c} /\ c \notin moved
    BY <1>1, <1>3, <1>5
  <2>2. \A d \in Creeps \ r.moved : target[c] = start[d] /\ Alike(c, d) => d \in Walk!Obstacles(c)
    BY <1>1, <1>3, <1>5, BothWays, OneObstacle
  <2>3. CASE Walk!Obstacles(c) = {}
    BY <1>3, <2>1, <2>2, <2>3 DEF Outcome, Clear
  <2>4. CASE first \in Walk!Obstacles(c)
    <3>1. start[first] = target[c] /\ Walk!InTheWay(first, c)
      BY <1>1, <2>4, OneObstacle
    <3>2. Ring(all) /\ all \in SUBSET Creeps
      BY <3>1, LinkedRound
    <3>3. Clear(r, {first})
      <4>1. \A d \in Creeps : start[d] = start[first] => d = first
        BY <1>1, OwnTile
      <4> QED BY <2>1, <3>1, <4>1 DEF Clear
    <3>4. Turns(r, all, first)
      BY <1>1, <1>5, <2>1, <3>2, <3>3 DEF Turns
    <3> QED BY <1>3, <3>4 DEF Outcome
  <2>5. answer # Walk!Refused
    BY <1>3, <1>5, OrderlyBefore
  <2> QED BY <2>3, <2>4, <2>5
<1> QED BY <1>3, <1>4, <1>5

(* A call that asks an obstacle: the creep follows it, or a creep of the safe user took its *)
(* place and breaks the circuit that they are in. *)
LEMMA OutcomePushed ==
  ASSUME Walk!Assumptions, WalkInv, NEW stack, NEW all, NEW first, NEW c, c = stack[Len(stack)],
         Linked(all, first, c), NEW d \in Walk!Movers \ resolved, d \notin all, start[d] = target[c],
         Walk!InTheWay(d, c), NEW answer, Outcome(answer, all \cup {d}, first, d),
         NEW r, r = Walk!Moves(stack, answer)
  PROVE  Outcome(r, all, first, c) /\ (Len(stack) = 1 => c \in r.resolved)
<1>1. /\ all \subseteq Walk!Movers \ resolved /\ c \in all /\ first \in all /\ c \in Creeps /\ d \in Creeps
      /\ moved \subseteq resolved /\ Walk!Movers \subseteq Creeps
  BY OwnTile DEF Linked
<1>2. /\ Orderly(answer) /\ answer.ok \in BOOLEAN /\ (answer.ok <=> d \in answer.moved)
      /\ answer.moved \cap all = {}
      /\ Clear(answer, {}) \/ Turns(answer, all \cup {d}, first)
  <2>1. (all \cup {d}) \ {d} = all
    OBVIOUS
  <2> QED BY <2>1 DEF Outcome
<1>3. Settled(stack, all, c, answer, r)
  BY <1>2, MovesOrderly
<1>4. /\ Orderly(r) /\ (r.ok <=> c \in r.moved) /\ r.moved \cap (all \ {c}) = {} /\ r.ok \in BOOLEAN
      /\ Len(stack) = 1 => c \in r.resolved
  BY <1>3 DEF Settled
<1>5. \A except : Clear(answer, except) => Clear(r, except)
  <2>1. CASE ~r.ok
    BY <1>3, <2>1 DEF Settled, Clear
  <2>2. CASE r.ok
    <3>1. r.moved = answer.moved \cup {c} /\ d \in answer.moved
      BY <1>2, <1>3, <2>2 DEF Settled
    <3>2. \A x \in Creeps \ r.moved : start[x] # target[c]
      BY <1>1, <3>1, OwnTile
    <3> QED BY <3>1, <3>2 DEF Clear
  <2> QED BY <1>4, <2>1, <2>2
<1>6. ASSUME Turns(answer, all \cup {d}, first) PROVE Turns(r, all, first)
  <2>1. PICK circle \in SUBSET Creeps :
          /\ Ring(circle) /\ all \cup {d} \subseteq circle /\ answer.moved \ moved \subseteq circle
          /\ Clear(answer, {first})
          /\ ~answer.ok => BrokenWhen(circle, answer.moved)
    BY <1>6 DEF Turns
  <2>2. Clear(r, {first}) /\ all \subseteq circle /\ r.moved \ moved \subseteq circle
    BY <1>1, <1>3, <1>5, <2>1 DEF Settled
  <2>3. ~r.ok => BrokenWhen(circle, r.moved)
    <3> SUFFICES ASSUME ~r.ok, answer.ok PROVE BrokenWhen(circle, answer.moved)
      BY <1>2, <1>3, <2>1 DEF Settled
    <3>1. PICK e \in Walk!Conflicts(c, answer.moved) : TRUE
      BY <1>3 DEF Settled
    <3>2. e \in answer.moved /\ target[e] = target[c] /\ Walk!InTheWay(e, c) /\ e # c
      BY <3>1 DEF Walk!Conflicts, Walk!InTheWay
    <3>3. e \in Walk!Movers /\ e \in Creeps
      BY <1>1, <1>2, <3>2 DEF Orderly
    <3>4. e \notin circle
      BY <1>1, <2>1, <3>2 DEF Ring
    <3>5. e \in moved /\ d \in Creeps \ moved /\ d \notin resolved
      BY <1>1, <2>1, <3>2, <3>4
    <3>6. ~Alike(e, d)
      BY <3>2, <3>5 DEF WalkInv, Yields
    <3>7. \A x, y \in circle : Alike(x, y)
      BY <2>1 DEF Ring
    <3>8. Alike(c, d) /\ c \in circle /\ d \in circle /\ c \notin answer.moved
      BY <1>1, <1>2, <2>1, <3>7
    <3>9. c \in hostile /\ e \notin hostile
      BY <3>2, <3>6, <3>8 DEF Alike, Walk!InTheWay
    <3>10. circle \subseteq hostile
      BY <3>7, <3>8, <3>9 DEF Alike
    <3> QED BY <3>2, <3>8, <3>9, <3>10 DEF BrokenWhen
  <2> QED BY <2>1, <2>2, <2>3 DEF Turns
<1> QED BY <1>2, <1>4, <1>5, <1>6 DEF Outcome

(* A call that meets a wall. *)
LEMMA OutcomeAtWall ==
  ASSUME Walk!Assumptions, WalkInv, NEW all, NEW first, NEW c, Linked(all, first, c),
         NEW r, r = [Walk!Refused EXCEPT !.resolved = resolved \cup {c}]
  PROVE  Outcome(r, all, first, c) /\ c \in r.resolved
<1>1. all \subseteq Walk!Movers \ resolved /\ c \in all /\ c \in Creeps /\ moved \subseteq resolved
  BY OwnTile DEF Linked
<1>2. r.ok = FALSE /\ r.pos = pos /\ r.moved = moved /\ r.resolved = resolved \cup {c}
  BY DEF Walk!Refused, Walk!Unchanged
<1>3. Orderly(r)
  BY <1>1, <1>2, OwnTile DEF Orderly, WalkInv
<1> QED BY <1>1, <1>2, <1>3 DEF Outcome, Clear

(* What a call of resolve leaves behind, whoever is in the stack: by induction on who is not. *)
LEMMA ResolveOutcome ==
  ASSUME Walk!Assumptions, WalkInv, NEW stack \in Walk!Stacks, stack # <<>>,
         Linked(Walk!Range(stack), stack[1], stack[Len(stack)])
  PROVE  /\ Outcome(Walk!Resolve[stack], Walk!Range(stack), stack[1], stack[Len(stack)])
         /\ Len(stack) = 1 => stack[Len(stack)] \in Walk!Resolve[stack].resolved
<1> DEFINE Good(s) == /\ Outcome(Walk!Resolve[s], Walk!Range(s), s[1], s[Len(s)])
                      /\ Len(s) = 1 => s[Len(s)] \in Walk!Resolve[s].resolved
           Chain(s) == s # <<>> /\ Linked(Walk!Range(s), s[1], s[Len(s)])
           Upto(n) == \A s \in Walk!Stacks : Left(s) <= n /\ Chain(s) => Good(s)
           T == {n \in Nat : Upto(n)}
<1>1. ASSUME NEW s \in Walk!Stacks, Chain(s),
             \A d \in Creeps : d \notin Walk!Range(s) /\ Chain(Append(s, d)) => Good(Append(s, d))
      PROVE  Good(s)
  <2> DEFINE c == s[Len(s)] d == CHOOSE x \in Walk!Obstacles(c) : TRUE r == Walk!Resolve[s] all == Walk!Range(s)
  <2>1. r = ResolveStep(Walk!Resolve, s) /\ Linked(all, s[1], c) /\ s # <<>>
    BY <1>1, Resolves
  <2>2. c \in Creeps /\ all \subseteq Creeps
    BY <2>1, Ends
  <2>3. CASE target[c] \in Walls
    <3>1. r = [Walk!Refused EXCEPT !.resolved = resolved \cup {c}]
      BY <2>1, <2>3 DEF ResolveStep
    <3> HIDE DEF r, c, all
    <3> QED BY <2>1, <3>1, OutcomeAtWall DEF r, c, all
  <2>4. CASE target[c] \notin Walls
    <3>1. r = Walk!Moves(s, Answer(Walk!Resolve, s))
      BY <2>1, <2>4 DEF ResolveStep
    <3>2. CASE Walk!Obstacles(c) = {}
      <4>1. Answer(Walk!Resolve, s) = Walk!Unchanged
        BY <3>2 DEF Answer
      <4> HIDE DEF r, all, c
      <4> QED BY <2>1, <3>1, <3>2, <4>1, OutcomeAlone DEF r, all, c
    <3>3. CASE Walk!Obstacles(c) # {}
      <4>1. d \in Walk!Obstacles(c) /\ d \in Creeps /\ start[d] = target[c] /\ Walk!InTheWay(d, c)
        BY <2>2, <3>3, OneObstacle
      <4> HIDE DEF d
      <4>2. Answer(Walk!Resolve, s) = IF d \notin Walk!Movers \/ d \in resolved THEN Walk!Refused
                                      ELSE IF d = s[1] THEN Walk!Unchanged
                                      ELSE IF d \in all THEN Walk!Refused
                                      ELSE Walk!Resolve[Append(s, d)]
        BY <3>3 DEF Answer, d
      <4>3. CASE \/ Answer(Walk!Resolve, s) = Walk!Refused
                 \/ Answer(Walk!Resolve, s) = Walk!Unchanged /\ d = s[1]
        <5> HIDE DEF r, all, c
        <5> QED BY <2>1, <3>1, <4>1, <4>3, OutcomeAlone DEF r, all, c
      <4>4. CASE d \in Walk!Movers \ resolved /\ d \notin all /\ Answer(Walk!Resolve, s) = Walk!Resolve[Append(s, d)]
        <5> DEFINE more == Append(s, d)
        <5>1. /\ more \in Walk!Stacks /\ Walk!Range(more) = all \cup {d} /\ more # <<>>
              /\ more[1] = s[1] /\ more[Len(more)] = d
          BY <2>1, <4>1, <4>4, Pushed, Ends
        <5>2. Linked(all \cup {d}, s[1], d)
          <6> HIDE DEF all, c
          <6> QED BY <2>1, <4>1, <4>4, LinkedMore
        <5>3. Outcome(Walk!Resolve[more], all \cup {d}, s[1], d)
          BY <1>1, <4>1, <4>4, <5>1, <5>2
        <5> HIDE DEF more, r, all, c
        <5> QED BY <2>1, <3>1, <4>1, <4>4, <5>3, OutcomePushed DEF more, r, all, c
      <4> QED BY <4>2, <4>3, <4>4
    <3> QED BY <3>2, <3>3
  <2> QED BY <2>3, <2>4
<1> HIDE DEF Good, Chain
<1>2. \A s \in Walk!Stacks : Left(s) \in Nat
  BY OneLess
<1>3. Upto(0)
  <2> SUFFICES ASSUME NEW s \in Walk!Stacks, Left(s) <= 0, Chain(s) PROVE Good(s)
    OBVIOUS
  <2>1. \A d \in Creeps : d \in Walk!Range(s)
    <3> SUFFICES ASSUME NEW d \in Creeps, d \notin Walk!Range(s) PROVE FALSE
      OBVIOUS
    <3>1. Left(Append(s, d)) = Left(s) - 1 /\ Append(s, d) \in Walk!Stacks
      BY OneLess, Pushed
    <3>2. Left(Append(s, d)) \in Nat /\ Left(s) \in Nat
      BY <1>2, <3>1
    <3> QED BY <3>1, <3>2
  <2> QED BY <1>1, <2>1
<1>4. ASSUME NEW n \in Nat, Upto(n) PROVE Upto(n + 1)
  <2> SUFFICES ASSUME NEW s \in Walk!Stacks, Left(s) <= n + 1, Chain(s) PROVE Good(s)
    OBVIOUS
  <2>1. ASSUME NEW d \in Creeps, d \notin Walk!Range(s), Chain(Append(s, d)) PROVE Good(Append(s, d))
    <3>1. Append(s, d) \in Walk!Stacks /\ Left(Append(s, d)) = Left(s) - 1 /\ Left(s) \in Nat
      BY <2>1, OneLess, Pushed
    <3>2. Left(Append(s, d)) <= n
      BY <3>1
    <3> QED BY <1>4, <2>1, <3>1, <3>2
  <2> QED BY <1>1, <2>1
<1>5. Left(stack) \in Nat /\ Chain(stack)
  BY <1>2 DEF Chain
<1>6. Left(stack) \in T
  <2>1. 0 \in T /\ \A n \in Nat : n \in T => n + 1 \in T
    <3> HIDE DEF Upto
    <3> QED BY <1>3, <1>4
  <2> HIDE DEF T
  <2> QED BY <1>5, <2>1, SetOfNumbers
<1>7. Good(stack)
  BY <1>5, <1>6
<1> QED BY <1>7 DEF Good

(* What resolving a move leaves behind, for all who have moved and all who have not. *)
LEMMA ResolvedRoom ==
  ASSUME Walk!Assumptions, WalkInv, NEW c \in Walk!Movers \ resolved, NEW r, r = Walk!Resolve[<<c>>]
  PROVE  /\ Orderly(r)
         /\ \A x \in r.moved, y \in Creeps \ r.moved : target[x] = start[y] /\ Alike(x, y) =>
              y \in r.resolved /\ \E circle \in SUBSET Creeps :
                {x, y} \subseteq circle /\ Walk!Circuit(circle) /\ BrokenWhen(circle, r.moved)
<1>1. Outcome(r, {c}, c, c) /\ c \in r.resolved
  <2> DEFINE stack == <<c>>
  <2>1. /\ stack \in Walk!Stacks /\ stack # <<>> /\ Walk!Range(stack) = {c} /\ Len(stack) = 1 /\ stack[1] = c
        /\ Linked({c}, c, c)
    BY LinkedAlone
  <2>2. r = Walk!Resolve[stack]
    OBVIOUS
  <2> HIDE DEF stack
  <2>3. Linked(Walk!Range(stack), stack[1], stack[Len(stack)])
    BY <2>1
  <2>4. /\ Outcome(r, Walk!Range(stack), stack[1], stack[Len(stack)])
        /\ Len(stack) = 1 => stack[Len(stack)] \in r.resolved
    BY <2>1, <2>2, <2>3, ResolveOutcome
  <2> QED BY <2>1, <2>4
<1>2. /\ Orderly(r) /\ (r.ok <=> c \in r.moved) /\ moved \subseteq r.moved /\ resolved \subseteq r.resolved
      /\ Clear(r, {}) \/ Turns(r, {c}, c)
  BY <1>1 DEF Outcome, Orderly
<1> SUFFICES ASSUME NEW x \in r.moved, NEW y \in Creeps \ r.moved, target[x] = start[y], Alike(x, y)
             PROVE  y \in r.resolved /\ \E circle \in SUBSET Creeps :
                      {x, y} \subseteq circle /\ Walk!Circuit(circle) /\ BrokenWhen(circle, r.moved)
  BY <1>2
<1>3. CASE x \in moved
  <2>1. Yields(x, y) /\ y \in Creeps \ moved
    BY <1>2, <1>3 DEF WalkInv
  <2>2. PICK circle \in SUBSET Creeps : {x, y} \subseteq circle /\ Walk!Circuit(circle) /\ Walk!Broken(circle)
    BY <2>1 DEF Yields
  <2>3. circle \subseteq hostile /\ circle \subseteq Walk!Movers
    BY <2>2 DEF Walk!Broken, Walk!Circuit
  <2>4. PICK d \in circle \ moved, e \in moved \ hostile : target[e] = target[d]
    BY <2>2 DEF Walk!Broken
  <2>5. e \in Walk!Conflicts(d, moved)
    <3>1. d \in Walk!Movers /\ e \in Walk!Movers /\ d # e /\ d \in hostile
      BY <2>3, <2>4, OwnTile
    <3> QED BY <2>4, <3>1, Conflicting
  <2>6. d \notin r.moved
    BY <1>2, <2>4, <2>5 DEF Orderly
  <2>7. BrokenWhen(circle, r.moved)
    BY <1>2, <2>3, <2>4, <2>6 DEF BrokenWhen
  <2> QED BY <1>2, <2>1, <2>2, <2>7 DEF Yields
<1>4. CASE x \notin moved
  <2>1. PICK circle \in SUBSET Creeps :
          /\ Ring(circle) /\ {c} \subseteq circle /\ r.moved \ moved \subseteq circle
          /\ Clear(r, {c})
          /\ ~r.ok => BrokenWhen(circle, r.moved)
    BY <1>2, <1>4 DEF Turns, Clear
  <2>2. y = c
    BY <1>4, <2>1 DEF Clear
  <2> QED BY <1>1, <1>2, <1>4, <2>1, <2>2 DEF Ring
<1> QED BY <1>3, <1>4

(* Movement's initial states. *)
LEMMA WalkInit == ASSUME Walk!Assumptions PROVE Walk!Init => WalkInv
<1> SUFFICES ASSUME Walk!Init PROVE WalkInv
  OBVIOUS
<1>1. Walk!Movers = {} /\ moved = {} /\ resolved = {} /\ listed = {} /\ movePhase = "announce"
  BY DEF Walk!Init, Walk!Movers
<1>2. start \in Starts /\ start \in [Creeps -> Tiles \ Walls] /\ pos = start
  BY DEF Walk!Init, Walk!Assumptions
<1>3. target \in [Creeps -> Tiles \cup {Unmoving}]
  BY DEF Walk!Init
<1>4. pos = Standing(moved)
  BY <1>1, <1>2 DEF Standing
<1> QED BY <1>1, <1>2, <1>3, <1>4 DEF WalkInv, WalkTypes, Contested, Distinct

(* Until moves are resolved, everybody stands where he was. *)
LEMMA NobodyMoved ==
  ASSUME Walk!Assumptions, WalkInv, movePhase # "resolve"
  PROVE  moved = {} /\ resolved = {} /\ pos = start /\ start = Standing({})
<1>1. start \in [Creeps -> Tiles \ Walls]
  BY OwnTile
<1> QED BY <1>1 DEF WalkInv, WalkTypes, Standing

(* Moves that are announced, or withdrawn, leave who wants the same tile in its list. *)
LEMMA WalkPlans ==
  ASSUME Walk!Assumptions, WalkInv, NEW c \in Creeps,
         Walk!Withdraw(c) \/ \E tile \in Tiles : Walk!Announce(c, tile)
  PROVE  WalkInv'
<1>1. movePhase # "resolve" /\ UNCHANGED <<hostile, start, pos, resolved, moved, movePhase>>
  BY DEF Walk!Withdraw, Walk!Announce
<1>2. moved = {} /\ resolved = {} /\ pos = start /\ moved' = {} /\ resolved' = {}
  BY <1>1, NobodyMoved
<1>3. (pos = Standing(moved))'
  <2>1. start \in [Creeps -> Tiles \ Walls]
    BY OwnTile
  <2> QED BY <1>1, <1>2, <2>1 DEF Standing
<1>4. target \in [Creeps -> Tiles \cup {Unmoving}] /\ Unmoving \notin Tiles
  BY DEF WalkInv, WalkTypes, Walk!Assumptions
<1>5. CASE \E tile \in Tiles : Walk!Announce(c, tile)
  <2>1. PICK tile \in Tiles : Walk!Announce(c, tile)
    BY <1>5
  <2>2. target' = [target EXCEPT ![c] = tile] /\ listed' = listed \cup {c} /\ movePhase = "announce"
    BY <2>1 DEF Walk!Announce
  <2>3. target' \in [Creeps -> Tiles \cup {Unmoving}]
    BY <1>4, <2>2
  <2>4. Walk!Movers' = Walk!Movers \cup {c}
    BY <1>4, <2>2 DEF Walk!Movers
  <2>5. listed' = Walk!Movers' /\ Walk!Movers' \subseteq Creeps
    BY <2>2, <2>4, OwnTile DEF WalkInv
  <2>6. Contested'
    BY <2>5 DEF Contested
  <2> QED BY <1>1, <1>2, <1>3, <2>3, <2>5, <2>6 DEF WalkInv, WalkTypes, Distinct
<1>6. CASE Walk!Withdraw(c)
  <2>1. /\ target' = [target EXCEPT ![c] = Unmoving] /\ listed' = {d \in listed : target[d] # target[c]}
        /\ movePhase = "withdraw" /\ Cardinality(Walk!Rivals(c)) < 2
    BY <1>6 DEF Walk!Withdraw, Walk!Cardinality, Cardinality
  <2>2. target' \in [Creeps -> Tiles \cup {Unmoving}]
    BY <1>4, <2>1
  <2>3. Walk!Movers' = Walk!Movers \ {c}
    BY <1>4, <2>1 DEF Walk!Movers
  <2>4. Contested'
    <3> SUFFICES ASSUME NEW x \in Walk!Movers \ {c}, NEW y \in Walk!Movers \ {c}, x # y, target[x] = target[y]
                 PROVE  x \in listed /\ target[x] # target[c]
      <4>1. \A x \in Walk!Movers \ {c} : target'[x] = target[x]
        BY <1>4, <2>1, OwnTile
      <4> QED BY <2>1, <2>3, <4>1 DEF Contested
    <3>1. x \in listed
      BY DEF WalkInv, Contested
    <3>2. ASSUME target[x] = target[c] PROVE FALSE
      <4>1. {x, y} \in SUBSET Walk!Rivals(c) /\ Walk!Rivals(c) \in SUBSET Creeps
        BY <3>2, OwnTile DEF Walk!Rivals
      <4>2. IsFiniteSet(Walk!Rivals(c))
        <5>1. IsFiniteSet(Creeps)
          BY DEF Walk!Assumptions, Walk!IsFiniteSet, IsFiniteSet
        <5> QED BY <4>1, <5>1, FS_Subset
      <4>3. Cardinality({x, y}) = 2
        BY TwoElements
      <4>4. Cardinality({x, y}) <= Cardinality(Walk!Rivals(c)) /\ Cardinality(Walk!Rivals(c)) \in Nat
        BY <4>1, <4>2, FS_Subset, FS_CardinalityType
      <4> QED BY <2>1, <4>3, <4>4
    <3> QED BY <3>1, <3>2
  <2>5. listed' \subseteq Creeps /\ movePhase' = "withdraw"
    BY <1>1, <2>1 DEF WalkInv, WalkTypes
  <2> QED BY <1>1, <1>2, <1>3, <2>2, <2>4, <2>5 DEF WalkInv, WalkTypes, Distinct
<1> QED BY <1>5, <1>6

(* A move that is resolved, with all that its creep pushes. *)
LEMMA WalkResolves ==
  ASSUME Walk!Assumptions, WalkInv, NEW c \in Creeps, Walk!ResolveMove(c)
  PROVE  WalkInv'
<1> DEFINE r == Walk!Resolve[<<c>>]
<1>1. /\ movePhase = "resolve" /\ c \in Walk!Movers \ resolved /\ UNCHANGED <<hostile, start, target, listed, movePhase>>
      /\ pos' = r.pos /\ resolved' = r.resolved /\ moved' = r.moved
  BY DEF Walk!ResolveMove
<1> HIDE DEF r
<1>2. /\ Orderly(r)
      /\ \A x \in r.moved, y \in Creeps \ r.moved : target[x] = start[y] /\ Alike(x, y) =>
           y \in r.resolved /\ \E circle \in SUBSET Creeps :
             {x, y} \subseteq circle /\ Walk!Circuit(circle) /\ BrokenWhen(circle, r.moved)
  <2>1. r = Walk!Resolve[<<c>>]
    BY DEF r
  <2> QED BY <1>1, <2>1, ResolvedRoom
<1>3. Walk!Movers' = Walk!Movers
  BY <1>1 DEF Walk!Movers
<1>4. WalkTypes'
  BY <1>1, <1>2, <1>3 DEF WalkInv, WalkTypes, Orderly
<1>5. (pos = Standing(moved))'
  BY <1>1, <1>2 DEF Orderly, Standing
<1>6. Contested' /\ Distinct(moved)' /\ movePhase' # "announce"
  BY <1>1, <1>2, <1>3 DEF WalkInv, Contested, Orderly, Distinct, Alike
<1>7. \A circle : Walk!Circuit(circle)' <=> Walk!Circuit(circle)
  BY <1>1, <1>3 DEF Walk!Circuit
<1>8. \A circle : BrokenWhen(circle, r.moved) => Walk!Broken(circle)'
  BY <1>1 DEF BrokenWhen, Walk!Broken
<1>9. (\A x \in moved, y \in Creeps \ moved : Yields(x, y))'
  BY <1>1, <1>2, <1>7, <1>8 DEF Yields, Alike
<1> QED BY <1>4, <1>5, <1>6, <1>9 DEF WalkInv

(* Every step keeps the invariant. *)
LEMMA WalkSteps == ASSUME Walk!Assumptions PROVE WalkInv /\ [Walk!Next]_Walk!vars => WalkInv'
<1> SUFFICES ASSUME WalkInv, [Walk!Next]_Walk!vars PROVE WalkInv'
  OBVIOUS
<1>1. CASE \E c \in Creeps : Walk!Withdraw(c) \/ \E tile \in Tiles : Walk!Announce(c, tile)
  BY <1>1, WalkPlans
<1>2. CASE \E c \in Creeps : Walk!ResolveMove(c)
  BY <1>2, WalkResolves
<1>3. CASE Walk!Dispatch \/ Walk!AllWithdrawn \/ UNCHANGED Walk!vars
  <2>1. UNCHANGED <<hostile, start, pos, target, listed, resolved, moved>>
    BY <1>3 DEF Walk!Dispatch, Walk!AllWithdrawn, Walk!vars
  <2>2. WalkTypes' /\ (movePhase' = "announce" => movePhase = "announce")
    BY <1>3, <2>1 DEF Walk!Dispatch, Walk!AllWithdrawn, Walk!vars, WalkInv, WalkTypes, Walk!Movers
  <2>3. Walk!Movers' = Walk!Movers
    BY <2>1 DEF Walk!Movers
  <2>4. (pos = Standing(moved))' /\ Contested' /\ Distinct(moved)'
    BY <2>1, <2>3 DEF WalkInv, Standing, Contested, Distinct, Alike
  <2>5. \A circle : (Walk!Circuit(circle) <=> Walk!Circuit(circle)') /\ (Walk!Broken(circle) <=> Walk!Broken(circle)')
    BY <2>1, <2>3 DEF Walk!Circuit, Walk!Broken
  <2>6. (\A x \in moved, y \in Creeps \ moved : Yields(x, y))'
    BY <2>1, <2>5 DEF WalkInv, Yields, Alike
  <2> QED BY <2>1, <2>2, <2>3, <2>4, <2>6 DEF WalkInv
<1> QED BY <1>1, <1>2, <1>3 DEF Walk!Next

(* Whatever moves meet, in chains, circuits and contests for a tile, no two creeps that are in *)
(* each other's way end on one tile, except where a circuit of hostile creeps was broken. *)
THEOREM NobodyCollides == ASSUME Walk!Assumptions PROVE Walk!Spec => []NeverCollide
<1>1. WalkInv => NeverCollide
  <2> SUFFICES ASSUME WalkInv, NEW c \in Creeps, NEW d \in Creeps, pos[c] = pos[d],
                      Walk!InTheWay(c, d), Walk!InTheWay(d, c)
               PROVE  \E circle \in SUBSET Creeps :
                        {c, d} \subseteq circle /\ Walk!Circuit(circle) /\ Walk!Broken(circle)
    BY DEF NeverCollide, Walk!NeverCollide
  <2>1. c # d /\ Alike(c, d) /\ Alike(d, c)
    BY BothWays DEF Alike
  <2>2. /\ pos[c] = (IF c \in moved THEN target[c] ELSE start[c])
        /\ pos[d] = (IF d \in moved THEN target[d] ELSE start[d])
    BY DEF WalkInv, Standing
  <2>3. CASE c \in moved /\ d \in moved
    BY <2>1, <2>2, <2>3 DEF WalkInv, Distinct
  <2>4. CASE c \notin moved /\ d \notin moved
    BY <2>1, <2>2, <2>4, OwnTile
  <2>5. CASE c \in moved /\ d \notin moved
    <3>1. Yields(c, d) /\ target[c] = start[d]
      BY <2>2, <2>5 DEF WalkInv
    <3> QED BY <2>1, <3>1 DEF Yields
  <2>6. CASE c \notin moved /\ d \in moved
    <3>1. Yields(d, c) /\ target[d] = start[c]
      BY <2>2, <2>6 DEF WalkInv
    <3>2. {d, c} = {c, d}
      OBVIOUS
    <3> QED BY <2>1, <3>1, <3>2 DEF Yields
  <2> QED BY <2>3, <2>4, <2>5, <2>6
<1> QED BY <1>1, WalkInit, WalkSteps, PTL DEF Walk!Spec

-----------------------------------------------------------------------------
(***************************************************************************)
(* Nobody blocks another for nothing.  A round is a set of creeps that     *)
(* exchange places, with nobody who may enter one of them without a push.  *)
(* While moves are resolved it turns as a whole or waits as a whole:       *)
(* whoever in it has been resolved has moved (so at the end all have), a   *)
(* place of it that was entered has been left, and a place that was left   *)
(* was left for who wanted it.                                             *)
(***************************************************************************)
Round(round) ==
  /\ round \subseteq Walk!Movers /\ Walk!Circuit(round)
  /\ \A c \in round, d \in Walk!Movers : target[d] = start[c] => Walk!InTheWay(c, d)

Turning(round) ==
  /\ round \cap resolved \subseteq moved
  /\ \A d \in moved, c \in round : target[d] = start[c] => c \in moved
  /\ \A c \in round \cap moved, d \in round : target[d] = start[c] => d \in moved

\* a free tile that a creep wanted has been taken
Taken(c, gone) ==
  target[c] \notin Walls /\ (\A d \in Creeps : start[d] # target[c]) => \E d \in gone : target[d] = target[c]

GoInv ==
  /\ WalkInv
  /\ \A round \in SUBSET Creeps : Round(round) => Turning(round)
  /\ \A c \in Walk!Movers \cap resolved : Taken(c, moved)

(* What holds of a stack when it holds of all that are longer by one holds of all stacks. *)
LEMMA StackInduction ==
  ASSUME Walk!Assumptions, NEW Good,
         \A s \in Walk!Stacks : (\A d \in Creeps : d \notin Walk!Range(s) => Append(s, d) \in Good) => s \in Good
  PROVE  \A s \in Walk!Stacks : s \in Good
<1> DEFINE T == {n \in Nat : \A s \in Walk!Stacks : Left(s) <= n => s \in Good}
<1>1. \A s \in Walk!Stacks : Left(s) \in Nat
  BY OneLess
<1>2. 0 \in T
  <2> SUFFICES ASSUME NEW s \in Walk!Stacks, Left(s) <= 0 PROVE s \in Good
    OBVIOUS
  <2>1. \A d \in Creeps : d \in Walk!Range(s)
    <3> SUFFICES ASSUME NEW d \in Creeps, d \notin Walk!Range(s) PROVE FALSE
      OBVIOUS
    <3>1. Left(Append(s, d)) = Left(s) - 1 /\ Append(s, d) \in Walk!Stacks
      BY OneLess, Pushed
    <3>2. Left(Append(s, d)) \in Nat /\ Left(s) \in Nat
      BY <1>1, <3>1
    <3> QED BY <3>1, <3>2
  <2> QED BY <2>1
<1>3. ASSUME NEW n \in Nat, n \in T PROVE n + 1 \in T
  <2> SUFFICES ASSUME NEW s \in Walk!Stacks, Left(s) <= n + 1 PROVE s \in Good
    OBVIOUS
  <2>1. ASSUME NEW d \in Creeps, d \notin Walk!Range(s) PROVE Append(s, d) \in Good
    <3>1. Append(s, d) \in Walk!Stacks /\ Left(Append(s, d)) = Left(s) - 1 /\ Left(s) \in Nat
      BY <2>1, OneLess, Pushed
    <3>2. Left(Append(s, d)) <= n
      BY <3>1
    <3> QED BY <1>3, <3>1, <3>2
  <2> QED BY <2>1
<1>4. \A n \in Nat : n \in T
  <2> HIDE DEF T
  <2> QED BY <1>2, <1>3, SetOfNumbers
<1> QED BY <1>1, <1>4

(* The creeps of a round want different places. *)
LEMMA RoundOnce ==
  ASSUME Walk!Assumptions, WalkInv, NEW round \in SUBSET Creeps, Round(round)
  PROVE  \A c, d \in round : target[c] = target[d] => c = d
<1> SUFFICES ASSUME NEW c \in round, NEW d \in round, target[c] = target[d], c # d PROVE FALSE
  OBVIOUS
<1> DEFINE others == round \ {c}
           whose == [x \in round |-> CHOOSE y \in others : target[y] = start[x]]
<1>1. ASSUME NEW x \in round PROVE \E y \in others : target[y] = start[x]
  <2>1. start[x] \in {start[y] : y \in round} /\ {target[y] : y \in round} = {start[y] : y \in round}
    BY DEF Round, Walk!Circuit, Walk!InTheWay
  <2>2. PICK y \in round : target[y] = start[x]
    BY <2>1
  <2> QED BY <2>2
<1>2. whose \in [round -> others] /\ \A x \in round : target[whose[x]] = start[x]
  BY <1>1
<1> HIDE DEF whose
<1>3. IsFiniteSet(round)
  <2>1. IsFiniteSet(Creeps)
    BY DEF Walk!Assumptions, Walk!IsFiniteSet, IsFiniteSet
  <2> QED BY <2>1, FS_Subset
<1>4. IsFiniteSet(others) /\ Cardinality(others) < Cardinality(round)
  <2>1. Cardinality(others) = Cardinality(round) - 1 /\ IsFiniteSet(others)
    BY <1>3, FS_RemoveElement
  <2>2. Cardinality(round) \in Nat
    BY <1>3, FS_CardinalityType
  <2> QED BY <2>1, <2>2
<1> HIDE DEF others
<1>5. \E x, y \in round : x # y /\ whose[x] = whose[y]
  BY <1>2, <1>3, <1>4, FS_PigeonHole
<1> QED BY <1>2, <1>5, OwnTile

(* Whoever wants a place of a round that has not been left is answered by its creep. *)
LEMMA RoundAnswers ==
  ASSUME Walk!Assumptions, WalkInv, NEW round \in SUBSET Creeps, Round(round), Turning(round),
         NEW l \in Walk!Movers, NEW c \in round \ moved, target[l] = start[c]
  PROVE  /\ target[l] \notin Walls /\ c \in Walk!Obstacles(l) /\ (CHOOSE d \in Walk!Obstacles(l) : TRUE) = c
         /\ c \in Walk!Movers \ resolved /\ \A d \in Creeps \ moved : start[d] = target[l] => d = c
<1>1. c \in Creeps /\ l \in Creeps /\ start[c] \in Tiles \ Walls /\ Walk!InTheWay(c, l) /\ c \in Walk!Movers \ resolved
  BY OwnTile DEF Round, Turning
<1>2. c \in Walk!Obstacles(l) /\ \A d \in Walk!Obstacles(l) : d \in Creeps /\ start[d] = start[c]
  BY <1>1, OneObstacle
<1>3. \A d \in Walk!Obstacles(l) : d = c
  BY <1>1, <1>2, OwnTile
<1>4. \A d \in Creeps \ moved : start[d] = target[l] => d = c
  BY <1>1, OwnTile
<1> QED BY <1>1, <1>2, <1>3, <1>4

(* The creep of a round whose place another of it wants. *)
LEMMA RoundNext ==
  ASSUME Walk!Assumptions, WalkInv, NEW round \in SUBSET Creeps, Round(round), Turning(round), NEW l \in round \ moved
  PROVE  \E c \in round \ moved : target[l] = start[c]
<1>1. target[l] \in {start[y] : y \in round}
  BY DEF Round, Walk!Circuit, Walk!InTheWay
<1>2. PICK c \in round : target[l] = start[c]
  BY <1>1
<1> QED BY <1>2 DEF Turning

\* a call that starts with nobody of the round leaves the round alone
Stays(r, round) ==
  /\ moved \subseteq r.moved /\ r.moved \subseteq Walk!Movers
  /\ r.moved \cap round = moved \cap round /\ r.resolved \cap round = resolved \cap round
  /\ \A d \in r.moved, c \in round : target[d] = start[c] => c \in moved

\* its last creep wants the place of one of the round who has not moved
Wants(l, round) == \E c \in round \ moved : target[l] = start[c]

Waits(r, l, round) == Stays(r, round) /\ (l \in round => r.ok = FALSE)
Asks(stack, l, answer, round) ==
  Stays(answer, round) /\ (Wants(l, round) => answer.ok = FALSE) /\ (l \in round => Wants(l, round) /\ Len(stack) # 1)

(* The end of such a call. *)
LEMMA OutsiderMoves ==
  ASSUME Walk!Assumptions, WalkInv, NEW round \in SUBSET Creeps, Turning(round),
         NEW stack, NEW l \in Walk!Movers, l = stack[Len(stack)], NEW answer, Asks(stack, l, answer, round),
         NEW r, r = Walk!Moves(stack, answer)
  PROVE  Waits(r, l, round)
<1> DEFINE willMove == answer.ok /\ Walk!Conflicts(l, answer.moved) = {}
<1>1. /\ r.ok = willMove
      /\ r.resolved = IF Len(stack) = 1 \/ willMove THEN answer.resolved \cup {l} ELSE answer.resolved
      /\ r.moved = IF willMove THEN answer.moved \cup {l} ELSE answer.moved
  BY DEF Walk!Moves, Walk!Settles
<1>2. willMove => ~Wants(l, round)
  BY DEF Asks
<1>3. (l \in round => ~willMove /\ Len(stack) # 1 /\ r.ok = FALSE) /\ Stays(answer, round)
  BY <1>1 DEF Asks
<1> HIDE DEF willMove
<1>4. CASE willMove
  <2>1. l \notin round /\ r.moved = answer.moved \cup {l} /\ r.resolved = answer.resolved \cup {l}
    BY <1>1, <1>3, <1>4
  <2>2. \A c \in round : target[l] = start[c] => c \in moved
    BY <1>2, <1>4 DEF Wants
  <2> QED BY <1>3, <2>1, <2>2 DEF Stays, Waits
<1>5. CASE ~willMove
  <2>1. r.moved = answer.moved /\ r.resolved \cap round = answer.resolved \cap round
    BY <1>1, <1>3, <1>5
  <2> QED BY <1>3, <2>1 DEF Stays, Waits
<1> QED BY <1>4, <1>5

(* While others push, the round waits, and nobody enters it. *)
LEMMA Outsiders ==
  ASSUME Walk!Assumptions, WalkInv, NEW round \in SUBSET Creeps, Round(round), Turning(round),
         NEW stack \in Walk!Stacks, stack # <<>>, stack[1] \notin round, stack[Len(stack)] \in Walk!Movers \ resolved
  PROVE  Waits(Walk!Resolve[stack], stack[Len(stack)], round)
<1> DEFINE Chain(s) == s # <<>> /\ s[1] \notin round /\ s[Len(s)] \in Walk!Movers \ resolved
           Kept(s) == Waits(Walk!Resolve[s], s[Len(s)], round)
           Good == {s \in Walk!Stacks : Chain(s) => Kept(s)}
<1>1. ASSUME NEW s \in Walk!Stacks, Chain(s),
             \A d \in Creeps : d \notin Walk!Range(s) => Append(s, d) \in Good
      PROVE  Kept(s)
  <2> DEFINE l == s[Len(s)] d == CHOOSE x \in Walk!Obstacles(l) : TRUE r == Walk!Resolve[s] all == Walk!Range(s)
             answer == Answer(Walk!Resolve, s)
  <2>1. r = ResolveStep(Walk!Resolve, s) /\ s # <<>> /\ s[1] \notin round /\ l \in Walk!Movers \ resolved
    BY <1>1, Resolves
  <2>2. l \in Creeps /\ all \subseteq Creeps /\ Len(s) \in Nat /\ l \in all
    BY <2>1, Ends
  <2>3. l \notin moved /\ moved \subseteq Walk!Movers
    BY <2>1, OwnTile
  <2>4. l \in round => Wants(l, round) /\ Len(s) # 1
    <3>1. l \in round => Wants(l, round)
      <4> HIDE DEF l
      <4> QED BY <2>3, RoundNext DEF Wants
    <3> QED BY <2>1, <3>1
  <2>5. /\ Walk!Unchanged.resolved = resolved /\ Walk!Unchanged.moved = moved
        /\ Walk!Refused.ok = FALSE /\ Walk!Refused.resolved = resolved /\ Walk!Refused.moved = moved
    BY DEF Walk!Refused, Walk!Unchanged
  <2>6. Stays(Walk!Unchanged, round) /\ Stays(Walk!Refused, round)
    BY <2>3, <2>5 DEF Stays, Turning
  <2>7. CASE target[l] \in Walls
    <3>1. r = [Walk!Refused EXCEPT !.resolved = resolved \cup {l}]
      BY <2>1, <2>7 DEF ResolveStep
    <3>2. r.ok = FALSE /\ r.moved = moved /\ r.resolved = resolved \cup {l}
      BY <3>1 DEF Walk!Refused, Walk!Unchanged
    <3>3. l \notin round
      <4> HIDE DEF l
      <4>1. ~Wants(l, round)
        BY <2>1, <2>7, RoundAnswers DEF Wants
      <4> QED BY <2>4, <4>1
    <3> QED BY <2>3, <3>2, <3>3 DEF Stays, Turning, Waits
  <2>8. CASE target[l] \notin Walls
    <3>1. r = Walk!Moves(s, answer)
      BY <2>1, <2>8 DEF ResolveStep
    <3>2. ASSUME d \in Walk!Obstacles(l), d \in Walk!Movers \ resolved, d \notin all
          PROVE  Waits(Walk!Resolve[Append(s, d)], d, round)
      <4> DEFINE more == Append(s, d)
      <4>1. d \in Creeps
        BY <3>2, OwnTile
      <4>2. more \in Walk!Stacks /\ more # <<>> /\ more[1] = s[1] /\ more[Len(more)] = d
        BY <2>1, <3>2, <4>1, Pushed, Ends
      <4>3. more \in Good
        BY <1>1, <3>2, <4>1
      <4> HIDE DEF more, d
      <4>4. Kept(more)
        BY <2>1, <3>2, <4>2, <4>3
      <4> QED BY <4>2, <4>4 DEF more
    <3>3. answer = IF Walk!Obstacles(l) = {} THEN Walk!Unchanged
                   ELSE IF d \notin Walk!Movers \/ d \in resolved THEN Walk!Refused
                   ELSE IF d = s[1] THEN Walk!Unchanged
                   ELSE IF d \in all THEN Walk!Refused
                   ELSE Walk!Resolve[Append(s, d)]
      BY DEF Answer
    <3>4. Walk!Obstacles(l) # {} => d \in Walk!Obstacles(l)
      OBVIOUS
    <3>5. ASSUME Wants(l, round) PROVE d \in round /\ Walk!Obstacles(l) # {} /\ d \in Walk!Movers \ resolved /\ d # s[1]
      <4>1. PICK c \in round \ moved : target[l] = start[c]
        BY <3>5 DEF Wants
      <4> HIDE DEF l
      <4>2. c \in Walk!Obstacles(l) /\ d = c /\ c \in Walk!Movers \ resolved
        BY <2>1, <4>1, RoundAnswers
      <4> QED BY <2>1, <4>1, <4>2
    <3> HIDE DEF answer, d, l, all, Kept, Chain
    <3>6. Stays(answer, round)
      BY <2>6, <3>2, <3>3, <3>4 DEF Waits
    <3>7. Wants(l, round) => answer.ok = FALSE
      BY <2>5, <3>2, <3>3, <3>4, <3>5 DEF Waits
    <3> HIDE DEF r
    <3>8. Asks(s, l, answer, round)
      BY <2>4, <3>6, <3>7 DEF Asks
    <3>9. Waits(r, l, round)
      <4>1. l = s[Len(s)] /\ l \in Walk!Movers
        BY <2>1 DEF l
      <4> QED BY <3>1, <3>8, <4>1, OutsiderMoves
    <3> QED BY <3>9 DEF Kept, r, l
  <2> QED BY <2>7, <2>8
<1>2. \A s \in Walk!Stacks : (\A d \in Creeps : d \notin Walk!Range(s) => Append(s, d) \in Good) => s \in Good
  <2> HIDE DEF Chain, Kept
  <2> QED BY <1>1
<1>3. stack \in Good
  <2> HIDE DEF Good
  <2> QED BY <1>2, StackInduction
<1> QED BY <1>3

\* a call that one of the round starts: with the last all who follow go, up to the first, which the last of them replaces
Goes(r, all, first, last, round) ==
  /\ r.ok = TRUE /\ last \in r.moved /\ moved \subseteq r.moved /\ r.moved \subseteq Walk!Movers
  /\ r.moved \ moved \subseteq round /\ r.moved \cap (all \ {last}) = {}
  /\ r.resolved \cap round \subseteq resolved \cup r.moved
  /\ \A d \in r.moved \ moved, c \in round : target[d] = start[c] => c \in r.moved \cup {first}
  /\ \A c \in (r.moved \ moved) \ {last}, d \in round : target[d] = start[c] => d \in r.moved
  /\ \A d \in round : target[d] = start[first] => d \in r.moved

\* the next of the round, whom the last creep asks, closes the circuit or goes on
Helps(answer, all, first, d, round) ==
  \/ d = first /\ answer = Walk!Unchanged
  \/ d \notin all /\ Goes(answer, all \cup {d}, first, d, round)

(* The end of such a call. *)
LEMMA InsiderMoves ==
  ASSUME Walk!Assumptions, WalkInv, NEW round \in SUBSET Creeps, Round(round), Turning(round),
         NEW stack, NEW all \in SUBSET round, NEW first \in all, NEW l \in all, l = stack[Len(stack)], all \cap resolved = {},
         NEW d \in round \ moved, target[l] = start[d], NEW answer, Helps(answer, all, first, d, round),
         NEW r, r = Walk!Moves(stack, answer)
  PROVE  Goes(r, all, first, l, round)
<1>1. /\ l \in round \ moved /\ all \cap moved = {} /\ moved \subseteq resolved /\ moved \subseteq Walk!Movers
      /\ round \subseteq Walk!Movers /\ \A c \in Creeps : target[l] = start[c] => c = d
  BY OwnTile DEF Round
<1>2. \A c \in round : target[c] = target[l] => c = l
  BY <1>1, RoundOnce
<1>3. /\ Walk!Unchanged.ok = TRUE /\ Walk!Unchanged.resolved = resolved /\ Walk!Unchanged.moved = moved
  BY DEF Walk!Unchanged
<1>4. \A e \in moved : target[e] # target[l]
  BY <1>1 DEF Turning
<1>5. /\ answer.ok = TRUE /\ l \notin answer.moved /\ answer.moved \cap all = {} /\ moved \subseteq answer.moved
      /\ answer.moved \subseteq Walk!Movers /\ answer.moved \ moved \subseteq round
      /\ answer.resolved \cap round \subseteq resolved \cup answer.moved /\ d \in answer.moved \cup {first}
      /\ \A x \in answer.moved \ moved, c \in round : target[x] = start[c] => c \in answer.moved \cup {first}
      /\ \A c \in (answer.moved \ moved) \ {d}, x \in round : target[x] = start[c] => x \in answer.moved
      /\ \A x \in round : target[x] = start[first] => x \in answer.moved \cup {l}
  <2>1. CASE d = first /\ answer = Walk!Unchanged
    <3>1. \A x \in round : target[x] = start[first] => x = l
      BY <1>2, <2>1
    <3> QED BY <1>1, <1>3, <2>1, <3>1
  <2>2. CASE d \notin all /\ Goes(answer, all \cup {d}, first, d, round)
    <3>1. (all \cup {d}) \ {d} = all
      BY <2>2
    <3> QED BY <2>2, <3>1 DEF Goes
  <2> QED BY <2>1, <2>2 DEF Helps
<1>6. Walk!Conflicts(l, answer.moved) = {}
  <2>1. \A e \in answer.moved : target[e] # target[l]
    BY <1>2, <1>4, <1>5
  <2> QED BY <2>1 DEF Walk!Conflicts
<1>7. r.ok = TRUE /\ r.resolved = answer.resolved \cup {l} /\ r.moved = answer.moved \cup {l}
  BY <1>5, <1>6 DEF Walk!Moves, Walk!Settles
<1>8. \A x \in r.moved \ moved, c \in round : target[x] = start[c] => c \in r.moved \cup {first}
  BY <1>1, <1>5, <1>7
<1>9. \A c \in (r.moved \ moved) \ {l}, x \in round : target[x] = start[c] => x \in r.moved
  <2> SUFFICES ASSUME NEW c \in answer.moved \ moved, NEW x \in round, target[x] = start[c] PROVE x \in r.moved
    BY <1>7
  <2> QED BY <1>2, <1>5, <1>7
<1>10. r.moved \cap (all \ {l}) = {} /\ r.moved \subseteq Walk!Movers /\ r.moved \ moved \subseteq round
  BY <1>1, <1>5, <1>7
<1>11. r.resolved \cap round \subseteq resolved \cup r.moved /\ \A x \in round : target[x] = start[first] => x \in r.moved
  BY <1>5, <1>7
<1> QED BY <1>5, <1>7, <1>8, <1>9, <1>10, <1>11 DEF Goes

(* A creep of a round that is asked to move turns the round. *)
LEMMA Insiders ==
  ASSUME Walk!Assumptions, WalkInv, NEW round \in SUBSET Creeps, Round(round), Turning(round),
         NEW stack \in Walk!Stacks, stack # <<>>, Walk!Range(stack) \subseteq round,
         Linked(Walk!Range(stack), stack[1], stack[Len(stack)])
  PROVE  Goes(Walk!Resolve[stack], Walk!Range(stack), stack[1], stack[Len(stack)], round)
<1> DEFINE Chain(s) == s # <<>> /\ Walk!Range(s) \subseteq round /\ Linked(Walk!Range(s), s[1], s[Len(s)])
           Kept(s) == Goes(Walk!Resolve[s], Walk!Range(s), s[1], s[Len(s)], round)
           Good == {s \in Walk!Stacks : Chain(s) => Kept(s)}
<1>1. ASSUME NEW s \in Walk!Stacks, Chain(s),
             \A d \in Creeps : d \notin Walk!Range(s) => Append(s, d) \in Good
      PROVE  Kept(s)
  <2> DEFINE l == s[Len(s)] r == Walk!Resolve[s] all == Walk!Range(s)
             answer == Answer(Walk!Resolve, s)
  <2>1. r = ResolveStep(Walk!Resolve, s) /\ s # <<>> /\ all \subseteq round /\ Linked(all, s[1], l)
    BY <1>1, Resolves
  <2>2. all \subseteq Walk!Movers \ resolved /\ s[1] \in all /\ l \in all
    BY <2>1 DEF Linked
  <2>3. l \in round \ moved /\ l \in Walk!Movers
    BY <2>1, <2>2, OwnTile
  <2>4. PICK d \in round \ moved : target[l] = start[d]
    <3> HIDE DEF l
    <3> QED BY <2>3, RoundNext
  <2>5. /\ target[l] \notin Walls /\ d \in Walk!Obstacles(l) /\ (CHOOSE x \in Walk!Obstacles(l) : TRUE) = d
        /\ d \in Walk!Movers \ resolved
    <3> HIDE DEF l
    <3> QED BY <2>3, <2>4, RoundAnswers
  <2>6. Walk!InTheWay(d, l) /\ d \in Creeps
    <3> HIDE DEF l
    <3> QED BY <2>3, <2>4, <2>5, OneObstacle
  <2>7. r = Walk!Moves(s, answer)
    BY <2>1, <2>5 DEF ResolveStep
  <2>8. answer = IF d = s[1] THEN Walk!Unchanged
                 ELSE IF d \in all THEN Walk!Refused
                 ELSE Walk!Resolve[Append(s, d)]
    BY <2>5 DEF Answer
  <2>9. d \notin all \ {s[1]}
    <3> SUFFICES ASSUME d \in all \ {s[1]} PROVE FALSE
      OBVIOUS
    <3>1. start[d] \in {target[c] : c \in all \ {l}}
      BY <2>1 DEF Linked
    <3>2. PICK c \in all \ {l} : target[c] = start[d]
      BY <3>1
    <3>3. c \in round /\ l \in round /\ target[c] = target[l]
      BY <2>1, <2>3, <2>4, <3>2
    <3> QED BY <3>2, <3>3, RoundOnce
  <2>10. ASSUME d \notin all PROVE Goes(Walk!Resolve[Append(s, d)], all \cup {d}, s[1], d, round)
    <3> DEFINE more == Append(s, d)
    <3>1. /\ more \in Walk!Stacks /\ Walk!Range(more) = all \cup {d} /\ more # <<>> /\ more[1] = s[1] /\ more[Len(more)] = d
      BY <2>1, <2>6, <2>10, Pushed, Ends
    <3>2. Linked(all \cup {d}, s[1], d)
      <4> HIDE DEF all, l
      <4> QED BY <2>1, <2>4, <2>5, <2>6, <2>10, LinkedMore
    <3>3. more \in Good
      BY <1>1, <2>6, <2>10
    <3> HIDE DEF more
    <3>4. Chain(more)
      BY <2>1, <2>4, <3>1, <3>2
    <3>5. Kept(more)
      BY <3>3, <3>4
    <3> QED BY <3>1, <3>5 DEF more
  <2> HIDE DEF answer, l, all, Kept, Chain, r
  <2>11. Helps(answer, all, s[1], d, round)
    BY <2>2, <2>8, <2>9, <2>10 DEF Helps
  <2>12. Goes(r, all, s[1], l, round)
    <3>1. all \in SUBSET round /\ s[1] \in all /\ l \in all /\ all \cap resolved = {} /\ d \in round \ moved
      BY <2>1, <2>2, <2>4
    <3>2. l = s[Len(s)]
      BY DEF l
    <3> QED BY <2>4, <2>7, <2>11, <3>1, <3>2, InsiderMoves
  <2> QED BY <2>12 DEF Kept, r, l, all
<1>2. \A s \in Walk!Stacks : (\A d \in Creeps : d \notin Walk!Range(s) => Append(s, d) \in Good) => s \in Good
  <2> HIDE DEF Chain, Kept
  <2> QED BY <1>1
<1>3. stack \in Good
  <2> HIDE DEF Good
  <2> QED BY <1>2, StackInduction
<1> QED BY <1>3

\* who is resolved with a call has moved, or wants a wall, or is the one who was to move
Grows(r, stack) ==
  /\ moved \subseteq r.moved
  /\ \A x \in r.resolved : \/ x \in resolved \cup r.moved \/ target[x] \in Walls
                           \/ Len(stack) = 1 /\ x = stack[Len(stack)]

(* Who is pushed and stays is not resolved. *)
LEMMA OnlyTheFirst ==
  ASSUME Walk!Assumptions, WalkInv, NEW stack \in Walk!Stacks, stack # <<>>
  PROVE  Grows(Walk!Resolve[stack], stack)
<1> DEFINE Kept(s) == Grows(Walk!Resolve[s], s)
           Good == {s \in Walk!Stacks : s # <<>> => Kept(s)}
<1>1. ASSUME NEW s \in Walk!Stacks, s # <<>>,
             \A d \in Creeps : d \notin Walk!Range(s) => Append(s, d) \in Good
      PROVE  Kept(s)
  <2> DEFINE l == s[Len(s)] d == CHOOSE x \in Walk!Obstacles(l) : TRUE r == Walk!Resolve[s] all == Walk!Range(s)
             answer == Answer(Walk!Resolve, s)
  <2>1. r = ResolveStep(Walk!Resolve, s)
    BY <1>1, Resolves
  <2>2. l \in Creeps /\ Len(s) \in Nat \ {0}
    BY <1>1, Ends
  <2>3. /\ Walk!Unchanged.resolved = resolved /\ Walk!Unchanged.moved = moved
        /\ Walk!Refused.resolved = resolved /\ Walk!Refused.moved = moved
    BY DEF Walk!Refused, Walk!Unchanged
  <2>4. CASE target[l] \in Walls
    <3>1. r = [Walk!Refused EXCEPT !.resolved = resolved \cup {l}]
      BY <2>1, <2>4 DEF ResolveStep
    <3>2. r.moved = moved /\ r.resolved = resolved \cup {l}
      BY <3>1 DEF Walk!Refused, Walk!Unchanged
    <3> QED BY <2>4, <3>2 DEF Grows
  <2>5. CASE target[l] \notin Walls
    <3>1. r = Walk!Moves(s, answer)
      BY <2>1, <2>5 DEF ResolveStep
    <3> DEFINE Fine == moved \subseteq answer.moved /\ \A x \in answer.resolved : x \in resolved \cup answer.moved \/ target[x] \in Walls
    <3>2. Fine
      <4>1. ASSUME d \in Walk!Obstacles(l), d \notin all, answer = Walk!Resolve[Append(s, d)] PROVE Fine
        <5> DEFINE more == Append(s, d)
        <5>1. d \in Creeps
          BY <2>2, <4>1, OneObstacle
        <5>2. Kept(more) /\ more # <<>> /\ Len(more) = Len(s) + 1
          BY <1>1, <4>1, <5>1, Pushed, Ends
        <5>3. Len(more) # 1
          BY <2>2, <5>2
        <5>4. answer = Walk!Resolve[more]
          BY <4>1
        <5> HIDE DEF more, d, answer
        <5> QED BY <5>2, <5>3, <5>4 DEF Grows
      <4>2. \/ answer = Walk!Unchanged \/ answer = Walk!Refused
            \/ Walk!Obstacles(l) # {} /\ d \notin all /\ answer = Walk!Resolve[Append(s, d)]
        BY DEF Answer
      <4>3. Walk!Obstacles(l) # {} => d \in Walk!Obstacles(l)
        OBVIOUS
      <4> HIDE DEF d, answer, l, all
      <4> QED BY <2>3, <4>1, <4>2, <4>3
    <3> DEFINE willMove == answer.ok /\ Walk!Conflicts(l, answer.moved) = {}
    <3>3. /\ r.resolved = IF Len(s) = 1 \/ willMove THEN answer.resolved \cup {l} ELSE answer.resolved
          /\ r.moved = IF willMove THEN answer.moved \cup {l} ELSE answer.moved
      BY <3>1 DEF Walk!Moves, Walk!Settles
    <3> HIDE DEF willMove, answer, r
    <3>4. Grows(r, s)
      <4>1. answer.moved \subseteq r.moved /\ (\A x \in r.resolved : x \in answer.resolved \cup r.moved \/ (Len(s) = 1 /\ x = l))
        BY <3>3
      <4> QED BY <3>2, <4>1 DEF Grows
    <3> QED BY <3>4 DEF r
  <2> QED BY <2>4, <2>5
<1>2. \A s \in Walk!Stacks : (\A d \in Creeps : d \notin Walk!Range(s) => Append(s, d) \in Good) => s \in Good
  <2> HIDE DEF Kept
  <2> QED BY <1>1
<1>3. stack \in Good
  <2> HIDE DEF Good
  <2> QED BY <1>2, StackInduction
<1> QED BY <1>3

(* A free tile is taken, by the creep whose move is resolved or by one who came before it. *)
LEMMA FreeTile ==
  ASSUME Walk!Assumptions, WalkInv, NEW c \in Walk!Movers \ resolved, NEW r, r = Walk!Resolve[<<c>>]
  PROVE  moved \subseteq r.moved /\ Taken(c, r.moved)
         /\ \A x \in r.resolved : x \in resolved \cup r.moved \cup {c} \/ target[x] \in Walls
<1> DEFINE stack == <<c>>
<1>1. stack \in Walk!Stacks /\ stack # <<>> /\ Len(stack) = 1 /\ stack[1] = c /\ r = Walk!Resolve[stack]
  BY LinkedAlone
<1> HIDE DEF stack
<1>2. Grows(r, stack)
  BY <1>1, OnlyTheFirst
<1>3. moved \subseteq r.moved /\ \A x \in r.resolved : x \in resolved \cup r.moved \cup {c} \/ target[x] \in Walls
  BY <1>1, <1>2 DEF Grows
<1>4. Taken(c, r.moved)
  <2> SUFFICES ASSUME target[c] \notin Walls, \A d \in Creeps : start[d] # target[c] PROVE \E d \in r.moved : target[d] = target[c]
    BY DEF Taken
  <2>1. r = ResolveStep(Walk!Resolve, stack) /\ stack[Len(stack)] = c /\ c \in Creeps
    BY <1>1, Resolves, OwnTile
  <2>2. Walk!Obstacles(c) = {}
    BY <2>1, OneObstacle
  <2>3. r = Walk!Moves(stack, Walk!Unchanged)
    BY <2>1, <2>2 DEF ResolveStep, Answer
  <2>4. Walk!Unchanged.ok = TRUE /\ Walk!Unchanged.moved = moved
    BY DEF Walk!Unchanged
  <2>5. CASE Walk!Conflicts(c, moved) = {}
    <3>1. c \in r.moved
      BY <2>1, <2>3, <2>4, <2>5 DEF Walk!Moves
    <3> QED BY <3>1
  <2>6. CASE Walk!Conflicts(c, moved) # {}
    <3>1. PICK d \in moved : target[d] = target[c]
      BY <2>6 DEF Walk!Conflicts
    <3> QED BY <1>3, <3>1
  <2> QED BY <2>5, <2>6
<1> QED BY <1>3, <1>4

(* Whether a round has turned, after a move was resolved. *)
LEMMA RoundTurns ==
  ASSUME Walk!Assumptions, WalkInv, NEW round \in SUBSET Creeps, Round(round), Turning(round),
         NEW c \in Walk!Movers \ resolved, NEW r, r = Walk!Resolve[<<c>>]
  PROVE  /\ r.resolved \cap round \subseteq r.moved
         /\ \A d \in r.moved, x \in round : target[d] = start[x] => x \in r.moved
         /\ \A x \in round \cap r.moved, d \in round : target[d] = start[x] => d \in r.moved
<1> DEFINE stack == <<c>>
<1>1. /\ stack \in Walk!Stacks /\ stack # <<>> /\ Walk!Range(stack) = {c} /\ Len(stack) = 1 /\ stack[1] = c
      /\ Linked({c}, c, c)
  BY LinkedAlone
<1>2. r = Walk!Resolve[stack]
  OBVIOUS
<1> HIDE DEF stack
<1>3. CASE c \in round
  <2>1. Walk!Range(stack) \subseteq round /\ Linked(Walk!Range(stack), stack[1], stack[Len(stack)])
    BY <1>1, <1>3
  <2>2. Goes(r, Walk!Range(stack), stack[1], stack[Len(stack)], round)
    BY <1>1, <1>2, <2>1, Insiders
  <2>3. Goes(r, {c}, c, c, round)
    BY <1>1, <2>2
  <2>4. r.resolved \cap round \subseteq r.moved
    BY <2>3 DEF Goes, Turning
  <2>5. \A d \in r.moved, x \in round : target[d] = start[x] => x \in r.moved
    BY <2>3 DEF Goes, Turning
  <2>6. \A x \in round \cap r.moved, d \in round : target[d] = start[x] => d \in r.moved
    BY <2>3 DEF Goes, Turning
  <2> QED BY <2>4, <2>5, <2>6
<1>4. CASE c \notin round
  <2>1. stack[1] \notin round /\ stack[Len(stack)] \in Walk!Movers \ resolved
    BY <1>1, <1>4
  <2>2. Waits(r, stack[Len(stack)], round)
    BY <1>1, <1>2, <2>1, Outsiders
  <2>3. Stays(r, round)
    BY <2>2 DEF Waits
  <2> QED BY <2>3 DEF Stays, Turning
<1> QED BY <1>3, <1>4

(* A step that resolves a move. *)
LEMMA GoResolves ==
  ASSUME Walk!Assumptions, GoInv, NEW c \in Creeps, Walk!ResolveMove(c)
  PROVE  GoInv'
<1> DEFINE r == Walk!Resolve[<<c>>]
<1>1. /\ c \in Walk!Movers \ resolved /\ UNCHANGED <<hostile, start, target>> /\ resolved' = r.resolved /\ moved' = r.moved
      /\ WalkInv
  BY DEF Walk!ResolveMove, GoInv
<1>2. r = Walk!Resolve[<<c>>]
  OBVIOUS
<1> HIDE DEF r
<1>3. WalkInv'
  BY <1>1, WalkResolves
<1>4. Walk!Movers' = Walk!Movers
  BY <1>1 DEF Walk!Movers
<1>5. ASSUME NEW round \in SUBSET Creeps, Round(round)' PROVE Turning(round)'
  <2>1. Round(round)
    BY <1>1, <1>4, <1>5 DEF Round, Walk!Circuit, Walk!InTheWay
  <2>2. Turning(round)
    BY <2>1 DEF GoInv
  <2>3. /\ r.resolved \cap round \subseteq r.moved
        /\ \A d \in r.moved, x \in round : target[d] = start[x] => x \in r.moved
        /\ \A x \in round \cap r.moved, d \in round : target[d] = start[x] => d \in r.moved
    BY <1>1, <1>2, <2>1, <2>2, RoundTurns
  <2> QED BY <1>1, <2>3 DEF Turning
<1>6. ASSUME NEW x \in Walk!Movers, x \in r.resolved PROVE Taken(x, moved)'
  <2>1. /\ moved \subseteq r.moved /\ Taken(c, r.moved)
        /\ x \in resolved \cup r.moved \cup {c} \/ target[x] \in Walls
    BY <1>1, <1>2, <1>6, FreeTile
  <2>2. x \in resolved => Taken(x, moved)
    BY DEF GoInv
  <2>3. Taken(x, r.moved)
    BY <2>1, <2>2 DEF Taken
  <2> QED BY <1>1, <2>3 DEF Taken
<1>7. (\A x \in Walk!Movers \cap resolved : Taken(x, moved))'
  BY <1>1, <1>4, <1>6
<1>8. (\A round \in SUBSET Creeps : Round(round) => Turning(round))'
  BY <1>5
<1> QED BY <1>3, <1>7, <1>8 DEF GoInv

(* Every step keeps the invariant. *)
LEMMA GoSteps == ASSUME Walk!Assumptions PROVE GoInv /\ [Walk!Next]_Walk!vars => GoInv'
<1> SUFFICES ASSUME GoInv, [Walk!Next]_Walk!vars PROVE GoInv'
  OBVIOUS
<1>1. WalkInv /\ WalkInv'
  <2>1. WalkInv
    BY DEF GoInv
  <2> QED BY <2>1, WalkSteps
<1>2. CASE \E c \in Creeps : Walk!ResolveMove(c)
  BY <1>2, GoResolves
<1>3. CASE movePhase # "resolve" /\ UNCHANGED <<resolved, moved>>
  <2>1. moved' = {} /\ resolved' = {}
    BY <1>1, <1>3, NobodyMoved
  <2>2. (\A round \in SUBSET Creeps : Round(round) => Turning(round))'
    BY <2>1 DEF Turning
  <2> QED BY <1>1, <2>1, <2>2 DEF GoInv
<1>4. CASE UNCHANGED Walk!vars
  <2>1. UNCHANGED <<hostile, start, target, resolved, moved>>
    BY <1>4 DEF Walk!vars
  <2>2. Walk!Movers' = Walk!Movers
    BY <2>1 DEF Walk!Movers
  <2>3. ASSUME NEW round \in SUBSET Creeps, Round(round)' PROVE Turning(round)'
    <3>1. Round(round)
      BY <2>1, <2>2, <2>3 DEF Round, Walk!Circuit, Walk!InTheWay
    <3>2. Turning(round)
      BY <3>1 DEF GoInv
    <3> QED BY <2>1, <3>2 DEF Turning
  <2>4. (\A x \in Walk!Movers \cap resolved : Taken(x, moved))'
    BY <2>1, <2>2 DEF GoInv, Taken
  <2>5. (\A round \in SUBSET Creeps : Round(round) => Turning(round))'
    BY <2>3
  <2> QED BY <1>1, <2>4, <2>5 DEF GoInv
<1>5. \/ \E c \in Creeps : Walk!ResolveMove(c)
      \/ movePhase # "resolve" /\ UNCHANGED <<resolved, moved>>
      \/ UNCHANGED Walk!vars
  BY DEF Walk!Next, Walk!Announce, Walk!Withdraw, Walk!Dispatch, Walk!AllWithdrawn
<1> QED BY <1>2, <1>3, <1>4, <1>5

(* Nobody blocks another for nothing, however often they pushed before: a tile that was free is *)
(* taken by one of those who wanted it, and any circuit of creeps that exchange places turns.   *)
THEOREM EverybodyMovesOn == ASSUME Walk!Assumptions PROVE Walk!Spec => []MovesGoThrough
<1>1. GoInv => MovesGoThrough
  <2> SUFFICES ASSUME GoInv, Walk!Movers \subseteq resolved PROVE Walk!FreeTileTaken /\ Walk!CircuitsTurn
    BY DEF MovesGoThrough, Walk!MovesGoThrough
  <2>1. Walk!FreeTileTaken
    BY DEF Walk!FreeTileTaken, GoInv, Taken
  <2>2. ASSUME NEW circle \in SUBSET Walk!Movers, Walk!Circuit(circle),
               \A c \in circle, d \in Walk!Movers : target[d] = start[c] => Walk!InTheWay(c, d)
        PROVE  circle \subseteq moved
    <3>1. Round(circle) /\ circle \in SUBSET Creeps
      BY <2>2 DEF Round, Walk!Movers
    <3>2. Turning(circle)
      BY <3>1 DEF GoInv
    <3> QED BY <3>2 DEF Turning
  <2> QED BY <2>1, <2>2 DEF Walk!CircuitsTurn
<1>2. Walk!Init => GoInv
  <2> SUFFICES ASSUME Walk!Init PROVE GoInv
    OBVIOUS
  <2>1. WalkInv /\ moved = {} /\ resolved = {}
    BY WalkInit DEF Walk!Init
  <2> QED BY <2>1 DEF GoInv, Turning
<1> QED BY <1>1, <1>2, GoSteps, PTL DEF Walk!Spec
=============================================================================
