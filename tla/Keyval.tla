------------------------------- MODULE Keyval -------------------------------
(***************************************************************************)
(* The commands of the scratch store that the tick protocol is built from, *)
(* as the bundled provider executes them (engine/db/storage/local).  A     *)
(* sorted set is a function from every possible member to its score, Null  *)
(* when it is not a member; the store drops an empty sorted set, so the    *)
(* absent key and the set with no members are one value.  A counter is an  *)
(* integer or Null.  Each operator returns what the key holds afterwards.  *)
(***************************************************************************)
EXTENDS Integers, FiniteSets

CONSTANT Null               \* what a missing key or a missing score reads as

ASSUME NullAssumption == Null \notin Int

Score == Int \cup {Null}

\* SortedSet.values / zCard
ZMembers(z) == {m \in DOMAIN z : z[m] # Null}

ZCard(z) == Cardinality(ZMembers(z))

\* zRange(key, lo, hi, { by: 'SCORE' })
ZByScore(z, lo, hi) == {m \in ZMembers(z) : lo <= z[m] /\ z[m] <= hi}

\* zAdd with no option: the score is replaced
ZAdd(z, m, s) == [z EXCEPT ![m] = s]

\* mutant: the option is forgotten
ZAddReplacing(z, m, s) == [z EXCEPT ![m] = s]

\* zAdd { up: 'LT' }: an existing score only goes down
ZAddLT(z, m, s) == [z EXCEPT ![m] = IF z[m] = Null \/ s < z[m] THEN s ELSE z[m]]

\* zAdd { if: 'XX' } and { if: 'XX', incr: true }, one command for each member of M
ZAddXX(z, M, s) == [m \in DOMAIN z |-> IF m \in M /\ z[m] # Null THEN s ELSE z[m]]

\* mutant: a missing member is created
ZIncr(z, M, d) == [m \in DOMAIN z |-> IF m \in M THEN (IF z[m] = Null THEN 0 ELSE z[m]) + d ELSE z[m]]

ZIncrXX(z, M, d) == [m \in DOMAIN z |-> IF m \in M /\ z[m] # Null THEN z[m] + d ELSE z[m]]

ZRem(z, M) == [m \in DOMAIN z |-> IF m \in M THEN Null ELSE z[m]]

\* zRangeStore and zRemRange by score
ZRangeStore(z, lo, hi) == [m \in DOMAIN z |-> IF m \in ZByScore(z, lo, hi) THEN z[m] ELSE Null]

ZRemRange(z, lo, hi) == ZRem(z, ZByScore(z, lo, hi))

\* mutant: weights are ignored
WeighOne(s, w) == IF s = Null THEN 0 ELSE s

\* what a member adds to a weighted union: a set that lacks it adds nothing
Weigh(s, w) == IF s = Null THEN 0 ELSE s * w

\* zUnionStore { weights: [ v, w ] } of two sorted sets; scores are summed
ZUnionStore(y, z, v, w) ==
  [m \in DOMAIN y |-> IF y[m] = Null /\ z[m] = Null THEN Null ELSE Weigh(y[m], v) + Weigh(z[m], w)]

\* zInterStore of one sorted set with itself, { weights: [ w ] }
ZInterStore(z, w) == [m \in DOMAIN z |-> IF z[m] = Null THEN Null ELSE Weigh(z[m], w)]

\* decrBy: a missing counter counts from zero
DecrBy(counter, n) == (IF counter = Null THEN 0 ELSE counter) - n
=============================================================================
