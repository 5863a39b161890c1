-------------------------- MODULE PolicyAnswerProofs --------------------------
(***************************************************************************)
(* The rerank of PolicyAnswer is right for a list of candidates of any     *)
(* length, with any references among them.                                 *)
(***************************************************************************)
EXTENDS PolicyAnswer, FiniteSetTheorems, SequenceTheorems, TLAPS

-----------------------------------------------------------------------------
(* Sets of numbers                                                         *)

LEMMA LeastElement ==
  ASSUME NEW S \in SUBSET Nat, S # {}
  PROVE  Min(S) \in S /\ \A k \in S : Min(S) <= k
<1>1. PICK m \in S : \A k \in S : ~(<<k, m>> \in OpToRel(<, Nat))
  BY NatLessThanWellFounded, WFMin
<1>2. \A k \in S : ~(k < m)
  BY <1>1 DEF OpToRel
<1>3. \A k \in S : m <= k
  BY <1>2
<1> QED BY <1>3 DEF Min

-----------------------------------------------------------------------------
(* Sorting                                                                 *)

\* The order of the places by their key, ties by the place.
Less(key, i, j) == key[i] < key[j] \/ (key[i] = key[j] /\ i < j)

\* The places before a place, and its rank.
Ahead(key, i) == {j \in DOMAIN key : Less(key, j, i)}
RankOf(key, i) == 1 + Cardinality(Ahead(key, i))

LEMMA LessIsTotal ==
  ASSUME NEW n \in Nat, NEW key \in [1 .. n -> Int]
  PROVE  /\ \A i \in 1 .. n : ~Less(key, i, i)
         /\ \A i, j \in 1 .. n : i # j => Less(key, i, j) \/ Less(key, j, i)
         /\ \A i, j, k \in 1 .. n :
              Less(key, i, j) /\ Less(key, j, k) => Less(key, i, k)
<1>1. \A i \in 1 .. n : key[i] \in Int /\ i \in Int
  OBVIOUS
<1> QED BY <1>1 DEF Less

\* A rank is one of the places, and ranks follow the order.
LEMMA RanksFollow ==
  ASSUME NEW n \in Nat, NEW key \in [1 .. n -> Int]
  PROVE  /\ \A i \in 1 .. n : RankOf(key, i) \in 1 .. n
         /\ \A i, j \in 1 .. n : Less(key, i, j) => RankOf(key, i) < RankOf(key, j)
<1>1. IsFiniteSet(1 .. n) /\ Cardinality(1 .. n) = n
  BY FS_Interval
<1>2. \A i \in 1 .. n : /\ IsFiniteSet(Ahead(key, i))
                        /\ Cardinality(Ahead(key, i)) \in Nat
  <2>1. \A i \in 1 .. n : Ahead(key, i) \in SUBSET (1 .. n)
    BY DEF Ahead
  <2> QED BY <1>1, <2>1, FS_Subset, FS_CardinalityType
<1>3. ASSUME NEW i \in 1 .. n  PROVE RankOf(key, i) \in 1 .. n
  <2>1. Ahead(key, i) \in SUBSET ((1 .. n) \ {i})
    BY LessIsTotal DEF Ahead
  <2>2. /\ IsFiniteSet((1 .. n) \ {i})
        /\ Cardinality((1 .. n) \ {i}) = n - 1
    BY <1>1, FS_RemoveElement
  <2>3. Cardinality(Ahead(key, i)) <= n - 1
    BY <2>1, <2>2, FS_Subset
  <2> QED BY <1>2, <2>3, SMTT(30) DEF RankOf
<1>4. ASSUME NEW i \in 1 .. n, NEW j \in 1 .. n, Less(key, i, j)
      PROVE  RankOf(key, i) < RankOf(key, j)
  <2>1. Ahead(key, i) \in SUBSET Ahead(key, j)
    BY <1>4, LessIsTotal DEF Ahead
  <2>2. i \in Ahead(key, j) /\ i \notin Ahead(key, i)
    BY <1>4, LessIsTotal DEF Ahead
  <2>3. /\ Cardinality(Ahead(key, i)) <= Cardinality(Ahead(key, j))
        /\ Cardinality(Ahead(key, i)) # Cardinality(Ahead(key, j))
    BY <1>2, <2>1, <2>2, FS_Subset
  <2> QED BY <1>2, <2>3 DEF RankOf
<1> QED BY <1>3, <1>4

\* Every place is the rank of exactly one place.
LEMMA RanksAreFilled ==
  ASSUME NEW n \in Nat, NEW key \in [1 .. n -> Int]
  PROVE  /\ \A i, j \in 1 .. n : RankOf(key, i) = RankOf(key, j) => i = j
         /\ \A k \in 1 .. n : \E i \in 1 .. n : RankOf(key, i) = k
<1> DEFINE ranks == [i \in 1 .. n |-> RankOf(key, i)]
<1>1. ranks \in [1 .. n -> 1 .. n]
  BY RanksFollow
<1>2. \A i, j \in 1 .. n : i # j => RankOf(key, i) # RankOf(key, j)
  <2>1. \A i \in 1 .. n : RankOf(key, i) \in Int
    BY RanksFollow
  <2>2. SUFFICES ASSUME NEW i \in 1 .. n, NEW j \in 1 .. n, i # j
                 PROVE  RankOf(key, i) # RankOf(key, j)
    OBVIOUS
  <2>3. CASE Less(key, i, j)
    BY <2>1, <2>3, RanksFollow
  <2>4. CASE Less(key, j, i)
    BY <2>1, <2>4, RanksFollow, SMTT(30)
  <2> QED BY <2>2, <2>3, <2>4, LessIsTotal
<1>3. ranks \in Injection(1 .. n, 1 .. n)
  BY <1>1, <1>2 DEF Injection, IsInjective
<1>4. ranks \in Surjection(1 .. n, 1 .. n)
  BY <1>3, FS_Interval, FS_Injection
<1>5. \A k \in 1 .. n : \E i \in 1 .. n : RankOf(key, i) = k
  BY <1>4 DEF Surjection
<1> QED BY <1>2, <1>5

\* The places 1 .. n in the order of their keys.
Sorts(order, n, key) ==
  /\ order \in [1 .. n -> 1 .. n]
  /\ \A k, l \in 1 .. n : order[k] = order[l] => k = l
  /\ \A i \in 1 .. n : \E k \in 1 .. n : order[k] = i
  /\ \A k, l \in 1 .. n : k < l <=> Less(key, order[k], order[l])

\* SortedBy is a stable sort: a permutation of the places that follows the
\* order of their keys.
LEMMA SortIsStable ==
  ASSUME NEW n \in Nat, NEW candidates, DOMAIN candidates = 1 .. n,
         NEW key \in [1 .. n -> Int]
  PROVE  \E order :
           /\ Sorts(order, n, key)
           /\ SortedBy(candidates, key) = [k \in 1 .. n |-> candidates[order[k]]]
<1> DEFINE order == [k \in 1 .. n |-> CHOOSE i \in DOMAIN key : RankOf(key, i) = k]
<1>1. \A k \in 1 .. n : order[k] \in 1 .. n /\ RankOf(key, order[k]) = k
  <2>1. \A k \in 1 .. n : \E i \in DOMAIN key : RankOf(key, i) = k
    BY RanksAreFilled
  <2> QED BY <2>1
<1>2. order \in [1 .. n -> 1 .. n]
  BY <1>1
<1>3. SortedBy(candidates, key) = [k \in 1 .. n |-> candidates[order[k]]]
  BY DEF SortedBy, RankOf, Ahead, Less
<1>4. \A k, l \in 1 .. n : order[k] = order[l] => k = l
  BY <1>1
<1>5. \A i \in 1 .. n : \E k \in 1 .. n : order[k] = i
  <2>1. SUFFICES ASSUME NEW i \in 1 .. n  PROVE \E k \in 1 .. n : order[k] = i
    OBVIOUS
  <2>2. RankOf(key, i) \in 1 .. n
    BY RanksFollow
  <2> QED BY <1>1, <2>2, RanksAreFilled
<1>6. \A k, l \in 1 .. n : k < l <=> Less(key, order[k], order[l])
  <2>1. SUFFICES ASSUME NEW k \in 1 .. n, NEW l \in 1 .. n
                 PROVE  k < l <=> Less(key, order[k], order[l])
    OBVIOUS
  <2>2. Less(key, order[k], order[l]) => k < l
    BY <1>1, RanksFollow, SMTT(30)
  <2>3. Less(key, order[l], order[k]) => l < k
    BY <1>1, RanksFollow, SMTT(30)
  <2>4. order[k] = order[l] => k = l
    BY <1>4
  <2>5. order[k] # order[l] =>
          Less(key, order[k], order[l]) \/ Less(key, order[l], order[k])
    BY <1>1, LessIsTotal
  <2>6. ~Less(key, order[k], order[k])
    BY <1>1, LessIsTotal
  <2> HIDE DEF order
  <2> QED BY <2>2, <2>3, <2>4, <2>5, <2>6
<1> HIDE DEF order
<1>7. Sorts(order, n, key)
  BY <1>2, <1>4, <1>5, <1>6 DEF Sorts
<1> QED BY <1>3, <1>7

-----------------------------------------------------------------------------
(* The rerank                                                              *)

Refer(candidates, i, j) == RefersTo(candidates[i], candidates[j])

\* A place keeps its position, or takes the one half a rank before the first
\* FAQ that refers to it.
LEMMA PositionIs ==
  ASSUME NEW candidates \in Seq(Chunks), NEW j \in DOMAIN candidates
  PROVE  /\ Position(candidates, j) \in Int
         /\ \/ /\ Position(candidates, j) = 2 * j
               /\ \A i \in DOMAIN candidates : ~Refer(candidates, i, j)
            \/ \E m \in DOMAIN candidates :
                 /\ Position(candidates, j) = 2 * m - 1 /\ Refer(candidates, m, j)
                 /\ \A i \in DOMAIN candidates : Refer(candidates, i, j) => m <= i
<1> DEFINE anchors == UNION {Anchors(candidates, id) : id \in candidates[j].ids}
<1>1. DOMAIN candidates \subseteq Nat /\ j \in Nat
  <2>1. DOMAIN candidates = 1 .. Len(candidates) /\ Len(candidates) \in Nat
    BY LenProperties
  <2> QED BY <2>1
<1>2. \A i \in DOMAIN candidates :
        i \in anchors <=> /\ candidates[i].type = "faq"
                          /\ candidates[i].canonical \cap candidates[j].ids # {}
  BY DEF Anchors
<1>3. anchors \in SUBSET DOMAIN candidates
  BY DEF Anchors
<1>4. Position(candidates, j) =
        IF candidates[j].type = "policy" /\ anchors # {}
        THEN 2 * Min(anchors) - 1 ELSE 2 * j
  BY DEF Position
<1> HIDE DEF anchors
<1>5. \A i \in DOMAIN candidates :
        Refer(candidates, i, j) <=> candidates[j].type = "policy" /\ i \in anchors
  BY <1>2 DEF Refer, RefersTo
<1>6. CASE candidates[j].type = "policy" /\ anchors # {}
  <2>1. Min(anchors) \in anchors /\ \A i \in anchors : Min(anchors) <= i
    BY <1>1, <1>3, <1>6, LeastElement
  <2>2. PICK m \in DOMAIN candidates : m = Min(anchors)
    BY <1>3, <2>1
  <2>3. Position(candidates, j) = 2 * m - 1 /\ m \in Nat
    BY <1>1, <1>4, <1>6, <2>2
  <2>4. Refer(candidates, m, j)
        /\ \A i \in DOMAIN candidates : Refer(candidates, i, j) => m <= i
    BY <1>5, <1>6, <2>1, <2>2
  <2> QED BY <2>3, <2>4
<1>7. CASE ~(candidates[j].type = "policy" /\ anchors # {})
  <2>1. Position(candidates, j) = 2 * j
    BY <1>4, <1>7
  <2>2. \A i \in DOMAIN candidates : ~Refer(candidates, i, j)
    BY <1>3, <1>5, <1>7
  <2> QED BY <1>1, <2>1, <2>2
<1> QED BY <1>6, <1>7

\* An FAQ is no authority.
LEMMA ReferrersStay ==
  ASSUME NEW candidates \in Seq(Chunks), NEW i \in DOMAIN candidates,
         NEW j \in DOMAIN candidates, Refer(candidates, i, j)
  PROVE  Position(candidates, i) = 2 * i
BY DEF Refer, RefersTo, Position

\* Whatever candidates are retrieved, the rerank permutes them, puts every
\* authority before the FAQs that refer to it, moves it no further to the top
\* than to the first of them, and keeps the others in order
\* (policy_retrieval.py, _rerank_by_authority).
THEOREM RerankIsAlwaysRight ==
  ASSUME NEW candidates \in Seq(Chunks)
  PROVE  RerankIsRight(candidates)
<1> DEFINE n == Len(candidates)
           key == [i \in DOMAIN candidates |-> Position(candidates, i)]
           Authority(j) == \E i \in 1 .. n : Refer(candidates, i, j)
<1>1. n \in Nat /\ DOMAIN candidates = 1 .. n
  BY LenProperties
<1>2. key \in [1 .. n -> Int] /\ \A i \in 1 .. n : key[i] = Position(candidates, i)
  BY <1>1, PositionIs
<1>3. Reranked(candidates) = SortedBy(candidates, key)
  BY DEF Reranked
<1> HIDE DEF n, key
<1>4. PICK order :
        /\ Sorts(order, n, key)
        /\ SortedBy(candidates, key) = [k \in 1 .. n |-> candidates[order[k]]]
  BY <1>1, <1>2, SortIsStable, SMTT(30)
<1>5. \A k \in 1 .. n : order[k] \in 1 .. n /\ order[k] \in Nat
  BY <1>1, <1>4 DEF Sorts
<1>6. ASSUME NEW k \in 1 .. n, NEW l \in 1 .. n, Refer(candidates, order[l], order[k])
      PROVE  k < l
  <2>1. key[order[l]] = 2 * order[l]
    BY <1>1, <1>2, <1>5, <1>6, ReferrersStay
  <2>2. PICK m \in 1 .. n : key[order[k]] = 2 * m - 1 /\ m <= order[l]
    BY <1>1, <1>2, <1>5, <1>6, PositionIs
  <2>3. key[order[k]] < key[order[l]]
    BY <1>1, <1>5, <2>1, <2>2
  <2> QED BY <1>4, <2>3 DEF Less, Sorts
<1>7. ASSUME NEW k \in 1 .. n, NEW l \in 1 .. n, k < l, ~Authority(order[l]),
             Authority(order[k])
      PROVE  \E i \in 1 .. l : Refer(candidates, order[i], order[k])
  <2>1. key[order[l]] = 2 * order[l]
    BY <1>1, <1>2, <1>5, <1>7, PositionIs
  <2>2. PICK m \in 1 .. n : key[order[k]] = 2 * m - 1 /\ Refer(candidates, m, order[k])
    BY <1>1, <1>2, <1>5, <1>7, PositionIs
  <2>3. Less(key, order[k], order[l])
    BY <1>4, <1>7 DEF Sorts
  <2>4. m <= order[l]
    <3>1. 2 * m - 1 < 2 * order[l] \/ 2 * m - 1 = 2 * order[l]
      BY <2>1, <2>2, <2>3 DEF Less
    <3> QED BY <1>1, <1>5, <3>1
  <2>5. PICK i \in 1 .. n : order[i] = m
    BY <1>4 DEF Sorts
  <2>6. key[m] = 2 * m
    BY <1>1, <1>2, <1>5, <2>2, ReferrersStay
  <2>7. ~(l < i)
    <3>1. SUFFICES ASSUME l < i  PROVE FALSE
      OBVIOUS
    <3>2. Less(key, order[l], m)
      BY <1>4, <2>5, <3>1 DEF Sorts
    <3>3. 2 * order[l] < 2 * m \/ (2 * order[l] = 2 * m /\ order[l] < m)
      BY <2>1, <2>6, <3>2 DEF Less
    <3> QED BY <1>1, <1>5, <2>4, <3>3
  <2> QED BY <1>1, <2>2, <2>5, <2>7
<1>8. ASSUME NEW k \in 1 .. n, NEW l \in 1 .. n, k < l, ~Authority(order[l]),
             ~Authority(order[k])
      PROVE  order[k] < order[l]
  <2>1. key[order[l]] = 2 * order[l] /\ key[order[k]] = 2 * order[k]
    BY <1>1, <1>2, <1>5, <1>8, PositionIs
  <2>2. Less(key, order[k], order[l])
    BY <1>4, <1>8 DEF Sorts
  <2> QED BY <1>5, <2>1, <2>2 DEF Less
<1> QED BY <1>1, <1>3, <1>4, <1>6, <1>7, <1>8 DEF RerankIsRight, Refer, Sorts
=============================================================================
