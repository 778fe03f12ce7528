---------------------------- MODULE FBAMarketProofs ----------------------------
(***************************************************************************)
(* The frequent batch auction of FBAMarket, for any orders, prices, sizes   *)
(* and numbers of auctions and cancellations: its invariants, the rules of  *)
(* the price it announces and of the shares it hands out, and that it       *)
(* keeps the promise of OrderLedger.                                        *)
(*                                                                          *)
(* All follow from one inductive invariant, Inv, that says of every phase   *)
(* of an auction what the market relies on in it:                           *)
(*                                                                          *)
(*   BookInv     the levels are sorted, hold the orders that are left, in   *)
(*               the order of the auctions they have seen, and their        *)
(*               shares;                                                    *)
(*   PriceSoFar  while the rows of the table are read, the price is the     *)
(*               best of those read so far, which are the higher ones;      *)
(*   Parts       the shares handed out of a level fit its orders, and are   *)
(*               either all of them or add up to what is still to be        *)
(*               executed, those with nothing at the end;                   *)
(*   Enough      both sides offer what is still to be executed, and one of  *)
(*               them nothing else: it is used up level by level, so that   *)
(*               neither runs dry before the other;                         *)
(*   Most        at no price more could be matched: nothing crosses when    *)
(*               all is executed;                                           *)
(*   LedgerInv   what was submitted is filled, cancelled or resting.        *)
(*                                                                          *)
(* The lemmas come first: ranks and levels, the sum a side offers, then     *)
(* one lemma per action, which shows that it keeps Inv.                     *)
(***************************************************************************)
EXTENDS FBAMarket, DataLemmas

\* The first n elements of S.
FirstOf(S, n) == {i \in S : Cardinality({j \in S : j < i}) < n}

(***************************************************************************)
(* The first n elements of a set of numbers are at most n; they are all     *)
(* elements if they are fewer; and nothing is left out in front of one.     *)
(***************************************************************************)
LEMMA FirstElements ==
    ASSUME NEW S \in SUBSET Nat, IsFiniteSet(S), NEW n \in Nat, NEW T, T = FirstOf(S, n)
    PROVE  /\ IsFiniteSet(T) /\ Cardinality(T) \in 0..n
           /\ Cardinality(T) < n => T = S
           /\ \A i \in T, j \in S : j < i => j \in T
<1> DEFINE Ahead(i) == {j \in S : j < i}
           rank == [i \in T |-> Cardinality(Ahead(i))]
<1> USE DEF FirstOf
<1>0. \A i \in S : i \in Nat
  OBVIOUS
<1>1. IsFiniteSet(T) /\ Cardinality(T) \in Nat
  BY FS_Subset, FS_CardinalityType
<1>2. ASSUME NEW i \in S PROVE IsFiniteSet(Ahead(i)) /\ Cardinality(Ahead(i)) \in Nat
  BY FS_Subset, FS_CardinalityType
<1>3. ASSUME NEW i \in S, NEW j \in S, j < i
      PROVE  Cardinality(Ahead(j)) < Cardinality(Ahead(i))
  <2>1. Ahead(j) \in SUBSET Ahead(i) /\ Ahead(j) # Ahead(i)
    <3>1. j \in Ahead(i) /\ j \notin Ahead(j)
      BY <1>3
    <3>2. \A k \in S : k < j => k < i
      BY <1>0, <1>3
    <3>3. Ahead(j) \subseteq Ahead(i)
      BY <3>2
    <3> HIDE DEF Ahead
    <3> QED BY <3>1, <3>3
  <2>2. IsFiniteSet(Ahead(i)) /\ Cardinality(Ahead(i)) \in Nat /\ Cardinality(Ahead(j)) \in Nat
    BY <1>2
  <2>3. PICK A, B : A = Ahead(i) /\ B = Ahead(j)
    OBVIOUS
  <2> HIDE DEF Ahead
  <2>4. B \in SUBSET A /\ A # B /\ IsFiniteSet(A) /\ Cardinality(A) \in Nat /\ Cardinality(B) \in Nat
    BY <2>1, <2>2, <2>3
  <2>5. Cardinality(B) <= Cardinality(A) /\ Cardinality(A) # Cardinality(B)
    BY <2>4, FS_Subset
  <2> QED BY <2>3, <2>4, <2>5
<1>4. rank \in [T -> 0..(n - 1)]
  <2>1. \A i \in T : Cardinality(Ahead(i)) \in Nat /\ Cardinality(Ahead(i)) < n
    BY <1>2
  <2>2. \A i \in T : Cardinality(Ahead(i)) \in 0..(n - 1)
    <3> HIDE DEF Ahead
    <3> QED BY <2>1
  <2> QED BY <2>2
<1>5. \A i, j \in T : rank[i] = rank[j] => i = j
  <2> SUFFICES ASSUME NEW i \in T, NEW j \in T, i # j PROVE rank[i] # rank[j]
    OBVIOUS
  <2>0. i \in S /\ j \in S /\ i \in Nat /\ j \in Nat
    OBVIOUS
  <2>1. rank[i] = Cardinality(Ahead(i)) /\ rank[j] = Cardinality(Ahead(j))
    OBVIOUS
  <2>2. Cardinality(Ahead(i)) \in Nat /\ Cardinality(Ahead(j)) \in Nat
    BY <1>2
  <2>3. CASE i < j
    BY <2>0, <2>1, <2>2, <2>3, <1>3
  <2>4. CASE j < i
    BY <2>0, <2>1, <2>2, <2>4, <1>3
  <2> QED BY <2>0, <2>3, <2>4
<1>6. Cardinality(T) <= n
  <2>1. IsFiniteSet(0..(n - 1)) /\ Cardinality(0..(n - 1)) = n
    BY FS_Interval
  <2>2. rank \in Injection(T, 0..(n - 1))
    <3> HIDE DEF rank
    <3>1. DOMAIN rank = T
      BY <1>4
    <3> QED BY <1>4, <1>5, <3>1 DEF Injection, IsInjective
  <2> HIDE DEF rank
  <2> QED BY <2>1, <2>2, FS_Injection
<1>7. ASSUME T # S PROVE ~(Cardinality(T) < n)
  <2> DEFINE U == S \ T
  <2> PICK m : m = Min(U)
    OBVIOUS
  <2>1. m \in U /\ \A y \in U : m <= y
    <3>1. U \in SUBSET Nat /\ U # {}
      BY <1>7
    <3> HIDE DEF U
    <3> QED BY <3>1, MinNat
  <2>2. m \in S /\ ~(Cardinality(Ahead(m)) < n)
    BY <2>1
  <2>3. Ahead(m) \in SUBSET T
    <3> SUFFICES ASSUME NEW j \in Ahead(m) PROVE j \in T
      OBVIOUS
    <3>1. j \in S /\ j < m /\ m \in Nat /\ j \in Nat
      BY <2>1
    <3>2. ~(m <= j)
      BY <3>1
    <3>3. j \notin U
      BY <2>1, <3>2
    <3> QED BY <3>1, <3>3
  <2>4. Cardinality(Ahead(m)) <= Cardinality(T) /\ Cardinality(Ahead(m)) \in Nat
    <3>1. PICK A : A = Ahead(m)
      OBVIOUS
    <3> HIDE DEF Ahead
    <3>2. A \in SUBSET T /\ Cardinality(A) \in Nat
      BY <1>2, <2>2, <2>3, <3>1
    <3>3. Cardinality(A) <= Cardinality(T)
      BY <1>1, <3>2, FS_Subset
    <3> QED BY <3>1, <3>2, <3>3
  <2> HIDE DEF Ahead
  <2> QED BY <1>1, <2>2, <2>4
<1>8. ASSUME NEW i \in T, NEW j \in S, j < i PROVE j \in T
  <2>1. Cardinality(Ahead(i)) < n /\ i \in S
    OBVIOUS
  <2>2. Cardinality(Ahead(j)) < n
    <3> HIDE DEF Ahead
    <3> QED BY <1>2, <1>3, <1>8, <2>1
  <2> QED BY <2>2
<1> QED BY <1>1, <1>6, <1>7, <1>8

(***************************************************************************)
(* The elements of 1..n, in any strict order of them, by their ranks.       *)
(***************************************************************************)
ByRank(n, before) == [k \in 1..n |-> CHOOSE i \in 1..n : Cardinality(before[i]) = k - 1]
StrictOrder(n, before) ==
    /\ before \in [1..n -> SUBSET (1..n)]
    /\ \A i \in 1..n : i \notin before[i]
    /\ \A i, j \in 1..n : i # j => i \in before[j] \/ j \in before[i]
    /\ \A i, j \in 1..n : i \in before[j] => before[i] \subseteq before[j]
Ranked(n, before, by) ==
    /\ by \in [1..n -> 1..n]
    /\ \A k, l \in 1..n : by[k] = by[l] => k = l
    /\ \A i \in 1..n : \E k \in 1..n : by[k] = i
    /\ \A k, l \in 1..n : k < l => by[k] \in before[by[l]]

\* Ranking the elements of a finite strict order numbers each of them once, the smaller first.
LEMMA Ranks ==
    ASSUME NEW n \in Nat, NEW before, StrictOrder(n, before)
    PROVE  Ranked(n, before, ByRank(n, before))
<1> PICK by : by = ByRank(n, before)
  OBVIOUS
<1> DEFINE rank == [i \in 1..n |-> Cardinality(before[i])]
<1>1. IsFiniteSet(1..n) /\ Cardinality(1..n) = n
  BY FS_Interval
<1>2. ASSUME NEW i \in 1..n
      PROVE  IsFiniteSet(before[i]) /\ Cardinality(before[i]) \in Nat /\ Cardinality(before[i]) < n
  <2>1. before[i] \in SUBSET (1..n) /\ before[i] # 1..n
    BY DEF StrictOrder
  <2>2. IsFiniteSet(before[i]) /\ Cardinality(before[i]) <= n /\ Cardinality(before[i]) # n
    BY <1>1, <2>1, FS_Subset
  <2>3. Cardinality(before[i]) \in Nat
    BY <2>2, FS_CardinalityType
  <2> QED BY <2>2, <2>3
<1>3. ASSUME NEW i \in 1..n, NEW j \in 1..n, i \in before[j]
      PROVE  Cardinality(before[i]) < Cardinality(before[j])
  <2>1. before[i] \in SUBSET before[j] /\ before[i] # before[j]
    BY <1>3 DEF StrictOrder
  <2> QED BY <1>2, <2>1, FS_Subset
<1>4. rank \in [1..n -> 0..(n - 1)]
  <2>1. \A i \in 1..n : Cardinality(before[i]) \in 0..(n - 1)
    BY <1>2
  <2> QED BY <2>1
<1>5. \A i, j \in 1..n : rank[i] = rank[j] => i = j
  <2> SUFFICES ASSUME NEW i \in 1..n, NEW j \in 1..n, i # j PROVE rank[i] # rank[j]
    OBVIOUS
  <2>1. rank[i] = Cardinality(before[i]) /\ rank[j] = Cardinality(before[j])
    OBVIOUS
  <2>2. i \in before[j] \/ j \in before[i]
    BY DEF StrictOrder
  <2> HIDE DEF rank
  <2> QED BY <2>1, <2>2, <1>2, <1>3
<1>6. \A x \in 0..(n - 1) : \E i \in 1..n : rank[i] = x
  <2>1. rank \in Injection(1..n, 0..(n - 1))
    <3> HIDE DEF rank
    <3>1. DOMAIN rank = 1..n
      BY <1>4
    <3> QED BY <1>4, <1>5, <3>1 DEF Injection, IsInjective
  <2>2. IsFiniteSet(0..(n - 1)) /\ Cardinality(0..(n - 1)) = n
    BY FS_Interval
  <2>3. rank \in Surjection(1..n, 0..(n - 1))
    <3> HIDE DEF rank
    <3> QED BY <1>1, <2>1, <2>2, FS_Injection
  <2> HIDE DEF rank
  <2> QED BY <2>3 DEF Surjection
<1>7. ASSUME NEW k \in 1..n
      PROVE  by[k] \in 1..n /\ Cardinality(before[by[k]]) = k - 1
  <2>1. k - 1 \in 0..(n - 1)
    OBVIOUS
  <2>2. \E i \in 1..n : Cardinality(before[i]) = k - 1
    BY <1>6, <2>1
  <2>3. by[k] = CHOOSE i \in 1..n : Cardinality(before[i]) = k - 1
    BY DEF ByRank
  <2> QED BY <2>2, <2>3
<1>8. by \in [1..n -> 1..n]
  <2>1. by = [k \in 1..n |-> by[k]]
    BY DEF ByRank
  <2> QED BY <1>7, <2>1
<1>9. \A k, l \in 1..n : by[k] = by[l] => k = l
  <2> SUFFICES ASSUME NEW k \in 1..n, NEW l \in 1..n, by[k] = by[l] PROVE k = l
    OBVIOUS
  <2>1. k - 1 = l - 1
    BY <1>7
  <2> QED BY <2>1
<1>10. ASSUME NEW i \in 1..n PROVE \E k \in 1..n : by[k] = i
  <2> PICK k : k = Cardinality(before[i]) + 1
    OBVIOUS
  <2>1. k \in 1..n /\ Cardinality(before[i]) = k - 1
    BY <1>2
  <2>2. rank[by[k]] = rank[i] /\ by[k] \in 1..n
    BY <1>7, <2>1
  <2> QED BY <1>5, <2>1, <2>2
<1>11. ASSUME NEW k \in 1..n, NEW l \in 1..n, k < l PROVE by[k] \in before[by[l]]
  <2>1. by[k] \in 1..n /\ by[l] \in 1..n /\ by[k] # by[l]
    BY <1>7, <1>9, <1>11
  <2>2. Cardinality(before[by[k]]) = k - 1 /\ Cardinality(before[by[l]]) = l - 1
    BY <1>7
  <2>3. by[l] \notin before[by[k]]
    <3> SUFFICES ASSUME by[l] \in before[by[k]] PROVE FALSE
      OBVIOUS
    <3>1. Cardinality(before[by[l]]) < Cardinality(before[by[k]])
      BY <1>3, <2>1
    <3> QED BY <1>11, <2>2, <3>1
  <2>4. by[k] \in before[by[l]] \/ by[l] \in before[by[k]]
    BY <2>1 DEF StrictOrder
  <2> QED BY <2>3, <2>4
<1> QED BY <1>8, <1>9, <1>10, <1>11 DEF Ranked

OrderRec == [kind: Kinds, side: Sides, price: Nat, size: Nat, counter: Nat]
LevelRec == [price: Nat, size: Nat, ids: Seq(Nat)]

Aged(os, ids) == \A i, j \in DOMAIN ids : i < j => os[ids[i]].counter >= os[ids[j]].counter

(***************************************************************************)
(* Sorting a level keeps its orders, and puts those that have seen more     *)
(* auctions in front.                                                       *)
(***************************************************************************)
LEMMA SortedLevel ==
    ASSUME NEW os, NEW S, NEW ids \in Seq(S),
           \A i \in DOMAIN ids : os[ids[i]].counter \in Nat /\ os[ids[i]].size \in Nat,
           NEW new, new = SortPriceLevel(os, ids)
    PROVE  /\ new \in Seq(S) /\ Len(new) = Len(ids)
           /\ Range(new) = Range(ids)
           /\ IsInjective(ids) => IsInjective(new)
           /\ Aged(os, new)
<1>0. PICK n : n = Len(ids)
  OBVIOUS
<1>1. n \in Nat /\ DOMAIN ids = 1..n /\ ids \in [1..n -> S]
  BY <1>0, LenProperties
<1>2. PICK counter : counter = [i \in 1..n |-> os[ids[i]].counter]
  OBVIOUS
<1>3. PICK size : size = [i \in 1..n |-> os[ids[i]].size]
  OBVIOUS
<1>4. PICK before : before = [i \in 1..n |-> {j \in 1..n : Precedes(os, ids, j, i)}]
  OBVIOUS
<1>5. counter \in [1..n -> Nat] /\ size \in [1..n -> Nat]
  BY <1>1, <1>2, <1>3
<1>6. \A i, j \in 1..n :
         j \in before[i] <=> \/ counter[j] > counter[i]
                             \/ counter[j] = counter[i] /\ size[j] > size[i]
                             \/ counter[j] = counter[i] /\ size[j] = size[i] /\ j < i
  <2>1. \A i, j \in 1..n : j \in before[i] <=> Precedes(os, ids, j, i)
    BY <1>4
  <2>2. \A i \in 1..n : counter[i] = os[ids[i]].counter /\ size[i] = os[ids[i]].size
    BY <1>2, <1>3
  <2> QED BY <2>1, <2>2 DEF Precedes
<1>7. StrictOrder(n, before)
  <2>1. before \in [1..n -> SUBSET (1..n)]
    BY <1>4
  <2>2. \A i \in 1..n : i \notin before[i]
    BY SMTT(60), <1>1, <1>5, <1>6
  <2>3. ASSUME NEW i \in 1..n, NEW j \in 1..n, i # j PROVE i \in before[j] \/ j \in before[i]
    <3>1. counter[i] \in Nat /\ counter[j] \in Nat /\ size[i] \in Nat /\ size[j] \in Nat
      BY <1>5
    <3>2. i \in Nat /\ j \in Nat
      BY <1>1
    <3>3. counter[i] = counter[j] \/ counter[i] > counter[j] \/ counter[j] > counter[i]
      BY <3>1
    <3>4. size[i] = size[j] \/ size[i] > size[j] \/ size[j] > size[i]
      BY <3>1
    <3>5. i < j \/ j < i
      BY <2>3, <3>2
    <3> QED BY <1>6, <3>3, <3>4, <3>5
  <2>4. ASSUME NEW i \in 1..n, NEW j \in 1..n, i \in before[j], NEW k \in before[i]
        PROVE  k \in before[j]
    <3>1. k \in 1..n
      BY <2>1, <2>4
    <3>2. counter[i] \in Nat /\ counter[j] \in Nat /\ counter[k] \in Nat
          /\ size[i] \in Nat /\ size[j] \in Nat /\ size[k] \in Nat
      BY <1>5, <3>1
    <3>3. \/ counter[k] > counter[i]
          \/ counter[k] = counter[i] /\ size[k] > size[i]
          \/ counter[k] = counter[i] /\ size[k] = size[i] /\ k < i
      BY <1>6, <2>4, <3>1
    <3>4. \/ counter[i] > counter[j]
          \/ counter[i] = counter[j] /\ size[i] > size[j]
          \/ counter[i] = counter[j] /\ size[i] = size[j] /\ i < j
      BY <1>6, <2>4
    <3>5. i \in Nat /\ j \in Nat /\ k \in Nat
      BY <1>1, <3>1
    <3>6. \/ counter[k] > counter[j]
          \/ counter[k] = counter[j] /\ size[k] > size[j]
          \/ counter[k] = counter[j] /\ size[k] = size[j] /\ k < j
      BY <3>2, <3>3, <3>4, <3>5
    <3> QED BY <1>6, <3>1, <3>6
  <2> QED BY <2>1, <2>2, <2>3, <2>4 DEF StrictOrder
<1>8. PICK by : by = ByRank(n, before)
  OBVIOUS
<1>8a. n \in Nat
  BY <1>1
<1>9. /\ by \in [1..n -> 1..n]
      /\ \A k, l \in 1..n : by[k] = by[l] => k = l
      /\ \A i \in 1..n : \E k \in 1..n : by[k] = i
      /\ \A k, l \in 1..n : k < l => by[k] \in before[by[l]]
  <2>1. Ranked(n, before, by)
    BY <1>7, <1>8, <1>8a, Ranks
  <2> QED BY <2>1 DEF Ranked
<1>10. new = [k \in 1..n |-> ids[by[k]]]
  <2>1. \A i \in 1..n : before[i] = {j \in DOMAIN ids : Precedes(os, ids, j, i)}
    BY <1>1, <1>4
  <2>2. \A k \in 1..n : by[k] = CHOOSE i \in 1..n : Cardinality(before[i]) = k - 1
    BY <1>8 DEF ByRank
  <2> DEFINE c(k) == CHOOSE i \in DOMAIN ids : Cardinality({j \in DOMAIN ids : Precedes(os, ids, j, i)}) = k - 1
  <2>3. \A k \in 1..n : by[k] = c(k)
    BY <1>1, <2>1, <2>2
  <2>4. new = [k \in DOMAIN ids |-> ids[c(k)]]
    BY DEF SortPriceLevel
  <2> HIDE DEF c
  <2>5. new = [k \in 1..n |-> ids[c(k)]]
    BY <1>1, <2>4
  <2> QED BY <2>3, <2>5
<1>11. new \in [1..n -> S] /\ DOMAIN new = 1..n /\ \A k \in 1..n : new[k] = ids[by[k]]
  BY <1>1, <1>9, <1>10
<1>12. new \in Seq(S) /\ Len(new) = n
  BY <1>1, <1>11
<1>13. Range(new) = Range(ids)
  <2>1. ASSUME NEW x \in Range(new) PROVE x \in Range(ids)
    <3>1. PICK k \in 1..n : x = ids[by[k]]
      BY <1>11 DEF Range
    <3> QED BY <3>1, <1>1, <1>9 DEF Range
  <2>2. ASSUME NEW x \in Range(ids) PROVE x \in Range(new)
    <3>1. PICK i \in 1..n : x = ids[i]
      BY <1>1 DEF Range
    <3>2. PICK k \in 1..n : by[k] = i
      BY <1>9
    <3>3. new[k] = x
      BY <1>11, <3>1, <3>2
    <3> QED BY <1>11, <3>3 DEF Range
  <2> QED BY <2>1, <2>2
<1>14. ASSUME IsInjective(ids) PROVE IsInjective(new)
  <2> SUFFICES ASSUME NEW k \in 1..n, NEW l \in 1..n, new[k] = new[l] PROVE k = l
    BY <1>11 DEF IsInjective
  <2>1. by[k] \in 1..n /\ by[l] \in 1..n /\ ids[by[k]] = ids[by[l]]
    BY <1>9, <1>11
  <2>2. by[k] = by[l]
    BY <1>1, <1>14, <2>1 DEF IsInjective
  <2> QED BY <1>9, <2>2
<1>15. Aged(os, new)
  <2> SUFFICES ASSUME NEW k \in 1..n, NEW l \in 1..n, k < l
               PROVE  os[new[k]].counter >= os[new[l]].counter
    BY <1>11 DEF Aged
  <2>1. by[k] \in 1..n /\ by[l] \in 1..n /\ by[k] \in before[by[l]]
    BY <1>9
  <2>2. counter[by[k]] \in Nat /\ counter[by[l]] \in Nat
    BY <1>5, <2>1
  <2>3. counter[by[k]] >= counter[by[l]]
    BY <1>6, <2>1, <2>2
  <2>4. counter[by[k]] = os[new[k]].counter /\ counter[by[l]] = os[new[l]].counter
    BY <1>2, <1>11, <2>1
  <2> QED BY <2>3, <2>4
<1> QED BY <1>0, <1>12, <1>13, <1>14, <1>15

--------------------------------------------------------------------------------
(* The orders of a level, and their shares. *)

Belongs(os, s, p) == {id \in DOMAIN os : os[id].size > 0 /\ os[id].side = s /\ os[id].price = p}
Sizes(os, ids) == [id \in ids |-> os[id].size]
ExactLevel(os, s, lv) ==
    /\ IsInjective(lv.ids) /\ Range(lv.ids) = Belongs(os, s, lv.price)
    /\ lv.size = SumFunction(Sizes(os, Belongs(os, s, lv.price)))
Covered(os, s, levels) ==
    \A id \in DOMAIN os : os[id].size > 0 /\ os[id].side = s
                              => \E lv \in Range(levels) : lv.price = os[id].price
Ordered(s, levels) ==
    \A i, j \in DOMAIN levels : i < j => Better(s, levels[i].price, levels[j].price)
ExactSide(os, s, levels) ==
    /\ \A lv \in Range(levels) : ExactLevel(os, s, lv)
    /\ Ordered(s, levels)
    /\ Covered(os, s, levels)

(***************************************************************************)
(* LevelsExact says it of the two sides.                                    *)
(***************************************************************************)
LEMMA ExactSides ==
    ASSUME book \in [Sides -> Seq(LevelRec)]
    PROVE  LevelsExact <=> \A s \in Sides : ExactSide(orders, s, book[s])
<1> SUFFICES ASSUME NEW s \in Sides
             PROVE  ExactSide(orders, s, book[s]) <=>
                      /\ \A l \in DOMAIN book[s] :
                            LET lv == book[s][l]
                            IN  /\ IsInjective(lv.ids) /\ Range(lv.ids) = Members(s, lv.price)
                                /\ lv.size = SharesOf(Members(s, lv.price))
                                /\ \A m \in 1..(l - 1) : Better(s, book[s][m].price, lv.price)
                      /\ \A id \in DOMAIN orders :
                            orders[id].size > 0 /\ orders[id].side = s
                                => \E lv \in Range(book[s]) : lv.price = orders[id].price
  BY DEF LevelsExact
<1>1. PICK n \in Nat : DOMAIN book[s] = 1..n
  BY LenProperties
<1>2. \A p : Belongs(orders, s, p) = Members(s, p)
  BY DEF Belongs, Members
<1>3. \A ids : SumFunction(Sizes(orders, ids)) = SharesOf(ids)
  BY DEF Sizes, SharesOf
<1>4. (\A lv \in Range(book[s]) : ExactLevel(orders, s, lv)) <=>
         \A l \in DOMAIN book[s] : ExactLevel(orders, s, book[s][l])
  BY DEF Range
<1>5. Ordered(s, book[s]) <=> \A l \in DOMAIN book[s] : \A m \in 1..(l - 1) :
                                Better(s, book[s][m].price, book[s][l].price)
  <2>1. \A l \in 1..n, m \in 1..n : m < l <=> m \in 1..(l - 1)
    OBVIOUS
  <2>2. \A l \in 1..n : 1..(l - 1) \subseteq 1..n
    OBVIOUS
  <2> QED BY <1>1, <2>1, <2>2 DEF Ordered
<1>6. \A l \in DOMAIN book[s] : ExactLevel(orders, s, book[s][l]) <=>
         /\ IsInjective(book[s][l].ids) /\ Range(book[s][l].ids) = Members(s, book[s][l].price)
         /\ book[s][l].size = SharesOf(Members(s, book[s][l].price))
  BY <1>2, <1>3 DEF ExactLevel
<1> QED BY <1>4, <1>5, <1>6 DEF ExactSide, Covered

\* The orders of side s, and that two states of the orders differ in one of them at most.
OfSide(os, s) == {j \in DOMAIN os : os[j].side = s}
AgreeBut(os, new, s, id) ==
    /\ OfSide(new, s) \ {id} = OfSide(os, s) \ {id}
    /\ \A j \in OfSide(os, s) \ {id} : new[j].price = os[j].price /\ new[j].size = os[j].size

(***************************************************************************)
(* The orders of a price to which the one that changed does not belong      *)
(* stay, with their sizes.                                                  *)
(***************************************************************************)
LEMMA ExactElsewhere ==
    ASSUME NEW os, NEW new, NEW s, NEW id, AgreeBut(os, new, s, id), NEW lv, ExactLevel(os, s, lv),
           id \in OfSide(os, s) => os[id].price # lv.price,
           id \in OfSide(new, s) => new[id].price # lv.price
    PROVE  ExactLevel(new, s, lv)
<1>1. ASSUME NEW j \in Belongs(os, s, lv.price)
      PROVE  j \in Belongs(new, s, lv.price) /\ new[j].size = os[j].size
  <2>1. j \in OfSide(os, s) \ {id} /\ os[j].size > 0 /\ os[j].price = lv.price
    BY DEF Belongs, OfSide
  <2>2. j \in OfSide(new, s) /\ new[j].price = os[j].price /\ new[j].size = os[j].size
    BY <2>1 DEF AgreeBut
  <2> QED BY <2>1, <2>2 DEF Belongs, OfSide
<1>2. ASSUME NEW j \in Belongs(new, s, lv.price)
      PROVE  j \in Belongs(os, s, lv.price)
  <2>1. j \in OfSide(new, s) \ {id} /\ new[j].size > 0 /\ new[j].price = lv.price
    BY DEF Belongs, OfSide
  <2>2. j \in OfSide(os, s) \ {id}
    BY <2>1 DEF AgreeBut
  <2>3. new[j].price = os[j].price /\ new[j].size = os[j].size
    BY <2>2 DEF AgreeBut
  <2> QED BY <2>1, <2>2, <2>3 DEF Belongs, OfSide
<1>3. Belongs(new, s, lv.price) = Belongs(os, s, lv.price)
  BY <1>1, <1>2
<1>4. Sizes(new, Belongs(os, s, lv.price)) = Sizes(os, Belongs(os, s, lv.price))
  BY <1>1 DEF Sizes
<1> QED BY <1>3, <1>4 DEF ExactLevel

\* The functions f on D and g on E differ in x, where f is a and g is b; 0 is not to be there.
DifferIn(D, f, E, g, x, a, b) ==
    /\ IsFiniteSet(D) /\ f \in [D -> Int] /\ g \in [E -> Int] /\ a \in Int /\ b \in Int
    /\ D \ {x} = E \ {x} /\ \A y \in D \ {x} : f[y] = g[y]
    /\ (IF x \in D THEN f[x] ELSE 0) = a
    /\ (IF x \in E THEN g[x] ELSE 0) = b

(***************************************************************************)
(* A sum of which one part changes, comes or goes.                          *)
(***************************************************************************)
LEMMA SumOneChanged ==
    ASSUME NEW D, NEW f, NEW E, NEW g, NEW x, NEW a, NEW b, DifferIn(D, f, E, g, x, a, b)
    PROVE  SumFunction(g) = SumFunction(f) - a + b /\ SumFunction(f) \in Int /\ SumFunction(g) \in Int
<1>0. /\ IsFiniteSet(D) /\ f \in [D -> Int] /\ g \in [E -> Int]
      /\ D \ {x} = E \ {x} /\ \A y \in D \ {x} : f[y] = g[y]
  BY DEF DifferIn
<1>1. /\ SumFunction(f) \in Int /\ SumFunction(g) \in Int
      /\ SumFunction(g) - (IF x \in E THEN g[x] ELSE 0)
           = SumFunction(f) - (IF x \in D THEN f[x] ELSE 0)
  BY <1>0, SumDiffer
<1> QED BY <1>1 DEF DifferIn

\* The level lv of price p has become lw, with the change of order id.
Follows(os, new, lv, lw, id) ==
    /\ lw.price = lv.price /\ IsInjective(lw.ids)
    /\ Range(lw.ids) = (Range(lv.ids) \ {id}) \cup (IF new[id].size > 0 THEN {id} ELSE {})
    /\ lw.size = lv.size - (IF id \in DOMAIN os THEN os[id].size ELSE 0) + new[id].size
ChangedOrder(os, new, s, id, p) ==
    /\ id \in DOMAIN new /\ new[id].side = s /\ new[id].price = p
    /\ id \in DOMAIN os => os[id].side = s /\ os[id].price = p

(***************************************************************************)
(* The level of the order that changed is exact if it followed.             *)
(***************************************************************************)
LEMMA ExactHere ==
    ASSUME NEW os \in Seq(OrderRec), NEW new \in Seq(OrderRec), NEW s, NEW id,
           AgreeBut(os, new, s, id), NEW lv, NEW lw, ExactLevel(os, s, lv),
           ChangedOrder(os, new, s, id, lv.price), Follows(os, new, lv, lw, id)
    PROVE  ExactLevel(new, s, lw)
<1>p. PICK p : p = lv.price
  OBVIOUS
<1>D. PICK D : D = Belongs(os, s, p)
  OBVIOUS
<1>E. PICK E : E = Belongs(new, s, p)
  OBVIOUS
<1>0. /\ \A j \in DOMAIN os : os[j].size \in Nat
      /\ \A j \in DOMAIN new : new[j].size \in Nat
  <2>1. (\A j \in DOMAIN os : os[j] \in OrderRec) /\ \A j \in DOMAIN new : new[j] \in OrderRec
    BY LenProperties, ElementOfSeq
  <2> QED BY <2>1 DEF OrderRec
<1>1. IsFiniteSet(D) /\ D \subseteq DOMAIN os /\ E \subseteq DOMAIN new
  <2>1. DOMAIN os = 1..Len(os) /\ Len(os) \in Nat
    BY LenProperties
  <2>2. D \subseteq 1..Len(os) /\ E \subseteq DOMAIN new
    BY <2>1, <1>D, <1>E DEF Belongs
  <2>3. PICK U : U = 1..Len(os)
    OBVIOUS
  <2>4. IsFiniteSet(U) /\ D \in SUBSET U
    BY <2>1, <2>2, <2>3, FS_Interval
  <2>5. IsFiniteSet(D)
    BY <2>4, FS_Subset
  <2> QED BY <2>1, <2>2, <2>5
<1>2. ASSUME NEW j \in D, j # id PROVE j \in E /\ new[j].size = os[j].size
  <2>1. j \in OfSide(os, s) \ {id} /\ os[j].size > 0 /\ os[j].price = p
    BY <1>2, <1>D DEF Belongs, OfSide
  <2>2. j \in OfSide(new, s) /\ new[j].price = os[j].price /\ new[j].size = os[j].size
    BY <2>1 DEF AgreeBut
  <2> QED BY <2>1, <2>2, <1>E DEF Belongs, OfSide
<1>3. ASSUME NEW j \in E, j # id PROVE j \in D
  <2>1. j \in OfSide(new, s) \ {id} /\ new[j].size > 0 /\ new[j].price = p
    BY <1>3, <1>E DEF Belongs, OfSide
  <2>2. j \in OfSide(os, s) \ {id}
    BY <2>1 DEF AgreeBut
  <2>3. new[j].price = os[j].price /\ new[j].size = os[j].size
    BY <2>2 DEF AgreeBut
  <2> QED BY <2>1, <2>2, <2>3, <1>D DEF Belongs, OfSide
<1>4. D \ {id} = E \ {id}
  BY <1>2, <1>3
<1>5. id \in E <=> new[id].size > 0
  BY <1>p, <1>E DEF Belongs, ChangedOrder
<1>6. id \in D <=> id \in DOMAIN os /\ os[id].size > 0
  BY <1>p, <1>D DEF Belongs, ChangedOrder
<1>7. Range(lv.ids) = D /\ lv.size = SumFunction(Sizes(os, D))
  BY <1>p, <1>D DEF ExactLevel
<1>8. Range(lw.ids) = E
  BY <1>4, <1>5, <1>7 DEF Follows
<1>9. lw.size = SumFunction(Sizes(new, E))
  <2>f. PICK f : f = Sizes(os, D)
    OBVIOUS
  <2>g. PICK g : g = Sizes(new, E)
    OBVIOUS
  <2>1. f \in [D -> Int] /\ \A j \in D : f[j] = os[j].size
    BY <1>0, <1>1, <2>f DEF Sizes
  <2>2. g \in [E -> Int] /\ \A j \in E : g[j] = new[j].size
    BY <1>0, <1>1, <2>g DEF Sizes
  <2>3. \A j \in D \ {id} : f[j] = g[j]
    BY <1>2, <2>1, <2>2
  <2>a. PICK a : a = IF id \in DOMAIN os THEN os[id].size ELSE 0
    OBVIOUS
  <2>b. PICK b : b = new[id].size
    OBVIOUS
  <2>5. a \in Nat /\ b \in Nat
    BY <1>0, <2>a, <2>b DEF ChangedOrder
  <2>6. (IF id \in E THEN g[id] ELSE 0) = b
    BY <1>5, <2>2, <2>5, <2>b
  <2>7. (IF id \in D THEN f[id] ELSE 0) = a
    BY <1>6, <2>1, <2>5, <2>a
  <2>8. lw.size = SumFunction(f) - a + b
    BY <1>7, <2>a, <2>b, <2>f DEF Follows
  <2>9. lw.size = SumFunction(g)
    <3>1. IsFiniteSet(D) /\ f \in [D -> Int] /\ g \in [E -> Int] /\ a \in Int /\ b \in Int
      BY <1>1, <2>1, <2>2, <2>5
    <3>2. DifferIn(D, f, E, g, id, a, b)
      BY <1>4, <2>3, <2>6, <2>7, <3>1 DEF DifferIn
    <3>3. SumFunction(g) = SumFunction(f) - a + b
      BY <3>2, SumOneChanged
    <3> QED BY <2>8, <3>3
  <2> QED BY <2>9, <2>g
<1> QED BY <1>8, <1>9, <1>p, <1>E DEF ExactLevel, Follows

(***************************************************************************)
(* A side on which one order changed is exact again if the level of its     *)
(* price is, and the other levels are those of before.                      *)
(***************************************************************************)
LEMMA SideChanged ==
    ASSUME NEW os, NEW new, NEW s, NEW id, NEW p, NEW levels, NEW after,
           AgreeBut(os, new, s, id), ChangedOrder(os, new, s, id, p),
           ExactSide(os, s, levels), Ordered(s, after),
           \A lw \in Range(after) : \/ lw \in Range(levels) /\ lw.price # p
                                    \/ lw.price = p /\ ExactLevel(new, s, lw),
           \A lv \in Range(levels) : lv.price # p => lv \in Range(after),
           new[id].size > 0 => \E lw \in Range(after) : lw.price = p,
           (\E lv \in Range(levels) : lv.price = p) /\ ~(\E lw \in Range(after) : lw.price = p)
               => Belongs(new, s, p) = {}
    PROVE  ExactSide(new, s, after)
<1>1. ASSUME NEW lw \in Range(after) PROVE ExactLevel(new, s, lw)
  <2>1. CASE lw \in Range(levels) /\ lw.price # p
    <3>1. ExactLevel(os, s, lw)
      BY <2>1 DEF ExactSide
    <3>2. id \in OfSide(os, s) => os[id].price # lw.price
      BY <2>1 DEF ChangedOrder, OfSide
    <3>3. id \in OfSide(new, s) => new[id].price # lw.price
      BY <2>1 DEF ChangedOrder, OfSide
    <3> QED BY <3>1, <3>2, <3>3, ExactElsewhere
  <2>2. CASE lw.price = p /\ ExactLevel(new, s, lw)
    BY <2>2
  <2> QED BY <2>1, <2>2
<1>2. ASSUME NEW j \in DOMAIN new, new[j].size > 0, new[j].side = s
      PROVE  \E lw \in Range(after) : lw.price = new[j].price
  <2>1. CASE j = id
    BY <1>2, <2>1 DEF ChangedOrder
  <2>2. CASE j # id
    <3>1. j \in OfSide(new, s) \ {id}
      BY <1>2, <2>2 DEF OfSide
    <3>2. j \in OfSide(os, s) \ {id}
      BY <3>1 DEF AgreeBut
    <3>3. new[j].price = os[j].price /\ new[j].size = os[j].size
      BY <3>2 DEF AgreeBut
    <3>4. PICK lv \in Range(levels) : lv.price = os[j].price
      BY <1>2, <3>2, <3>3 DEF ExactSide, Covered, OfSide
    <3>5. CASE new[j].price # p
      BY <3>3, <3>4, <3>5
    <3>6. CASE new[j].price = p
      <4>1. j \in Belongs(new, s, p)
        BY <1>2, <3>6 DEF Belongs
      <4> QED BY <3>3, <3>4, <3>6, <4>1
    <3> QED BY <3>5, <3>6
  <2> QED BY <2>1, <2>2
<1> QED BY <1>1, <1>2 DEF ExactSide, Covered

(***************************************************************************)
(* A side of which no order changed stays exact.                            *)
(***************************************************************************)
LEMMA SideSame ==
    ASSUME NEW os \in Seq(OrderRec), NEW new, NEW s, NEW levels, ExactSide(os, s, levels),
           OfSide(new, s) = OfSide(os, s),
           \A j \in OfSide(os, s) : new[j].price = os[j].price /\ new[j].size = os[j].size
    PROVE  ExactSide(new, s, levels)
<1> PICK id : id \notin OfSide(os, s)
  <2>1. -1 \notin OfSide(os, s)
    BY LenProperties DEF OfSide
  <2> QED BY <2>1
<1>1. AgreeBut(os, new, s, id)
  BY DEF AgreeBut
<1>2. \A lv \in Range(levels) : ExactLevel(new, s, lv)
  BY <1>1, ExactElsewhere DEF ExactSide
<1>3. Covered(new, s, levels)
  BY DEF ExactSide, Covered, OfSide
<1> QED BY <1>2, <1>3 DEF ExactSide

(***************************************************************************)
(* To be better is a strict order, on either side.                          *)
(***************************************************************************)
LEMMA BetterOrder ==
    ASSUME NEW s, NEW p \in Nat, NEW q \in Nat, NEW r \in Nat
    PROVE  /\ Better(s, p, q) /\ Better(s, q, r) => Better(s, p, r)
           /\ ~Better(s, p, q) /\ p # q => Better(s, q, p)
           /\ ~(Better(s, p, q) /\ Better(s, q, p)) /\ ~Better(s, p, p)
BY DEF Better

\* The levels after are those of levels, but those in news instead of that of price p.
Replaces(s, levels, p, after, news) ==
    /\ after \in Seq(LevelRec) /\ Ordered(s, after)
    /\ Range(after) = {lv \in Range(levels) : lv.price # p} \cup news

(***************************************************************************)
(* In an ordered list of levels no price comes twice.                       *)
(***************************************************************************)
LEMMA PricesDiffer ==
    ASSUME NEW s, NEW levels \in Seq(LevelRec), Ordered(s, levels),
           NEW i \in DOMAIN levels, NEW j \in DOMAIN levels, levels[i].price = levels[j].price
    PROVE  i = j
<1>1. DOMAIN levels = 1..Len(levels) /\ Len(levels) \in Nat
  BY LenProperties
<1>2. levels[i] \in LevelRec /\ levels[j] \in LevelRec
  BY <1>1, ElementOfSeq
<1>3. levels[i].price \in Nat /\ levels[j].price \in Nat
  BY <1>2 DEF LevelRec
<1>4. ~Better(s, levels[i].price, levels[j].price) /\ ~Better(s, levels[j].price, levels[i].price)
  BY <1>3, BetterOrder
<1>5. ~(i < j) /\ ~(j < i)
  BY <1>4 DEF Ordered
<1> QED BY <1>1, <1>5

(***************************************************************************)
(* A level is replaced by one of its price.                                 *)
(***************************************************************************)
LEMMA LevelReplaced ==
    ASSUME NEW s, NEW levels \in Seq(LevelRec), Ordered(s, levels), NEW l \in DOMAIN levels,
           NEW lw \in LevelRec, lw.price = levels[l].price
    PROVE  Replaces(s, levels, lw.price, ReplaceAt(levels, l, lw), {lw})
<1> SUFFICES ASSUME NEW after, after = ReplaceAt(levels, l, lw) PROVE Replaces(s, levels, lw.price, after, {lw})
  OBVIOUS
<1>1. DOMAIN levels = 1..Len(levels) /\ Len(levels) \in Nat
  BY LenProperties
<1>2. /\ after \in Seq(LevelRec) /\ Len(after) = Len(levels)
      /\ \A j \in 1..Len(levels) : after[j] = IF j = l THEN lw ELSE levels[j]
  BY <1>1, ExceptSeq DEF ReplaceAt
<1>3. DOMAIN after = DOMAIN levels
  BY <1>1, <1>2, LenProperties
<1>4. \A j \in DOMAIN levels : after[j].price = levels[j].price
  BY <1>1, <1>2
<1>5. Ordered(s, after)
  BY <1>3, <1>4 DEF Ordered
<1>6. ASSUME NEW x \in Range(after)
      PROVE  x \in {lv \in Range(levels) : lv.price # lw.price} \cup {lw}
  <2>1. PICK j \in DOMAIN levels : x = after[j]
    BY <1>3 DEF Range
  <2>2. CASE j = l
    BY <1>1, <1>2, <2>1, <2>2
  <2>3. CASE j # l
    <3>1. x = levels[j] /\ x.price # lw.price
      BY <1>1, <1>2, <2>1, <2>3, PricesDiffer
    <3> QED BY <3>1 DEF Range
  <2> QED BY <2>2, <2>3
<1>7. ASSUME NEW x \in Range(levels), x.price # lw.price PROVE x \in Range(after)
  <2>1. PICK j \in DOMAIN levels : x = levels[j]
    BY DEF Range
  <2>2. j # l
    BY <1>7, <2>1
  <2>3. after[j] = x
    BY <1>1, <1>2, <2>1, <2>2
  <2> QED BY <1>3, <2>3 DEF Range
<1>8. lw \in Range(after)
  <2>1. after[l] = lw
    BY <1>1, <1>2
  <2> QED BY <1>3, <2>1 DEF Range
<1> QED BY <1>2, <1>5, <1>6, <1>7, <1>8 DEF Replaces

(***************************************************************************)
(* A level is erased.                                                       *)
(***************************************************************************)
LEMMA LevelRemoved ==
    ASSUME NEW s, NEW levels \in Seq(LevelRec), Ordered(s, levels), NEW l \in DOMAIN levels
    PROVE  Replaces(s, levels, levels[l].price, RemoveAt(levels, l), {})
<1> SUFFICES ASSUME NEW after, after = RemoveAt(levels, l)
             PROVE  Replaces(s, levels, levels[l].price, after, {})
  OBVIOUS
<1>1. DOMAIN levels = 1..Len(levels) /\ Len(levels) \in Nat
  BY SMTT(60), LenProperties
<1>2. /\ after \in Seq(LevelRec) /\ Len(after) = Len(levels) - 1
      /\ \A j \in 1..Len(levels) - 1 : after[j] = IF j < l THEN levels[j] ELSE levels[j + 1]
  BY Zenon, <1>1, RemoveAtProperties
<1>3. DOMAIN after = 1..(Len(levels) - 1)
  BY <1>2, LenProperties
<1>4. PICK from : from = [j \in 1..(Len(levels) - 1) |-> IF j < l THEN j ELSE j + 1]
  OBVIOUS
<1>5. /\ \A j \in DOMAIN after : from[j] \in DOMAIN levels /\ after[j] = levels[from[j]] /\ from[j] # l
      /\ \A i, j \in DOMAIN after : i < j => from[i] < from[j]
  BY <1>1, <1>2, <1>3, <1>4
<1>6. Ordered(s, after)
  BY <1>5 DEF Ordered
<1>7. ASSUME NEW x \in Range(after)
      PROVE  x \in Range(levels) /\ x.price # levels[l].price
  <2>1. PICK j \in DOMAIN after : x = after[j]
    BY DEF Range
  <2>2. from[j] \in DOMAIN levels /\ x = levels[from[j]] /\ from[j] # l
    BY <1>5, <2>1
  <2>3. x.price # levels[l].price
    BY <2>2, PricesDiffer
  <2> QED BY <2>2, <2>3 DEF Range
<1>8. ASSUME NEW x \in Range(levels), x.price # levels[l].price PROVE x \in Range(after)
  <2>1. PICK j \in DOMAIN levels : x = levels[j]
    BY DEF Range
  <2>2. j # l
    BY <1>8, <2>1
  <2>3. PICK k : k = IF j < l THEN j ELSE j - 1
    OBVIOUS
  <2>4. k \in 1..(Len(levels) - 1) /\ after[k] = levels[j]
    BY <1>1, <1>2, <2>2, <2>3
  <2> QED BY <1>3, <2>1, <2>4 DEF Range
<1> QED BY <1>2, <1>6, <1>7, <1>8 DEF Replaces

(***************************************************************************)
(* A level is inserted behind the better ones and ahead of the worse ones.  *)
(***************************************************************************)
InPlace(s, levels, lw, i) ==
    /\ i \in 1..(Len(levels) + 1)
    /\ \A j \in 1..Len(levels) : IF j < i THEN Better(s, levels[j].price, lw.price)
                                 ELSE Better(s, lw.price, levels[j].price)
WithLevel(levels, lw, i, after) ==
    /\ after \in Seq(LevelRec) /\ Len(after) = Len(levels) + 1
    /\ \A j \in 1..(Len(levels) + 1) :
          after[j] = IF j < i THEN levels[j] ELSE IF j = i THEN lw ELSE levels[j - 1]

\* A level inserted in its place replaces whatever stood at its price.
LEMMA LevelInserted ==
    ASSUME NEW s, NEW levels \in Seq(LevelRec), Ordered(s, levels), NEW lw \in LevelRec,
           NEW i, InPlace(s, levels, lw, i), NEW after, WithLevel(levels, lw, i, after)
    PROVE  Replaces(s, levels, lw.price, after, {lw})
<1>1. DOMAIN levels = 1..Len(levels) /\ Len(levels) \in Nat /\ i \in 1..(Len(levels) + 1)
  BY LenProperties DEF InPlace
<1>2. /\ after \in Seq(LevelRec) /\ Len(after) = Len(levels) + 1
      /\ \A j \in 1..(Len(levels) + 1) :
            after[j] = IF j < i THEN levels[j] ELSE IF j = i THEN lw ELSE levels[j - 1]
  BY DEF WithLevel
<1>3. DOMAIN after = 1..(Len(levels) + 1)
  BY <1>2, LenProperties
<1>4. ASSUME NEW j \in 1..Len(levels)
      PROVE  /\ j < i => Better(s, levels[j].price, lw.price)
             /\ i <= j => Better(s, lw.price, levels[j].price)
             /\ levels[j].price # lw.price
  <2>1. levels[j] \in LevelRec
    BY ElementOfSeq
  <2>2. levels[j].price \in Nat /\ lw.price \in Nat
    BY <2>1 DEF LevelRec
  <2>3. ~Better(s, lw.price, lw.price)
    BY <2>2, BetterOrder
  <2>4. IF j < i THEN Better(s, levels[j].price, lw.price) ELSE Better(s, lw.price, levels[j].price)
    BY DEF InPlace
  <2> QED BY <1>1, <2>3, <2>4
<1>5. ASSUME NEW a \in DOMAIN after, NEW b \in DOMAIN after, a < b
      PROVE  Better(s, after[a].price, after[b].price)
  <2>0. a \in 1..(Len(levels) + 1) /\ b \in 1..(Len(levels) + 1)
    BY <1>3
  <2>1. CASE b < i
    <3>1. a \in 1..Len(levels) /\ b \in 1..Len(levels) /\ after[a] = levels[a] /\ after[b] = levels[b]
      BY <1>1, <1>2, <1>5, <2>0, <2>1
    <3> QED BY <1>1, <1>5, <3>1 DEF Ordered
  <2>2. CASE b = i
    <3>1. a \in 1..Len(levels) /\ a < i /\ after[a] = levels[a] /\ after[b] = lw
      BY <1>1, <1>2, <1>5, <2>0, <2>2
    <3> QED BY <1>4, <3>1
  <2>3. CASE i < b /\ a < i
    <3>1. a \in 1..Len(levels) /\ b - 1 \in 1..Len(levels) /\ a < b - 1
          /\ after[a] = levels[a] /\ after[b] = levels[b - 1]
      BY <1>1, <1>2, <1>5, <2>0, <2>3
    <3> QED BY <1>1, <3>1 DEF Ordered
  <2>4. CASE i < b /\ a = i
    <3>1. b - 1 \in 1..Len(levels) /\ i <= b - 1 /\ after[a] = lw /\ after[b] = levels[b - 1]
      BY <1>1, <1>2, <1>5, <2>0, <2>4
    <3> QED BY <1>4, <3>1
  <2>5. CASE i < b /\ i < a
    <3>1. a - 1 \in 1..Len(levels) /\ b - 1 \in 1..Len(levels) /\ a - 1 < b - 1
          /\ after[a] = levels[a - 1] /\ after[b] = levels[b - 1]
      BY <1>1, <1>2, <1>5, <2>0, <2>5
    <3> QED BY <1>1, <3>1 DEF Ordered
  <2> QED BY <1>1, <2>0, <2>1, <2>2, <2>3, <2>4, <2>5
<1>6. ASSUME NEW x \in Range(after)
      PROVE  x \in {lv \in Range(levels) : lv.price # lw.price} \cup {lw}
  <2>1. PICK j \in 1..(Len(levels) + 1) : x = after[j]
    BY <1>3 DEF Range
  <2>2. CASE j < i
    <3>1. j \in 1..Len(levels) /\ x = levels[j]
      BY <1>1, <1>2, <2>1, <2>2
    <3> QED BY <1>1, <1>4, <3>1 DEF Range
  <2>3. CASE j = i
    BY <1>2, <2>1, <2>3
  <2>4. CASE i < j
    <3>1. j - 1 \in 1..Len(levels) /\ x = levels[j - 1]
      BY <1>1, <1>2, <2>1, <2>4
    <3> QED BY <1>1, <1>4, <3>1 DEF Range
  <2> QED BY <1>1, <2>1, <2>2, <2>3, <2>4
<1>7. ASSUME NEW x \in Range(levels) PROVE x \in Range(after)
  <2>1. PICK j \in 1..Len(levels) : x = levels[j]
    BY <1>1 DEF Range
  <2>2. PICK k : k = IF j < i THEN j ELSE j + 1
    OBVIOUS
  <2>3. k \in 1..(Len(levels) + 1) /\ after[k] = levels[j]
    BY <1>1, <1>2, <2>2
  <2> QED BY <1>3, <2>1, <2>3 DEF Range
<1>8. lw \in Range(after)
  <2>1. after[i] = lw
    BY <1>1, <1>2
  <2> QED BY <1>1, <1>3, <2>1 DEF Range
<1>9. Ordered(s, after)
  BY <1>5 DEF Ordered
<1> QED BY <1>2, <1>6, <1>7, <1>8, <1>9 DEF Replaces

(***************************************************************************)
(* Ordered levels of which one was replaced are exact again if the new one  *)
(* follows the change of the order.                                         *)
(***************************************************************************)
LEMMA SideFollows ==
    ASSUME NEW os, NEW new, NEW s, NEW id, NEW p, NEW levels, NEW after, NEW news,
           AgreeBut(os, new, s, id), ChangedOrder(os, new, s, id, p),
           ExactSide(os, s, levels), Replaces(s, levels, p, after, news),
           \A lw \in news : lw.price = p /\ ExactLevel(new, s, lw),
           news = {} => Belongs(new, s, p) = {}
    PROVE  ExactSide(new, s, after)
<1>1. Range(after) = {lv \in Range(levels) : lv.price # p} \cup news /\ Ordered(s, after)
  BY DEF Replaces
<1>2. ASSUME NEW lw \in Range(after)
      PROVE  \/ lw \in Range(levels) /\ lw.price # p
             \/ lw.price = p /\ ExactLevel(new, s, lw)
  BY <1>1
<1>3. \A lv \in Range(levels) : lv.price # p => lv \in Range(after)
  BY <1>1
<1>4. ASSUME ~(\E lw \in Range(after) : lw.price = p) PROVE Belongs(new, s, p) = {}
  BY <1>1, <1>4
<1>5. ASSUME new[id].size > 0 PROVE \E lw \in Range(after) : lw.price = p
  <2>1. id \in Belongs(new, s, p)
    BY <1>5 DEF Belongs, ChangedOrder
  <2> QED BY <1>4, <2>1
<1> QED BY <1>1, <1>2, <1>3, <1>4, <1>5, SideChanged

(***************************************************************************)
(* The first level that is not better than p: all before it are better.     *)
(***************************************************************************)
LEMMA FirstNotBetter ==
    ASSUME NEW s, book[s] \in Seq(LevelRec), NEW p, NEW i, i = NotBetterThan(s, p)
    PROVE  /\ i \in 0..Len(book[s]) /\ Len(book[s]) \in Nat
           /\ i = 0 => \A j \in 1..Len(book[s]) : Better(s, book[s][j].price, p)
           /\ i # 0 => /\ ~Better(s, book[s][i].price, p)
                       /\ \A j \in 1..Len(book[s]) : j < i => Better(s, book[s][j].price, p)
<1> DEFINE I == {k \in 1..Len(book[s]) : ~Better(s, book[s][k].price, p)}
<1>1. I # {} => Min(I) \in I /\ \A y \in I : Min(I) <= y
  <2> I \in SUBSET Nat
    OBVIOUS
  <2> HIDE DEF I
  <2> QED BY MinNat
<1>2. i = IF I # {} THEN Min(I) ELSE 0
  BY DEF NotBetterThan, SelectInSeq
<1>3. CASE I = {}
  BY <1>2, <1>3, LenProperties
<1>4. CASE I # {}
  <2>1. i \in I /\ \A y \in I : i <= y
    BY <1>1, <1>2, <1>4
  <2>2. i \in 1..Len(book[s]) /\ ~Better(s, book[s][i].price, p)
    BY <2>1
  <2>3. \A j \in 1..Len(book[s]) : j < i => j \notin I
    BY <2>1, <2>2
  <2> QED BY <2>2, <2>3
<1> QED BY <1>3, <1>4

\* The levels of a side between two auctions.
Tended(os, s, levels) ==
    /\ ExactSide(os, s, levels)
    /\ \A lv \in Range(levels) : Aged(os, lv.ids) /\ lv.ids # <<>>

\* Order id of price p is new, or its size changed.
Changes(os, new, s, id, p) ==
    /\ AgreeBut(os, new, s, id) /\ ChangedOrder(os, new, s, id, p)
    /\ \A j \in DOMAIN os : j \in DOMAIN new /\ new[j].counter = os[j].counter

(***************************************************************************)
(* Levels of which one was replaced are tended if the new one is.           *)
(***************************************************************************)
LEMMA TendedFollows ==
    ASSUME NEW os, NEW new, NEW s, NEW id, NEW p, NEW levels, NEW after, NEW news,
           Changes(os, new, s, id, p), Tended(os, s, levels),
           Replaces(s, levels, p, after, news),
           \A lw \in news : lw.price = p /\ ExactLevel(new, s, lw) /\ Aged(new, lw.ids) /\ lw.ids # <<>>,
           news = {} => Belongs(new, s, p) = {}
    PROVE  Tended(new, s, after)
<1>1. ExactSide(new, s, after)
  BY SideFollows DEF Changes, Tended
<1>2. ASSUME NEW lv \in Range(after) PROVE Aged(new, lv.ids) /\ lv.ids # <<>>
  <2>1. CASE lv \in news
    BY <2>1
  <2>2. CASE lv \in Range(levels)
    <3>1. Aged(os, lv.ids) /\ lv.ids # <<>> /\ ExactLevel(os, s, lv)
      BY <2>2 DEF Tended, ExactSide
    <3>2. \A i \in DOMAIN lv.ids : lv.ids[i] \in DOMAIN os
      BY <3>1 DEF ExactLevel, Belongs, Range
    <3>3. \A i \in DOMAIN lv.ids : new[lv.ids[i]].counter = os[lv.ids[i]].counter
      BY <3>2 DEF Changes
    <3> QED BY <3>1, <3>3 DEF Aged
  <2> QED BY <2>1, <2>2 DEF Replaces
<1> QED BY <1>1, <1>2 DEF Tended

(***************************************************************************)
(* An order that is appended to a level and sorted into it.                 *)
(***************************************************************************)
LEMMA Queued ==
    ASSUME NEW new \in Seq(OrderRec), NEW id \in DOMAIN new, NEW ids \in Seq(DOMAIN new),
           IsInjective(ids), id \notin Range(ids),
           NEW after, after = SortPriceLevel(new, Append(ids, id))
    PROVE  /\ after \in Seq(Nat) /\ after # <<>> /\ IsInjective(after)
           /\ Range(after) = Range(ids) \cup {id} /\ Aged(new, after)
<1>1. PICK more : more = Append(ids, id)
  OBVIOUS
<1>2. /\ more \in Seq(DOMAIN new) /\ Len(more) = Len(ids) + 1 /\ Len(ids) \in Nat
      /\ \A i \in 1..Len(ids) : more[i] = ids[i]
      /\ more[Len(ids) + 1] = id
  BY <1>1, AppendProperties, LenProperties
<1>3. DOMAIN more = 1..(Len(ids) + 1) /\ DOMAIN ids = 1..Len(ids)
  BY <1>2, LenProperties
<1>4. Range(more) = Range(ids) \cup {id}
  <2>1. ASSUME NEW x \in Range(more) PROVE x \in Range(ids) \cup {id}
    <3>1. PICK k \in 1..(Len(ids) + 1) : x = more[k]
      BY <1>3 DEF Range
    <3>2. k \in 1..Len(ids) \/ k = Len(ids) + 1
      BY <1>2
    <3> QED BY <1>2, <1>3, <3>1, <3>2 DEF Range
  <2>2. ASSUME NEW x \in Range(ids) PROVE x \in Range(more)
    <3>1. PICK k \in 1..Len(ids) : x = ids[k]
      BY <1>3 DEF Range
    <3>2. k \in 1..(Len(ids) + 1) /\ more[k] = x
      BY <1>2, <3>1
    <3> QED BY <1>3, <3>2 DEF Range
  <2>3. id \in Range(more)
    <3>1. Len(ids) + 1 \in 1..(Len(ids) + 1)
      BY <1>2
    <3> QED BY <1>2, <1>3, <3>1 DEF Range
  <2> QED BY <2>1, <2>2, <2>3
<1>5. IsInjective(more)
  <2> SUFFICES ASSUME NEW i \in 1..(Len(ids) + 1), NEW j \in 1..(Len(ids) + 1), more[i] = more[j]
               PROVE  i = j
    BY <1>3 DEF IsInjective
  <2>1. \A k \in 1..Len(ids) : ids[k] # id
    BY <1>3 DEF Range
  <2>2. (i \in 1..Len(ids) \/ i = Len(ids) + 1) /\ (j \in 1..Len(ids) \/ j = Len(ids) + 1)
    BY <1>2
  <2>3. i \in 1..Len(ids) /\ j \in 1..Len(ids) => i = j
    BY <1>2, <1>3 DEF IsInjective
  <2> QED BY <1>2, <2>1, <2>2, <2>3
<1>6. \A i \in DOMAIN more : new[more[i]].counter \in Nat /\ new[more[i]].size \in Nat
  <2>1. \A i \in DOMAIN more : more[i] \in DOMAIN new
    BY <1>2, <1>3, ElementOfSeq
  <2>2. \A j \in DOMAIN new : new[j] \in OrderRec
    BY LenProperties, ElementOfSeq
  <2> QED BY <2>1, <2>2 DEF OrderRec
<1>7. /\ after \in Seq(DOMAIN new) /\ Len(after) = Len(more)
      /\ Range(after) = Range(more) /\ IsInjective(after) /\ Aged(new, after)
  <2>1. PICK D : D = DOMAIN new
    OBVIOUS
  <2>2. more \in Seq(D) /\ after = SortPriceLevel(new, more)
    BY <1>1, <1>2, <2>1
  <2>3. /\ after \in Seq(D) /\ Len(after) = Len(more) /\ Range(after) = Range(more)
        /\ IsInjective(more) => IsInjective(after)
        /\ Aged(new, after)
    BY <1>6, <2>2, SortedLevel
  <2> QED BY <1>5, <2>1, <2>3
<1>8. after \in Seq(Nat)
  <2>1. DOMAIN new \subseteq Nat
    BY LenProperties
  <2> QED BY <1>7, <2>1
<1>9. after # <<>>
  BY <1>2, <1>7
<1> QED BY <1>4, <1>7, <1>8, <1>9

(***************************************************************************)
(* The side that gets an order is tended again.                             *)
(***************************************************************************)
LEMMA InsertedTended ==
    ASSUME NEW os \in Seq(OrderRec), NEW new \in Seq(OrderRec), NEW s, NEW id \in DOMAIN new,
           id \notin DOMAIN os, Changes(os, new, s, id, new[id].price), new[id].size > 0,
           book[s] \in Seq(LevelRec), Tended(os, s, book[s]),
           NEW after, after = Inserted(s, new, id)
    PROVE  after \in Seq(LevelRec) /\ Tended(new, s, after)
<1>p. PICK p : p = new[id].price
  OBVIOUS
<1>q. PICK q : q = new[id].size
  OBVIOUS
<1>b. PICK levels : levels = book[s]
  OBVIOUS
<1>i. PICK i : i = NotBetterThan(s, p)
  OBVIOUS
<1>0. levels \in Seq(LevelRec) /\ Tended(os, s, levels) /\ Ordered(s, levels)
  BY <1>b DEF Tended, ExactSide
<1>1. new[id] \in OrderRec /\ id \in Nat /\ p \in Nat /\ q \in Nat /\ q > 0
  <2>1. new[id] \in OrderRec /\ id \in Nat
    BY LenProperties, ElementOfSeq
  <2> QED BY <2>1, <1>p, <1>q DEF OrderRec
<1>2. /\ i \in 0..Len(levels) /\ Len(levels) \in Nat
      /\ i = 0 => \A j \in 1..Len(levels) : Better(s, levels[j].price, p)
      /\ i # 0 => /\ ~Better(s, levels[i].price, p)
                  /\ \A j \in 1..Len(levels) : j < i => Better(s, levels[j].price, p)
  BY <1>b, <1>i, FirstNotBetter
<1>3. DOMAIN levels = 1..Len(levels) /\ \A j \in 1..Len(levels) : levels[j] \in LevelRec /\ levels[j].price \in Nat
  <2>1. DOMAIN levels = 1..Len(levels) /\ \A j \in 1..Len(levels) : levels[j] \in LevelRec
    BY <1>0, LenProperties, ElementOfSeq
  <2> QED BY <2>1 DEF LevelRec
<1>4. PICK mine : mine = [price |-> p, size |-> q, ids |-> <<id>>]
  OBVIOUS
<1>5. PICK more : more = [price |-> p, size |-> levels[i].size + q,
                          ids |-> SortPriceLevel(new, Append(levels[i].ids, id))]
  OBVIOUS
<1>6. after = IF i = 0 THEN Append(levels, mine)
              ELSE IF levels[i].price = p THEN ReplaceAt(levels, i, more)
              ELSE InsertAt(levels, i, mine)
  BY <1>p, <1>q, <1>b, <1>i, <1>4, <1>5 DEF Inserted, LevelWith
<1>7. /\ AgreeBut(os, new, s, id) /\ ChangedOrder(os, new, s, id, p)
      /\ Changes(os, new, s, id, p)
  BY <1>p DEF Changes
<1>8. CASE i # 0 /\ levels[i].price = p
  <2>1. i \in DOMAIN levels /\ levels[i] \in LevelRec
    BY <1>2, <1>3, <1>8
  <2>2. levels[i].size \in Nat /\ levels[i].ids \in Seq(Nat)
    BY <2>1 DEF LevelRec
  <2>3. ExactLevel(os, s, levels[i])
    BY <1>0, <2>1 DEF Tended, ExactSide, Range
  <2>4. /\ IsInjective(levels[i].ids) /\ \A x \in Range(levels[i].ids) : x \in DOMAIN os
    BY <2>3 DEF ExactLevel, Belongs
  <2>5. PICK ids : ids = levels[i].ids
    OBVIOUS
  <2>6. ids \in Seq(DOMAIN new) /\ IsInjective(ids) /\ id \notin Range(ids)
    <3>1. \A k \in 1..Len(ids) : ids[k] \in DOMAIN new
      <4>1. DOMAIN ids = 1..Len(ids)
        BY <2>2, <2>5, LenProperties
      <4> QED BY <4>1, <2>4, <2>5 DEF Changes, Range
    <3>n. PICK n : n = Len(ids)
      OBVIOUS
    <3>2. ids \in [1..n -> DOMAIN new] /\ n \in Nat
      BY <2>2, <2>5, <3>1, <3>n, LenProperties
    <3>3. ids \in Seq(DOMAIN new)
      BY <3>2
    <3>4. IsInjective(ids) /\ \A x \in Range(ids) : x \in DOMAIN os
      BY <2>4, <2>5
    <3> QED BY <3>3, <3>4
  <2>7. /\ more.ids \in Seq(Nat) /\ more.ids # <<>> /\ IsInjective(more.ids)
        /\ Range(more.ids) = Range(ids) \cup {id} /\ Aged(new, more.ids)
    <3>1. PICK m : m = SortPriceLevel(new, Append(ids, id))
      OBVIOUS
    <3>2. more.ids = m
      BY <1>5, <2>5, <3>1
    <3> QED BY <2>6, <3>1, <3>2, Queued
  <2>8. more \in LevelRec
    <3>1. more.size \in Nat /\ more.price \in Nat
      BY <1>1, <1>5, <2>2
    <3> QED BY <1>5, <2>7, <3>1 DEF LevelRec
  <2>9. Follows(os, new, levels[i], more, id)
    <3>1. id \notin Range(ids)
      BY <2>6
    <3>2. Range(more.ids) = (Range(ids) \ {id}) \cup (IF new[id].size > 0 THEN {id} ELSE {})
      BY <2>7, <3>1
    <3>3. more.size = levels[i].size - 0 + new[id].size
      BY <1>1, <1>5, <1>q, <2>2
    <3>4. more.price = levels[i].price
      BY <1>5, <1>8
    <3> QED BY <2>5, <2>7, <3>2, <3>3, <3>4 DEF Follows
  <2>10. ExactLevel(new, s, more)
    <3>1. ChangedOrder(os, new, s, id, levels[i].price)
      BY <1>7, <1>8
    <3> QED BY <1>7, <2>3, <2>9, <3>1, ExactHere
  <2>11. more.price = p /\ p = levels[i].price
    BY <1>5, <1>8
  <2>12. Replaces(s, levels, p, after, {more})
    <3>1. Replaces(s, levels, more.price, ReplaceAt(levels, i, more), {more})
      BY <1>0, <2>1, <2>8, <2>11, LevelReplaced
    <3> QED BY <1>6, <1>8, <2>11, <3>1
  <2>13. \A lw \in {more} : lw.price = p /\ ExactLevel(new, s, lw) /\ Aged(new, lw.ids) /\ lw.ids # <<>>
    BY <2>7, <2>10, <2>11
  <2>14. after \in Seq(LevelRec)
    BY <2>12 DEF Replaces
  <2>15. Tended(new, s, after)
    <3>1. PICK news : news = {more}
      OBVIOUS
    <3>2. news # {} /\ Replaces(s, levels, p, after, news)
      BY <2>12, <3>1
    <3>3. \A lw \in news : lw.price = p /\ ExactLevel(new, s, lw) /\ Aged(new, lw.ids) /\ lw.ids # <<>>
      BY <2>13, <3>1
    <3> QED BY <1>0, <1>7, <3>2, <3>3, TendedFollows
  <2> QED BY <2>14, <2>15
<1>9. CASE i = 0 \/ levels[i].price # p
  <2>1. mine \in LevelRec /\ mine.price = p /\ mine.ids = <<id>> /\ mine.size = q
    <3>1. <<id>> \in Seq(Nat)
      BY <1>1
    <3> QED BY <1>1, <1>4, <3>1 DEF LevelRec
  <2>2. PICK k : k = IF i = 0 THEN Len(levels) + 1 ELSE i
    OBVIOUS
  <2>3. \A j \in 1..Len(levels) : IF j < k THEN Better(s, levels[j].price, p) ELSE Better(s, p, levels[j].price)
    <3>1. CASE i = 0
      BY <1>2, <2>2, <3>1
    <3>2. CASE i # 0
      <4>0. i \in 1..Len(levels) /\ ~Better(s, levels[i].price, p) /\ levels[i].price # p
        BY <1>2, <1>9, <3>2
      <4>1. i \in 1..Len(levels) /\ Better(s, p, levels[i].price)
        <5>1. levels[i].price \in Nat /\ p \in Nat
          BY <1>1, <1>3, <4>0
        <5> QED BY <4>0, <5>1, BetterOrder
      <4>2. ASSUME NEW j \in 1..Len(levels), i < j PROVE Better(s, p, levels[j].price)
        <5>1. Better(s, levels[i].price, levels[j].price)
          BY <1>0, <1>3, <4>1, <4>2 DEF Ordered
        <5> QED BY ZenonT(60), <1>1, <1>3, <4>1, <5>1, BetterOrder
      <4>3. \A j \in 1..Len(levels) : j < i \/ j = i \/ i < j
        BY <4>1
      <4> QED BY <1>2, <2>2, <3>2, <4>1, <4>2, <4>3
    <3> QED BY <3>1, <3>2
  <2>4. k \in 1..(Len(levels) + 1)
    BY <1>2, <2>2
  <2>5. InPlace(s, levels, mine, k)
    BY <2>1, <2>3, <2>4 DEF InPlace
  <2>6. WithLevel(levels, mine, k, after)
    <3>1. CASE i = 0
      <4>1. after = Append(levels, mine)
        BY <1>6, <3>1
      <4>2. /\ after \in Seq(LevelRec) /\ Len(after) = Len(levels) + 1
            /\ \A j \in 1..Len(levels) : after[j] = levels[j]
            /\ after[Len(levels) + 1] = mine
        BY <1>0, <2>1, <4>1, AppendProperties
      <4>3. \A j \in 1..(Len(levels) + 1) :
               after[j] = IF j < k THEN levels[j] ELSE IF j = k THEN mine ELSE levels[j - 1]
        BY <1>2, <2>2, <3>1, <4>2
      <4> QED BY <4>2, <4>3 DEF WithLevel
    <3>2. CASE i # 0
      <4>1. after = InsertAt(levels, i, mine) /\ i \in 1..Len(levels) /\ k = i
        BY <1>2, <1>6, <1>9, <2>2, <3>2
      <4> QED BY <1>0, <2>1, <4>1, InsertAtProperties DEF WithLevel
    <3> QED BY <3>1, <3>2
  <2>7. Replaces(s, levels, p, after, {mine})
    <3>1. Replaces(s, levels, mine.price, after, {mine})
      BY <1>0, <2>1, <2>5, <2>6, LevelInserted
    <3> QED BY <2>1, <3>1
  <2>8. Belongs(os, s, p) = {}
    <3>1. \A j \in 1..Len(levels) : levels[j].price # p
      <4>1. ~Better(s, p, p)
        BY <1>1, BetterOrder
      <4> QED BY <2>3, <4>1
    <3>2. \A lv \in Range(levels) : lv.price # p
      BY <1>3, <3>1 DEF Range
    <3> QED BY <1>0, <3>2 DEF Belongs, Tended, ExactSide, Covered
  <2>9. PICK none : none = [price |-> p, size |-> 0, ids |-> <<>>]
    OBVIOUS
  <2>10. ExactLevel(os, s, none)
    <3>1. none.price = p /\ none.size = 0 /\ none.ids = <<>>
      BY <2>9
    <3>2. IsInjective(<<>>) /\ Range(<<>>) = {}
      BY DEF IsInjective, Range
    <3>3. SumFunction(Sizes(os, {})) = 0
      <4>1. Sizes(os, {}) \in [{} -> Int] /\ IsFiniteSet({})
        BY FS_EmptySet DEF Sizes
      <4> QED BY <4>1, SumZero
    <3> QED BY <2>8, <3>1, <3>2, <3>3 DEF ExactLevel
  <2>11. Follows(os, new, none, mine, id)
    <3>1. Range(mine.ids) = {id} /\ IsInjective(mine.ids)
      BY <2>1 DEF Range, IsInjective
    <3>2. Range(none.ids) = {}
      BY <2>9 DEF Range
    <3>3. mine.price = none.price /\ mine.size = none.size - 0 + new[id].size
      BY <1>1, <1>q, <2>1, <2>9
    <3> QED BY <3>1, <3>2, <3>3 DEF Follows
  <2>12. ExactLevel(new, s, mine)
    <3>1. none.price = p
      BY <2>9
    <3>2. ChangedOrder(os, new, s, id, none.price)
      BY <1>7, <3>1
    <3> QED BY <1>7, <2>10, <2>11, <3>2, ExactHere
  <2>13. Aged(new, mine.ids) /\ mine.ids # <<>>
    <3>1. \A a, b \in DOMAIN <<id>> : ~(a < b)
      OBVIOUS
    <3> QED BY <2>1, <3>1 DEF Aged
  <2>14. after \in Seq(LevelRec)
    BY <2>7 DEF Replaces
  <2>15. Tended(new, s, after)
    <3>1. PICK news : news = {mine}
      OBVIOUS
    <3>2. news # {} /\ Replaces(s, levels, p, after, news)
      BY <2>7, <3>1
    <3>3. \A lw \in news : lw.price = p /\ ExactLevel(new, s, lw) /\ Aged(new, lw.ids) /\ lw.ids # <<>>
      BY <2>1, <2>12, <2>13, <3>1
    <3> QED BY <1>0, <1>7, <3>2, <3>3, TendedFollows
  <2> QED BY <2>14, <2>15
<1> QED BY <1>8, <1>9

(***************************************************************************)
(* The orders of a level are those of its side and price that have shares   *)
(* left, and none of them is larger than the level.                         *)
(***************************************************************************)
LEMMA ExactSize ==
    ASSUME NEW os \in Seq(OrderRec), NEW s, NEW lv, ExactLevel(os, s, lv)
    PROVE  /\ lv.size \in Nat
           /\ \A id \in Range(lv.ids) : /\ id \in DOMAIN os /\ os[id].size > 0
                                        /\ os[id].side = s /\ os[id].price = lv.price
                                        /\ os[id].size <= lv.size
<1>1. PICK D : D = Belongs(os, s, lv.price)
  OBVIOUS
<1>2. Range(lv.ids) = D /\ lv.size = SumFunction(Sizes(os, D))
  BY <1>1 DEF ExactLevel
<1>3. \A id \in D : id \in DOMAIN os /\ os[id].size > 0 /\ os[id].side = s /\ os[id].price = lv.price
  BY <1>1 DEF Belongs
<1>4. IsFiniteSet(D)
  <2>1. DOMAIN os = 1..Len(os) /\ Len(os) \in Nat
    BY LenProperties
  <2>2. PICK U : U = 1..Len(os)
    OBVIOUS
  <2>3. IsFiniteSet(U) /\ D \in SUBSET U
    BY <1>3, <2>1, <2>2, FS_Interval
  <2> QED BY <2>3, FS_Subset
<1>5. PICK f : f = Sizes(os, D)
  OBVIOUS
<1>6. f \in [D -> Int] /\ \A id \in D : f[id] = os[id].size /\ f[id] >= 0
  <2>1. \A id \in DOMAIN os : os[id] \in OrderRec
    BY LenProperties, ElementOfSeq
  <2>2. \A id \in D : os[id].size \in Nat
    BY <1>3, <2>1 DEF OrderRec
  <2> QED BY <1>5, <2>2 DEF Sizes
<1>7. SumFunction(f) \in Nat /\ \A id \in D : f[id] <= SumFunction(f)
  BY <1>4, <1>6, SumNat
<1> QED BY <1>2, <1>3, <1>5, <1>6, <1>7

(***************************************************************************)
(* A level without one of its orders.                                       *)
(***************************************************************************)
IsWithout(os, ids, i, left) ==
    /\ left \in Seq(Nat) /\ Len(left) = Len(ids) - 1
    /\ \A j \in DOMAIN left : left[j] = IF j < i THEN ids[j] ELSE ids[j + 1]
    /\ Aged(os, ids) => Aged(os, left)
    /\ IsInjective(ids) => IsInjective(left) /\ Range(left) = Range(ids) \ {ids[i]}

\* Removing the i-th order of a level leaves the others, in their order.
LEMMA Without ==
    ASSUME NEW ids \in Seq(Nat), NEW i \in DOMAIN ids, NEW os
    PROVE  IsWithout(os, ids, i, RemoveAt(ids, i))
<1> SUFFICES ASSUME NEW left, left = RemoveAt(ids, i) PROVE IsWithout(os, ids, i, left)
  OBVIOUS
<1>1. DOMAIN ids = 1..Len(ids) /\ Len(ids) \in Nat
  BY LenProperties
<1>2. /\ left \in Seq(Nat) /\ Len(left) = Len(ids) - 1
      /\ \A j \in 1..Len(ids) - 1 : left[j] = IF j < i THEN ids[j] ELSE ids[j + 1]
  <2>1. PICK S : S = Nat
    OBVIOUS
  <2>2. ids \in Seq(S) /\ i \in 1..Len(ids)
    BY <1>1, <2>1
  <2>3. /\ left \in Seq(S) /\ Len(left) = Len(ids) - 1
        /\ \A j \in 1..Len(ids) - 1 : left[j] = IF j < i THEN ids[j] ELSE ids[j + 1]
    <3>1. /\ RemoveAt(ids, i) \in Seq(S) /\ Len(RemoveAt(ids, i)) = Len(ids) - 1
          /\ \A j \in 1..Len(ids) - 1 : RemoveAt(ids, i)[j] = IF j < i THEN ids[j] ELSE ids[j + 1]
      BY <2>2, RemoveAtProperties
    <3> QED BY <3>1
  <2> QED BY <2>1, <2>3
<1>3. DOMAIN left = 1..(Len(ids) - 1)
  BY <1>1, <1>2, LenProperties
<1>4. PICK from : from = [j \in 1..(Len(ids) - 1) |-> IF j < i THEN j ELSE j + 1]
  OBVIOUS
<1>5. /\ \A j \in DOMAIN left : from[j] \in DOMAIN ids /\ left[j] = ids[from[j]] /\ from[j] # i
      /\ \A a, b \in DOMAIN left : a < b => from[a] < from[b]
      /\ \A a, b \in DOMAIN left : from[a] = from[b] => a = b
  <2>1. \A j \in DOMAIN left : from[j] = IF j < i THEN j ELSE j + 1
    BY <1>3, <1>4
  <2>2. i \in 1..Len(ids) /\ \A j \in DOMAIN left : j \in 1..(Len(ids) - 1)
    BY <1>1, <1>3
  <2>3. \A j \in DOMAIN left : from[j] \in 1..Len(ids) /\ from[j] # i
    BY <1>1, <2>1, <2>2
  <2>4. \A j \in DOMAIN left : left[j] = ids[from[j]]
    BY <1>2, <2>1, <2>2
  <2>5. \A a, b \in DOMAIN left : a < b => from[a] < from[b]
    BY SMTT(60), <1>1, <2>1, <2>2
  <2>6. \A a, b \in DOMAIN left : from[a] = from[b] => a = b
    BY SMTT(60), <1>1, <2>1, <2>2
  <2> QED BY <1>1, <2>3, <2>4, <2>5, <2>6
<1>6. ASSUME Aged(os, ids) PROVE Aged(os, left)
  <2> SUFFICES ASSUME NEW a \in DOMAIN left, NEW b \in DOMAIN left, a < b
               PROVE  os[left[a]].counter >= os[left[b]].counter
    BY DEF Aged
  <2>1. from[a] \in DOMAIN ids /\ from[b] \in DOMAIN ids /\ from[a] < from[b]
        /\ left[a] = ids[from[a]] /\ left[b] = ids[from[b]]
    BY <1>5
  <2> QED BY <1>6, <2>1 DEF Aged
<1>7. ASSUME IsInjective(ids) PROVE IsInjective(left) /\ Range(left) = Range(ids) \ {ids[i]}
  <2>1. IsInjective(left)
    <3> SUFFICES ASSUME NEW a \in DOMAIN left, NEW b \in DOMAIN left, left[a] = left[b] PROVE a = b
      BY DEF IsInjective
    <3>1. from[a] = from[b]
      BY <1>5, <1>7 DEF IsInjective
    <3> QED BY <1>5, <3>1
  <2>2. ASSUME NEW x \in Range(left) PROVE x \in Range(ids) /\ x # ids[i]
    <3>1. PICK j \in DOMAIN left : x = left[j]
      BY DEF Range
    <3>2. from[j] \in DOMAIN ids /\ x = ids[from[j]] /\ from[j] # i
      BY <1>5, <3>1
    <3> QED BY <1>7, <3>2 DEF IsInjective, Range
  <2>3. ASSUME NEW x \in Range(ids), x # ids[i] PROVE x \in Range(left)
    <3>1. PICK j \in DOMAIN ids : x = ids[j]
      BY DEF Range
    <3>2. PICK k : k = IF j < i THEN j ELSE j - 1
      OBVIOUS
    <3>3. j # i
      BY <2>3, <3>1
    <3>4. k \in 1..(Len(ids) - 1) /\ (IF k < i THEN ids[k] ELSE ids[k + 1]) = x
      <4>1. j \in 1..Len(ids) /\ i \in 1..Len(ids)
        BY <1>1, <3>1
      <4>2. CASE j < i
        BY <1>1, <3>1, <3>2, <4>1, <4>2
      <4>3. CASE i < j
        <5>1. k = j - 1 /\ k \in 1..(Len(ids) - 1) /\ ~(k < i) /\ k + 1 = j
          BY <1>1, <3>2, <4>1, <4>3
        <5> QED BY <3>1, <5>1
      <4> QED BY <1>1, <3>3, <4>1, <4>2, <4>3
    <3>5. left[k] = x
      BY <1>2, <3>4
    <3> QED BY <1>3, <3>4, <3>5 DEF Range
  <2> QED BY <2>1, <2>2, <2>3
<1> QED BY <1>2, <1>3, <1>6, <1>7 DEF IsWithout

\* Order id, the i-th of the l-th level, has fewer shares or none; lw is what is left of the level.
CancelledIn(os, new, id, levels, l, i, left, lw, after) ==
    /\ i \in DOMAIN levels[l].ids /\ levels[l].ids[i] = id /\ new[id].size <= os[id].size
    /\ left = IF new[id].size = 0 THEN RemoveAt(levels[l].ids, i) ELSE levels[l].ids
    /\ lw = [price |-> levels[l].price, size |-> levels[l].size - (os[id].size - new[id].size),
             ids |-> SortPriceLevel(new, left)]
    /\ after = IF left = <<>> THEN RemoveAt(levels, l) ELSE ReplaceAt(levels, l, lw)

(***************************************************************************)
(* The side of an order that is cancelled, in part or as a whole, is        *)
(* tended again.                                                            *)
(***************************************************************************)
LEMMA CancelledTended ==
    ASSUME NEW os \in Seq(OrderRec), NEW new \in Seq(OrderRec), NEW s, NEW id \in DOMAIN os,
           NEW levels \in Seq(LevelRec), Tended(os, s, levels), NEW l \in DOMAIN levels,
           Changes(os, new, s, id, levels[l].price),
           NEW i, NEW left, NEW lw, NEW after, CancelledIn(os, new, id, levels, l, i, left, lw, after)
    PROVE  after \in Seq(LevelRec) /\ Tended(new, s, after)
<1>c. /\ i \in DOMAIN levels[l].ids /\ levels[l].ids[i] = id /\ new[id].size <= os[id].size
      /\ left = IF new[id].size = 0 THEN RemoveAt(levels[l].ids, i) ELSE levels[l].ids
      /\ lw = [price |-> levels[l].price, size |-> levels[l].size - (os[id].size - new[id].size),
               ids |-> SortPriceLevel(new, left)]
      /\ after = IF left = <<>> THEN RemoveAt(levels, l) ELSE ReplaceAt(levels, l, lw)
  BY DEF CancelledIn
<1> USE <1>c
<1>v. PICK lv : lv = levels[l]
  OBVIOUS
<1>p. PICK p : p = lv.price
  OBVIOUS
<1>0. /\ AgreeBut(os, new, s, id) /\ ChangedOrder(os, new, s, id, p) /\ Changes(os, new, s, id, p)
      /\ Ordered(s, levels) /\ ExactLevel(os, s, lv) /\ id \in DOMAIN new
  <2>1. lv \in Range(levels)
    BY <1>v DEF Range
  <2> QED BY <2>1, <1>v, <1>p DEF Changes, ChangedOrder, Tended, ExactSide
<1>1. lv \in LevelRec /\ lv.price \in Nat /\ lv.size \in Nat /\ lv.ids \in Seq(Nat)
  <2>1. lv \in LevelRec
    BY <1>v, LenProperties, ElementOfSeq
  <2> QED BY <2>1 DEF LevelRec
<1>2. /\ \A j \in DOMAIN os : os[j].size \in Nat
      /\ \A j \in DOMAIN new : new[j].size \in Nat /\ new[j].counter \in Nat
  <2>1. (\A j \in DOMAIN os : os[j] \in OrderRec) /\ \A j \in DOMAIN new : new[j] \in OrderRec
    BY LenProperties, ElementOfSeq
  <2> QED BY <2>1 DEF OrderRec
<1>3. /\ left \in Seq(Nat) /\ IsInjective(left)
      /\ Range(left) = (Range(lv.ids) \ {id}) \cup (IF new[id].size > 0 THEN {id} ELSE {})
  <2>1. IsInjective(lv.ids) /\ i \in DOMAIN lv.ids /\ lv.ids[i] = id /\ id \in Range(lv.ids)
    BY <1>0, <1>v DEF ExactLevel, Range
  <2>2. CASE new[id].size = 0
    <3>1. left = RemoveAt(lv.ids, i)
      BY <1>v, <2>2
    <3>2. left \in Seq(Nat) /\ IsInjective(left) /\ Range(left) = Range(lv.ids) \ {lv.ids[i]}
      <4>1. PICK ids : ids = lv.ids
        OBVIOUS
      <4>2. ids \in Seq(Nat) /\ i \in DOMAIN ids /\ left = RemoveAt(ids, i)
        BY <1>1, <2>1, <3>1, <4>1
      <4>3. IsWithout(os, ids, i, left)
        BY <4>2, Without
      <4>4. left \in Seq(Nat) /\ (IsInjective(ids) => IsInjective(left) /\ Range(left) = Range(ids) \ {ids[i]})
        BY <4>3 DEF IsWithout
      <4> QED BY <2>1, <4>1, <4>4
    <3>3. ~(new[id].size > 0)
      BY <2>2
    <3> QED BY <2>1, <3>2, <3>3
  <2>3. CASE new[id].size # 0
    <3>0. left = lv.ids
      BY <1>v, <2>3
    <3>1. left = lv.ids /\ new[id].size > 0
      <4>1. new[id].size \in Nat
        BY <1>0, <1>2
      <4> QED BY <2>3, <3>0, <4>1
    <3> QED BY <1>1, <2>1, <3>1
  <2> QED BY <2>2, <2>3
<1>4. \A x \in Range(left) : x \in DOMAIN new
  <2>1. \A x \in Range(lv.ids) : x \in DOMAIN new
    BY <1>0 DEF ExactLevel, Belongs, Changes
  <2> QED BY <1>0, <1>3, <2>1
<1>5. PICK sorted : sorted = SortPriceLevel(new, left)
  OBVIOUS
<1>6. sorted \in Seq(Nat) /\ Len(sorted) = Len(left) /\ Range(sorted) = Range(left) /\ IsInjective(sorted)
      /\ Aged(new, sorted)
  <2>1. \A j \in DOMAIN left : new[left[j]].counter \in Nat /\ new[left[j]].size \in Nat
    BY <1>2, <1>4 DEF Range
  <2>2. PICK ids : ids = left
    OBVIOUS
  <2>3. /\ ids \in Seq(Nat) /\ sorted = SortPriceLevel(new, ids)
        /\ \A j \in DOMAIN ids : new[ids[j]].counter \in Nat /\ new[ids[j]].size \in Nat
    BY <1>3, <1>5, <2>1, <2>2
  <2>4. /\ sorted \in Seq(Nat) /\ Len(sorted) = Len(ids) /\ Range(sorted) = Range(ids)
        /\ IsInjective(ids) => IsInjective(sorted)
        /\ Aged(new, sorted)
    BY <2>3, SortedLevel
  <2> QED BY <1>3, <2>2, <2>4
<1>7. lw.price = p /\ lw.size = lv.size - (os[id].size - new[id].size) /\ lw.ids = sorted
  BY <1>v, <1>p, <1>5
<1>8. ExactLevel(new, s, lw)
  <2>1. lw.size = lv.size - os[id].size + new[id].size
    <3>1. os[id].size \in Nat /\ new[id].size \in Nat
      BY <1>0, <1>2
    <3> QED BY <1>1, <1>7, <3>1
  <2>2. Follows(os, new, lv, lw, id)
    <3>1. Range(lw.ids) = (Range(lv.ids) \ {id}) \cup (IF new[id].size > 0 THEN {id} ELSE {})
      BY <1>3, <1>6, <1>7
    <3>2. lw.price = lv.price /\ IsInjective(lw.ids)
      BY <1>6, <1>7, <1>p
    <3>3. lw.size = lv.size - (IF id \in DOMAIN os THEN os[id].size ELSE 0) + new[id].size
      BY <2>1
    <3> QED BY <3>1, <3>2, <3>3 DEF Follows
  <2> QED BY <1>0, <1>p, <2>2, ExactHere
<1>9. lw \in LevelRec
  <2>1. lw.size \in Nat
    BY <1>8, ExactSize
  <2>2. lw = [price |-> p, size |-> lw.size, ids |-> sorted]
    BY <1>v, <1>p, <1>5
  <2>3. p \in Nat
    BY <1>1, <1>p
  <2> QED BY <1>6, <2>1, <2>2, <2>3 DEF LevelRec
<1>10. CASE left = <<>>
  <2>1. Belongs(new, s, p) = {}
    <3>1. Range(lw.ids) = Belongs(new, s, p)
      BY <1>7, <1>8 DEF ExactLevel
    <3>2. Range(left) = {}
      BY <1>10 DEF Range
    <3> QED BY <1>6, <1>7, <3>1, <3>2
  <2>2. Replaces(s, levels, p, after, {})
    BY <1>0, <1>10, <1>p, <1>v, LevelRemoved
  <2>3. PICK news : news = {}
    OBVIOUS
  <2>4. Replaces(s, levels, p, after, news) /\ after \in Seq(LevelRec)
    BY <2>2, <2>3 DEF Replaces
  <2>5. Tended(new, s, after)
    <3>1. \A x \in news : x.price = p /\ ExactLevel(new, s, x) /\ Aged(new, x.ids) /\ x.ids # <<>>
      BY <2>3
    <3> QED BY <1>0, <2>1, <2>4, <3>1, TendedFollows
  <2> QED BY <2>4, <2>5
<1>11. CASE left # <<>>
  <2>1. after = ReplaceAt(levels, l, lw)
    BY <1>11
  <2>2. lw.price = levels[l].price
    BY <1>7, <1>p, <1>v
  <2>3. Replaces(s, levels, lw.price, after, {lw})
    BY ZenonT(60), <1>0, <1>9, <2>1, <2>2, LevelReplaced
  <2>4. PICK news : news = {lw}
    OBVIOUS
  <2>5. Replaces(s, levels, p, after, news) /\ after \in Seq(LevelRec) /\ news # {}
    BY <1>7, <2>3, <2>4 DEF Replaces
  <2>6. lw.ids # <<>>
    <3>1. Len(left) # 0
      BY <1>3, <1>11, EmptySeq
    <3> QED BY <1>6, <1>7, <3>1
  <2>7. Tended(new, s, after)
    <3>1. \A x \in news : x.price = p /\ ExactLevel(new, s, x) /\ Aged(new, x.ids) /\ x.ids # <<>>
      BY <1>6, <1>7, <1>8, <2>4, <2>6
    <3> QED BY <1>0, <2>5, <3>1, TendedFollows
  <2> QED BY <2>5, <2>7
<1> QED BY <1>10, <1>11

(***************************************************************************)
(* A sum does not become smaller when no part of it does.                   *)
(***************************************************************************)
LEMMA SumMonotone ==
    ASSUME NEW D, IsFiniteSet(D), NEW f \in [D -> Int], NEW g \in [D -> Int],
           \A x \in D : f[x] <= g[x]
    PROVE  SumFunction(f) <= SumFunction(g)
<1> DEFINE P == {s \in SUBSET D : SumFunctionOnSet(f, s) <= SumFunctionOnSet(g, s)}
<1>1. ASSUME NEW s \in SUBSET D, \A x \in s : s \ {x} \in P
      PROVE  SumFunctionOnSet(f, s) <= SumFunctionOnSet(g, s)
  <2>1. CASE s = {}
    BY <2>1, SumEmpty
  <2>2. CASE s # {}
    <3>c. PICK c \in s : TRUE
      BY <2>2
    <3>1. IsFiniteSet(s) /\ (\A x \in s : f[x] \in Int) /\ \A x \in s : g[x] \in Int
      BY FS_Subset
    <3>2. SumFunctionOnSet(f, s) = f[c] + SumFunctionOnSet(f, s \ {c})
      BY <3>1, SumRemove
    <3>3. SumFunctionOnSet(g, s) = g[c] + SumFunctionOnSet(g, s \ {c})
      BY <3>1, SumRemove
    <3>4. SumFunctionOnSet(f, s \ {c}) <= SumFunctionOnSet(g, s \ {c}) /\ f[c] <= g[c]
      BY <1>1
    <3>5. PICK r : r = s \ {c}
      OBVIOUS
    <3>6. IsFiniteSet(r) /\ (\A x \in r : f[x] \in Int) /\ \A x \in r : g[x] \in Int
      BY <3>1, <3>5, FS_RemoveElement
    <3>7. SumFunctionOnSet(f, r) \in Int /\ SumFunctionOnSet(g, r) \in Int
      BY <3>6, SumInt
    <3>8. f[c] \in Int /\ g[c] \in Int
      OBVIOUS
    <3> QED BY <3>2, <3>3, <3>4, <3>5, <3>7, <3>8
  <2> QED BY <2>1, <2>2
<1>2. P = SUBSET D
  <2> P \in SUBSET SUBSET D
    OBVIOUS
  <2>1. \A s \in SUBSET D : (\A x \in s : s \ {x} \in P) => s \in P
    BY <1>1
  <2> HIDE DEF P
  <2> QED BY <2>1, SubsetInduction
<1> QED BY <1>2 DEF SumFunction

(***************************************************************************)
(* A sum in which the parts of a set become larger by one.                  *)
(***************************************************************************)
OneMore(D, f, T) == [x \in D |-> IF x \in T THEN f[x] + 1 ELSE f[x]]

\* The sum grows by the number of the parts that become larger.
LEMMA SumOneMore ==
    ASSUME NEW D, IsFiniteSet(D), NEW f \in [D -> Int], NEW T \in SUBSET D
    PROVE  SumFunction(OneMore(D, f, T)) = SumFunction(f) + Cardinality(T)
<1> DEFINE P == {s \in SUBSET D : SumFunction(OneMore(D, f, s)) = SumFunction(f) + Cardinality(s)}
<1>0. SumFunction(f) \in Int
  BY SumType
<1>1. ASSUME NEW s \in SUBSET D, \A x \in s : s \ {x} \in P
      PROVE  SumFunction(OneMore(D, f, s)) = SumFunction(f) + Cardinality(s)
  <2>1. CASE s = {}
    <3>1. OneMore(D, f, s) = f
      BY <2>1 DEF OneMore
    <3>2. Cardinality(s) = 0
      BY <2>1, FS_EmptySet
    <3> QED BY <1>0, <3>1, <3>2
  <2>2. CASE s # {}
    <3>c. PICK c \in s : TRUE
      BY <2>2
    <3>r. PICK r : r = s \ {c}
      OBVIOUS
    <3>1. IsFiniteSet(s) /\ Cardinality(s) \in Nat /\ Cardinality(r) = Cardinality(s) - 1
      <4>1. IsFiniteSet(s)
        BY FS_Subset
      <4> QED BY <4>1, <3>r, FS_CardinalityType, FS_RemoveElement
    <3>2. SumFunction(OneMore(D, f, r)) = SumFunction(f) + Cardinality(r)
      BY <1>1, <3>r
    <3>h. PICK h : h = OneMore(D, f, r)
      OBVIOUS
    <3>g. PICK g : g = OneMore(D, f, s)
      OBVIOUS
    <3>3. h \in [D -> Int] /\ g \in [D -> Int] /\ \A x \in D \ {c} : h[x] = g[x]
      BY <3>r, <3>h, <3>g DEF OneMore
    <3>4. h[c] = f[c] /\ g[c] = f[c] + 1 /\ f[c] \in Int /\ c \in D
      BY <3>r, <3>h, <3>g DEF OneMore
    <3>5. DifferIn(D, h, D, g, c, f[c], f[c] + 1)
      BY <3>3, <3>4 DEF DifferIn
    <3>6. SumFunction(g) = SumFunction(h) - f[c] + (f[c] + 1) /\ SumFunction(h) \in Int
      BY <3>5, SumOneChanged
    <3>7. SumFunction(g) = SumFunction(h) + 1
      BY <3>4, <3>6
    <3> QED BY <1>0, <3>1, <3>2, <3>7, <3>g, <3>h
  <2> QED BY <2>1, <2>2
<1>2. P = SUBSET D
  <2> P \in SUBSET SUBSET D
    OBVIOUS
  <2>1. \A s \in SUBSET D : (\A x \in s : s \ {x} \in P) => s \in P
    BY <1>1
  <2> HIDE DEF P
  <2> QED BY <2>1, SubsetInduction
<1> QED BY <1>2

--------------------------------------------------------------------------------
(* What a side offers. *)

Share(s, lv, p) == IF Better(s, p, lv.price) THEN 0 ELSE lv.size
OfferedIn(s, levels, p) == SumFunction([i \in DOMAIN levels |-> Share(s, levels[i], p)])

\* What a side offers is read from its levels alone.
LEMMA OfferedBook == \A s, p : Offered(s, p) = OfferedIn(s, book[s], p)
BY DEF Offered, OfferedIn, Share

(***************************************************************************)
(* What the levels offer is a function on them, whose values are sizes.     *)
(***************************************************************************)
PartsOf(s, levels, p, f) ==
    /\ DOMAIN levels = 1..Len(levels) /\ Len(levels) \in Nat /\ IsFiniteSet(DOMAIN levels)
    /\ f \in [DOMAIN levels -> Int]
    /\ \A i \in DOMAIN levels : /\ f[i] = Share(s, levels[i], p) /\ f[i] >= 0
                                /\ levels[i].size \in Nat /\ levels[i].price \in Nat
    /\ OfferedIn(s, levels, p) = SumFunction(f)

\* The shares of the levels at a price are such a function.
LEMMA OfferedParts ==
    ASSUME NEW s, NEW levels \in Seq(LevelRec), NEW p,
           NEW f, f = [i \in DOMAIN levels |-> Share(s, levels[i], p)]
    PROVE  PartsOf(s, levels, p, f)
<1>1. DOMAIN levels = 1..Len(levels) /\ Len(levels) \in Nat /\ \A i \in DOMAIN levels : levels[i] \in LevelRec
  BY LenProperties, ElementOfSeq
<1>2. \A i \in DOMAIN levels : levels[i].size \in Nat /\ levels[i].price \in Nat
  BY <1>1 DEF LevelRec
<1>3. \A i \in DOMAIN levels : f[i] = Share(s, levels[i], p) /\ f[i] \in Nat
  BY <1>2 DEF Share
<1>4. f \in [DOMAIN levels -> Int]
  BY <1>3
<1>5. IsFiniteSet(DOMAIN levels)
  BY <1>1, FS_Interval
<1> QED BY <1>1, <1>2, <1>3, <1>4, <1>5 DEF OfferedIn, PartsOf

(***************************************************************************)
(* A side offers at least what each of its levels does that is not worse    *)
(* than the price.                                                          *)
(***************************************************************************)
LEMMA OfferedType ==
    ASSUME NEW s, NEW levels \in Seq(LevelRec), NEW p
    PROVE  /\ OfferedIn(s, levels, p) \in Nat
           /\ \A i \in DOMAIN levels :
                 ~Better(s, p, levels[i].price) => levels[i].size <= OfferedIn(s, levels, p)
<1>f. PICK f : f = [i \in DOMAIN levels |-> Share(s, levels[i], p)]
  OBVIOUS
<1>0. PartsOf(s, levels, p, f)
  BY <1>f, OfferedParts
<1>1. /\ DOMAIN levels = 1..Len(levels) /\ Len(levels) \in Nat /\ IsFiniteSet(DOMAIN levels)
      /\ f \in [DOMAIN levels -> Int]
      /\ \A i \in DOMAIN levels : /\ f[i] = Share(s, levels[i], p) /\ f[i] >= 0
                                  /\ levels[i].size \in Nat /\ levels[i].price \in Nat
      /\ OfferedIn(s, levels, p) = SumFunction(f)
  BY <1>0 DEF PartsOf
<1>D. PICK D : D = DOMAIN levels
  OBVIOUS
<1>2. IsFiniteSet(D) /\ f \in [D -> Int] /\ \A i \in D : f[i] >= 0
  BY <1>1, <1>D
<1>3. SumFunction(f) \in Nat /\ \A i \in D : f[i] <= SumFunction(f)
  BY <1>2, SumNat
<1> QED BY <1>1, <1>3, <1>D DEF Share

(***************************************************************************)
(* A side of which the best level is worse than the price offers nothing.   *)
(***************************************************************************)
LEMMA OfferedNothing ==
    ASSUME NEW s, NEW levels \in Seq(LevelRec), NEW p \in Nat, Ordered(s, levels),
           levels # <<>> => Better(s, p, levels[1].price)
    PROVE  OfferedIn(s, levels, p) = 0
<1>f. PICK f : f = [i \in DOMAIN levels |-> Share(s, levels[i], p)]
  OBVIOUS
<1>0. PartsOf(s, levels, p, f)
  BY <1>f, OfferedParts
<1>1. /\ DOMAIN levels = 1..Len(levels) /\ Len(levels) \in Nat /\ IsFiniteSet(DOMAIN levels)
      /\ f \in [DOMAIN levels -> Int]
      /\ \A i \in DOMAIN levels : /\ f[i] = Share(s, levels[i], p) /\ f[i] >= 0
                                  /\ levels[i].size \in Nat /\ levels[i].price \in Nat
      /\ OfferedIn(s, levels, p) = SumFunction(f)
  BY <1>0 DEF PartsOf
<1>D. PICK D : D = DOMAIN levels
  OBVIOUS
<1>2. ASSUME NEW i \in D PROVE f[i] = 0
  <2>1. i \in 1..Len(levels) /\ 1 \in DOMAIN levels /\ levels # <<>>
    BY <1>1, <1>D
  <2>2. Better(s, p, levels[i].price)
    <3>1. CASE i = 1
      BY <2>1, <3>1
    <3>2. CASE i # 1
      <4>1. Better(s, levels[1].price, levels[i].price)
        BY <1>D, <2>1, <3>2 DEF Ordered
      <4>2. levels[1].price \in Nat /\ levels[i].price \in Nat
        BY <1>1, <1>D, <2>1
      <4>3. PICK a, b : a = levels[1].price /\ b = levels[i].price
        OBVIOUS
      <4>4. a \in Nat /\ b \in Nat /\ Better(s, p, a) /\ Better(s, a, b)
        BY <2>1, <4>1, <4>2, <4>3
      <4>5. Better(s, p, b)
        BY <4>4, BetterOrder
      <4> QED BY <4>3, <4>5
    <3> QED BY <3>1, <3>2
  <2> QED BY <1>1, <1>D, <2>2 DEF Share
<1>3. IsFiniteSet(D) /\ f \in [D -> Int]
  BY <1>1, <1>D
<1>4. SumFunction(f) = 0
  BY <1>2, <1>3, SumZero
<1> QED BY <1>1, <1>4

(***************************************************************************)
(* The better the price, the less a side offers.                            *)
(***************************************************************************)
LEMMA OfferedMonotone ==
    ASSUME NEW s, NEW levels \in Seq(LevelRec), NEW p \in Nat, NEW q \in Nat, Better(s, p, q)
    PROVE  OfferedIn(s, levels, p) <= OfferedIn(s, levels, q)
<1>f. PICK f : f = [i \in DOMAIN levels |-> Share(s, levels[i], p)]
  OBVIOUS
<1>0. PartsOf(s, levels, p, f)
  BY <1>f, OfferedParts
<1>g. PICK g : g = [i \in DOMAIN levels |-> Share(s, levels[i], q)]
  OBVIOUS
<1>a. PartsOf(s, levels, q, g)
  BY <1>g, OfferedParts
<1>D. PICK D : D = DOMAIN levels
  OBVIOUS
<1>1. /\ IsFiniteSet(D) /\ f \in [D -> Int]
      /\ \A i \in D : /\ f[i] = Share(s, levels[i], p)
                      /\ levels[i].size \in Nat /\ levels[i].price \in Nat
      /\ OfferedIn(s, levels, p) = SumFunction(f)
  BY <1>0, <1>D DEF PartsOf
<1>2. /\ g \in [D -> Int]
      /\ \A i \in D : g[i] = Share(s, levels[i], q)
      /\ OfferedIn(s, levels, q) = SumFunction(g)
  BY <1>a, <1>D DEF PartsOf
<1>3. ASSUME NEW i \in D PROVE f[i] <= g[i]
  <2>1. Better(s, q, levels[i].price) => Better(s, p, levels[i].price)
    BY <1>1, BetterOrder
  <2> QED BY SMTT(60), <1>1, <1>2, <2>1 DEF Share
<1>4. SumFunction(f) <= SumFunction(g)
  BY <1>1, <1>2, <1>3, SumMonotone
<1> QED BY <1>1, <1>2, <1>4

(***************************************************************************)
(* The first level becomes smaller.                                         *)
(***************************************************************************)
LEMMA OfferedReplaced ==
    ASSUME NEW s, NEW levels \in Seq(LevelRec), levels # <<>>, NEW p \in Nat,
           NEW lw \in LevelRec, lw.price = levels[1].price,
           NEW after, after = ReplaceAt(levels, 1, lw)
    PROVE  OfferedIn(s, after, p)
             = OfferedIn(s, levels, p) - Share(s, levels[1], p) + Share(s, lw, p)
<1>f. PICK f : f = [i \in DOMAIN levels |-> Share(s, levels[i], p)]
  OBVIOUS
<1>0. PartsOf(s, levels, p, f)
  BY <1>f, OfferedParts
<1>g. PICK g : g = [i \in DOMAIN after |-> Share(s, after[i], p)]
  OBVIOUS
<1>D. PICK D : D = DOMAIN levels
  OBVIOUS
<1>1. /\ DOMAIN levels = 1..Len(levels) /\ Len(levels) \in Nat /\ IsFiniteSet(D) /\ f \in [D -> Int]
      /\ \A i \in D : f[i] = Share(s, levels[i], p)
      /\ OfferedIn(s, levels, p) = SumFunction(f)
  BY <1>0, <1>D DEF PartsOf
<1>2. 1 \in D /\ 1 \in 1..Len(levels)
  <2>1. Len(levels) # 0
    BY EmptySeq
  <2> QED BY <1>1, <1>D, <2>1
<1>3. /\ after \in Seq(LevelRec) /\ Len(after) = Len(levels)
      /\ \A i \in 1..Len(levels) : after[i] = IF i = 1 THEN lw ELSE levels[i]
  BY <1>2, ExceptSeq DEF ReplaceAt
<1>4. DOMAIN after = D
  BY <1>1, <1>3, <1>D, LenProperties
<1>5. /\ g \in [D -> Int]
      /\ \A i \in D : g[i] = Share(s, after[i], p)
      /\ OfferedIn(s, after, p) = SumFunction(g)
  <2>1. PartsOf(s, after, p, g)
    BY <1>3, <1>g, OfferedParts
  <2> QED BY <1>4, <2>1 DEF PartsOf
<1>6. f[1] = Share(s, levels[1], p) /\ g[1] = Share(s, lw, p)
  BY <1>1, <1>2, <1>3, <1>5
<1>7. \A i \in D \ {1} : f[i] = g[i]
  BY <1>1, <1>3, <1>5, <1>D
<1>8. f[1] \in Int /\ g[1] \in Int
  BY <1>1, <1>2, <1>5
<1>9. DifferIn(D, f, D, g, 1, f[1], g[1])
  BY <1>1, <1>2, <1>5, <1>7, <1>8 DEF DifferIn
<1>10. SumFunction(g) = SumFunction(f) - f[1] + g[1]
  BY <1>9, SumOneChanged
<1> QED BY <1>1, <1>5, <1>6, <1>10

(***************************************************************************)
(* An empty level is erased.                                                *)
(***************************************************************************)
LEMMA OfferedTail ==
    ASSUME NEW s, NEW levels \in Seq(LevelRec), levels # <<>>, NEW p, levels[1].size = 0,
           NEW after, after = Tail(levels)
    PROVE  OfferedIn(s, after, p) = OfferedIn(s, levels, p)
<1>f. PICK f : f = [i \in DOMAIN levels |-> Share(s, levels[i], p)]
  OBVIOUS
<1>0. PartsOf(s, levels, p, f)
  BY <1>f, OfferedParts
<1>g. PICK g : g = [i \in DOMAIN after |-> Share(s, after[i], p)]
  OBVIOUS
<1>1. /\ DOMAIN levels = 1..Len(levels) /\ Len(levels) \in Nat /\ f \in [DOMAIN levels -> Int]
      /\ \A i \in DOMAIN levels : f[i] = Share(s, levels[i], p)
      /\ OfferedIn(s, levels, p) = SumFunction(f)
  BY <1>0 DEF PartsOf
<1>n. PICK n : n = Len(levels) - 1
  OBVIOUS
<1>2. n \in Nat /\ n + 1 = Len(levels)
  <2>1. Len(levels) # 0
    BY EmptySeq
  <2> QED BY <1>1, <1>n, <2>1
<1>3. /\ after \in Seq(LevelRec) /\ Len(after) = n
      /\ \A i \in 1..n : after[i] = levels[i + 1]
  <2>1. PICK S : S = LevelRec
    OBVIOUS
  <2>2. levels \in Seq(S) /\ levels # <<>>
    BY <2>1
  <2>3. /\ Tail(levels) \in Seq(S) /\ Len(Tail(levels)) = Len(levels) - 1
        /\ \A i \in 1..Len(Tail(levels)) : Tail(levels)[i] = levels[i + 1]
    BY <2>2, HeadTailProperties
  <2> QED BY <1>n, <2>1, <2>3
<1>4. /\ DOMAIN after = 1..n /\ g \in [1..n -> Int]
      /\ \A i \in 1..n : g[i] = Share(s, after[i], p)
      /\ OfferedIn(s, after, p) = SumFunction(g)
  <2>1. PartsOf(s, after, p, g)
    BY <1>3, <1>g, OfferedParts
  <2> QED BY <1>3, <2>1 DEF PartsOf
<1>5. f \in [1..(n + 1) -> Int] /\ \A i \in 1..n : g[i] = f[i + 1]
  <2>1. DOMAIN levels = 1..(n + 1)
    BY Zenon, <1>1, <1>2
  <2>2. \A i \in 1..n : i + 1 \in 1..(n + 1)
    BY <1>2
  <2> QED BY ZenonT(60), <1>1, <1>3, <1>4, <2>1, <2>2
<1>6. f[1] = 0
  <2>1. 1 \in DOMAIN levels
    BY <1>1, <1>2
  <2> QED BY <1>1, <2>1 DEF Share
<1>7. SumFunction(f) = f[1] + SumFunction(g) /\ SumFunction(g) \in Int
  BY <1>2, <1>4, <1>5, SumTail
<1> QED BY <1>1, <1>4, <1>6, <1>7

--------------------------------------------------------------------------------
(* The book and the ledger, in every phase. *)

Phases   == {"idle", "price", "share", "divide", "match", "close", "publish"}

Priced(o) == IF o.kind = "LIMIT" THEN o.price \in Prices ELSE o.price = TopPrice(o.side)
Known(os) == os \in Seq(OrderRec) /\ \A id \in DOMAIN os : Priced(os[id])
Standing(os, s, levels) ==
    /\ levels \in Seq(LevelRec) /\ ExactSide(os, s, levels)
    /\ \A lv \in Range(levels) : Aged(os, lv.ids)

BookInv == Known(orders) /\ DOMAIN book = Sides /\ \A s \in Sides : Standing(orders, s, book[s])

NoneEmpty ==
    \A s \in Sides : \A l \in DOMAIN book[s] :
        book[s][l].ids = <<>> => phase = "match" /\ l = 1 /\ shares[s] = <<>>

LedgerRec == [trader: 1..MaxOrders, submitted: {o.size : o \in Submissions}, filled: Nat, cancelled: Nat]
LedgerInv ==
    /\ ledger \in Seq(LedgerRec) /\ Len(ledger) = Len(orders)
    /\ \A id \in DOMAIN orders :
          /\ ledger[id].submitted = ledger[id].filled + ledger[id].cancelled + orders[id].size
          /\ ledger[id].trader = id

--------------------------------------------------------------------------------
(* The auction. *)

Trading == phase \in {"share", "divide", "match"}

AuctionTypes ==
    /\ lastPrice \in Nat /\ phase \in Phases
    /\ rows \in SUBSET Nat
    /\ total \in Int /\ total >= -1 /\ (phase # "price" => total \in Nat)
    /\ price \in Nat
    /\ DOMAIN shares = Sides /\ (\A s \in Sides : shares[s] \in Seq(Nat))
    /\ DOMAIN pos = Sides /\ (\A s \in Sides : pos[s] \in Nat \ {0})
    /\ division \in [side: Sides, rest: Nat, counter: Int]
    /\ reports \in Seq([decision: {"2", "5"}, price: Nat, size: Nat, bid: Nat, ask: Nat])
    /\ cancels \in Nat /\ auctions \in Nat

Quiet == ~Trading => \A s \in Sides : shares[s] = <<>> /\ pos[s] = 1

\* Of the orders ids, those from the n-th on get the parts sh.
Fits(os, ids, n, sh) ==
    /\ Len(ids) = n - 1 + Len(sh)
    /\ \A k \in DOMAIN sh : sh[k] <= os[ids[n - 1 + k]].size

\* Each gets all its shares.
Whole(os, ids, n, sh) == n = 1 /\ \A k \in DOMAIN sh : sh[k] = os[ids[k]].size

\* The parts add up to q, and those that get nothing are the last.
InTurn(sh, q) ==
    /\ SumFunction(sh) = q
    /\ \A i, j \in DOMAIN sh : i < j /\ sh[i] = 0 => sh[j] = 0

\* In the course of a division, the orders of one age are served together.
BeingDivided(os, ids, n, sh, d, q) ==
    /\ n = 1 /\ d.rest > 0 /\ SumFunction(sh) + d.rest = q
    /\ \A i \in DOMAIN sh : /\ os[ids[i]].counter > d.counter => sh[i] > 0
                            /\ os[ids[i]].counter < d.counter => sh[i] = 0
    /\ \/ \A i \in DOMAIN sh : os[ids[i]].counter = d.counter => sh[i] = 0
       \/ \A i \in DOMAIN sh : os[ids[i]].counter = d.counter => sh[i] > 0

\* Older orders have got everything, and those of the age served now the same, to the full.
EvenlyDivided(os, ids, sh, c) ==
    /\ \A i \in DOMAIN sh : os[ids[i]].counter > c => sh[i] = os[ids[i]].size
    /\ \E m \in Nat : \A i \in DOMAIN sh :
          os[ids[i]].counter = c => sh[i] = Least(os[ids[i]].size, m)

IsDivided(s) == phase = "divide" /\ division.side = s

Parts ==
    Trading => \A s \in Sides :
        IF shares[s] # <<>> \/ phase = "match"
        THEN /\ book[s] # <<>>
             /\ Fits(orders, book[s][1].ids, pos[s], shares[s])
             /\ IF IsDivided(s) THEN BeingDivided(orders, book[s][1].ids, pos[s], shares[s], division, total)
                ELSE \/ Whole(orders, book[s][1].ids, pos[s], shares[s]) /\ SumFunction(shares[s]) <= total
                     \/ InTurn(shares[s], total)
        ELSE pos[s] = 1 \/ total = 0

Even ==
    phase = "divide" /\ BySize(division.side) =>
        EvenlyDivided(orders, book[division.side][1].ids, shares[division.side], division.counter)

DividedSide ==
    phase = "divide" => shares[division.side] # <<>> /\ (division.side = "ask" => shares["bid"] # <<>>)

\* What is still to be executed is there, on both sides; one side is used up level by level.
Tight(s) ==
    /\ total = OfferedIn(s, book[s], price)
    /\ shares[s] = <<>> \/ Whole(orders, book[s][1].ids, pos[s], shares[s])
    /\ ~IsDivided(s)
Enough ==
    Trading => /\ \A s \in Sides : total <= OfferedIn(s, book[s], price)
               /\ \E s \in Sides : Tight(s)

\* At no price of the book more can be matched than is still to be executed.
PricesOf(bk) == UNION {{lv.price : lv \in Range(bk[s])} : s \in Sides}
Announced == Trading \/ (phase = "close" /\ reports # <<>>)
Most      == Announced => \A p \in PricesOf(book) : \E s \in Sides : OfferedIn(s, book[s], p) <= total

Later(rs) == SumFunction([i \in 2..Len(rs) |-> rs[i].size])
SoundReport(os, p, r) ==
    /\ r.size > 0 /\ r.price = p
    /\ r.bid \in DOMAIN os /\ r.ask \in DOMAIN os
    /\ os[r.bid].price >= p /\ os[r.ask].price <= p
Reported ==
    /\ Trading => reports # <<>>
    /\ phase = "close" /\ reports # <<>> => total = 0
    /\ reports # <<>> => /\ Announced
                         /\ reports[1].price = price
                         /\ reports[1].size = total + Later(reports)
    /\ \A i \in 2..Len(reports) : SoundReport(orders, price, reports[i])

NoCross(b, a) == b.price \in Prices /\ a.price \in Prices => b.price < a.price
Uncrossed ==
    phase \in {"close", "publish"} =>
        \A b \in Range(book["bid"]), a \in Range(book["ask"]) : NoCross(b, a)

PublishedKnown == published \in [Sides -> SUBSET [price: Nat, size: Nat]]

\* What matches at price p of the book bk, and what is left over.
MatchedIn(bk, p) == Least(OfferedIn("bid", bk["bid"], p), OfferedIn("ask", bk["ask"], p))
ExcessIn(bk, p)  ==
    LET d == OfferedIn("bid", bk["bid"], p) - OfferedIn("ask", bk["ask"], p) IN IF d < 0 THEN -d ELSE d

\* Price r is not to be chosen instead of p, at which t shares match.
NotBeaten(bk, last, r, t, p) ==
    /\ MatchedIn(bk, r) <= t
    /\ MatchedIn(bk, r) = t => ExcessIn(bk, p) <= ExcessIn(bk, r)
    /\ MatchedIn(bk, r) = t /\ ExcessIn(bk, p) = ExcessIn(bk, r) => Distance(p, last) <= Distance(r, last)

\* What has been found in the rows that are read.
PriceSoFar ==
    phase = "price" =>
        /\ rows \subseteq PricesOf(book)
        /\ PricesOf(book) # {}
        /\ IF total = -1 THEN rows = PricesOf(book)
           ELSE price \in PricesOf(book) \ rows /\ total = MatchedIn(book, price)
        /\ \A r \in PricesOf(book) \ rows : NotBeaten(book, lastPrice, r, total, price)
        /\ \A r \in rows, q \in PricesOf(book) \ rows : q < r

\* The invariants, in the order in which the proofs need them.
Basis == BookInv /\ NoneEmpty /\ AuctionTypes /\ Quiet /\ DividedSide
Inv ==
    /\ Basis /\ LedgerInv
    /\ Parts /\ Enough /\ Most /\ Reported /\ PriceSoFar /\ Even
    /\ Uncrossed /\ PublishedKnown /\ MarketsHidden

\* Order id of side s is executed for q shares; other orders of its side stay.
Trades(os, new, s, id, q) ==
    /\ os \in Seq(OrderRec) /\ new \in Seq(OrderRec)
    /\ AgreeBut(os, new, s, id)
    /\ id \in DOMAIN os /\ id \in DOMAIN new /\ new[id].side = os[id].side /\ new[id].price = os[id].price
    /\ q \in Nat /\ new[id].size = os[id].size - q
    /\ \A j \in DOMAIN os : new[j].counter = os[j].counter

\* The first of levels with q shares less, and without its n-th order if that has none left.
TradedLevel(levels, n, new, q) ==
    [price |-> levels[1].price, size |-> levels[1].size - q,
     ids |-> IF new[levels[1].ids[n]].size = 0 THEN RemoveAt(levels[1].ids, n) ELSE levels[1].ids]

InFirst(s, levels, n, id) == levels # <<>> /\ n \in DOMAIN levels[1].ids /\ levels[1].ids[n] = id

(***************************************************************************)
(* The first level, the sizes of its orders, and what becomes of them.      *)
(***************************************************************************)
FirstFacts(os, new, s, lv, n, id, q) ==
    /\ lv.price \in Nat /\ lv.size \in Nat /\ lv.ids \in Seq(Nat)
    /\ DOMAIN lv.ids = 1..Len(lv.ids) /\ Len(lv.ids) \in Nat
    /\ ExactLevel(os, s, lv) /\ Aged(os, lv.ids)
    /\ n \in DOMAIN lv.ids /\ lv.ids[n] = id
    /\ os[id].side = s /\ os[id].price = lv.price
    /\ \A j \in DOMAIN lv.ids :
          /\ lv.ids[j] \in DOMAIN os /\ lv.ids[j] \in DOMAIN new
          /\ os[lv.ids[j]].size \in Nat /\ os[lv.ids[j]].size > 0 /\ os[lv.ids[j]].size <= lv.size
          /\ new[lv.ids[j]].size = IF j = n THEN os[id].size - q ELSE os[lv.ids[j]].size

\* The order of a trade stands in the first level of its side.
LEMMA FirstLevel ==
    ASSUME NEW os, NEW new, NEW s, NEW levels, NEW n, NEW id, NEW q,
           Trades(os, new, s, id, q), Standing(os, s, levels), InFirst(s, levels, n, id)
    PROVE  /\ levels[1] \in LevelRec /\ 1 \in DOMAIN levels
           /\ FirstFacts(os, new, s, levels[1], n, id, q)
<1>v. PICK lv : lv = levels[1]
  OBVIOUS
<1>1. levels \in Seq(LevelRec) /\ levels # <<>> /\ ExactSide(os, s, levels)
      /\ n \in DOMAIN lv.ids /\ lv.ids[n] = id
  BY <1>v DEF Standing, InFirst
<1>2. 1 \in DOMAIN levels /\ lv \in LevelRec
  <2>1. DOMAIN levels = 1..Len(levels) /\ Len(levels) \in Nat /\ Len(levels) # 0
    BY <1>1, LenProperties, EmptySeq
  <2> QED BY <1>1, <1>v, <2>1, ElementOfSeq
<1>3. lv.price \in Nat /\ lv.size \in Nat /\ lv.ids \in Seq(Nat)
  BY <1>2 DEF LevelRec
<1>4. DOMAIN lv.ids = 1..Len(lv.ids) /\ Len(lv.ids) \in Nat
  BY <1>3, LenProperties
<1>5. lv \in Range(levels)
  BY <1>2, <1>v DEF Range
<1>6. ExactLevel(os, s, lv) /\ Aged(os, lv.ids)
  BY <1>1, <1>5 DEF Standing, ExactSide
<1>7. os \in Seq(OrderRec) /\ new \in Seq(OrderRec)
  BY DEF Trades
<1>8. ASSUME NEW j \in DOMAIN lv.ids
      PROVE  /\ lv.ids[j] \in DOMAIN os /\ lv.ids[j] \in DOMAIN new
             /\ os[lv.ids[j]].size \in Nat /\ os[lv.ids[j]].size > 0 /\ os[lv.ids[j]].size <= lv.size
             /\ new[lv.ids[j]].size = (IF j = n THEN os[id].size - q ELSE os[lv.ids[j]].size)
             /\ os[lv.ids[j]].side = s /\ os[lv.ids[j]].price = lv.price
  <2>x. PICK x : x = lv.ids[j]
    OBVIOUS
  <2>1. x \in Range(lv.ids)
    BY <2>x DEF Range
  <2>2. x \in DOMAIN os /\ os[x].size > 0 /\ os[x].side = s /\ os[x].price = lv.price /\ os[x].size <= lv.size
    BY <1>6, <1>7, <2>1, ExactSize
  <2>3. os[x].size \in Nat
    <3>1. os[x] \in OrderRec
      BY <1>7, <2>2, LenProperties, ElementOfSeq
    <3> QED BY <3>1 DEF OrderRec
  <2>4. CASE j = n
    BY <1>1, <2>2, <2>3, <2>x, <2>4 DEF Trades
  <2>5. CASE j # n
    <3>1. x # id
      BY <1>1, <1>6, <2>5, <2>x DEF ExactLevel, IsInjective
    <3>2. x \in OfSide(os, s) \ {id}
      BY <2>2, <3>1 DEF OfSide
    <3>3. new[x].size = os[x].size /\ x \in OfSide(new, s)
      BY <3>2 DEF Trades, AgreeBut
    <3> QED BY <2>2, <2>3, <2>5, <2>x, <3>3 DEF OfSide
  <2> QED BY <2>4, <2>5
<1>9. os[id].side = s /\ os[id].price = lv.price
  BY <1>1, <1>8
<1>10. FirstFacts(os, new, s, lv, n, id, q)
  BY <1>1, <1>3, <1>4, <1>6, <1>8, <1>9 DEF FirstFacts
<1> QED BY <1>2, <1>10, <1>v

(***************************************************************************)
(* The first level after a trade.                                           *)
(***************************************************************************)
LEMMA TradedExact ==
    ASSUME NEW os, NEW new, NEW s, NEW levels, NEW n, NEW id, NEW q,
           Trades(os, new, s, id, q), Standing(os, s, levels), InFirst(s, levels, n, id),
           NEW lw, lw = TradedLevel(levels, n, new, q)
    PROVE  /\ lw \in LevelRec /\ lw.price = levels[1].price /\ lw.size = levels[1].size - q
           /\ ExactLevel(new, s, lw) /\ Aged(new, lw.ids)
<1>v. PICK lv : lv = levels[1]
  OBVIOUS
<1>1. lv \in LevelRec /\ FirstFacts(os, new, s, lv, n, id, q)
  BY <1>v, FirstLevel
<1>2. /\ lv.price \in Nat /\ lv.size \in Nat /\ lv.ids \in Seq(Nat)
      /\ ExactLevel(os, s, lv) /\ Aged(os, lv.ids) /\ IsInjective(lv.ids)
      /\ n \in DOMAIN lv.ids /\ lv.ids[n] = id /\ id \in Range(lv.ids)
      /\ os[id].side = s /\ os[id].price = lv.price /\ os[id].size \in Nat
      /\ \A j \in DOMAIN lv.ids : lv.ids[j] \in DOMAIN os
  BY <1>1 DEF FirstFacts, ExactLevel, Range
<1>3. /\ os \in Seq(OrderRec) /\ new \in Seq(OrderRec) /\ AgreeBut(os, new, s, id) /\ q \in Nat
      /\ id \in DOMAIN os /\ id \in DOMAIN new
      /\ new[id].size = os[id].size - q /\ new[id].side = s /\ new[id].price = lv.price
      /\ \A j \in DOMAIN os : new[j].counter = os[j].counter
  BY <1>2 DEF Trades
<1>i. PICK ids : ids = lv.ids
  OBVIOUS
<1>l. PICK left : left = IF new[id].size = 0 THEN RemoveAt(ids, n) ELSE ids
  OBVIOUS
<1>4. lw = [price |-> lv.price, size |-> lv.size - q, ids |-> left]
  BY <1>v, <1>i, <1>l, <1>2 DEF TradedLevel
<1>5. ids \in Seq(Nat) /\ n \in DOMAIN ids /\ ids[n] = id /\ IsInjective(ids) /\ Aged(os, ids)
  BY <1>2, <1>i
<1>6. new[id].size \in Nat
  <2>1. new[id] \in OrderRec
    BY <1>3, LenProperties, ElementOfSeq
  <2> QED BY <2>1 DEF OrderRec
<1>7. /\ left \in Seq(Nat) /\ IsInjective(left) /\ Aged(os, left)
      /\ Range(left) = (Range(ids) \ {id}) \cup (IF new[id].size > 0 THEN {id} ELSE {})
  <2>1. CASE new[id].size = 0
    <3>1. ids \in Seq(Nat) /\ n \in DOMAIN ids /\ left = RemoveAt(ids, n)
      BY <1>5, <1>l, <2>1
    <3>2. IsWithout(os, ids, n, left)
      BY <3>1, Without
    <3>4. /\ left \in Seq(Nat) /\ (Aged(os, ids) => Aged(os, left))
          /\ IsInjective(ids) => IsInjective(left) /\ Range(left) = Range(ids) \ {ids[n]}
      BY <3>2 DEF IsWithout
    <3>3. ~(new[id].size > 0)
      BY <2>1
    <3> QED BY <1>5, <3>3, <3>4
  <2>2. CASE new[id].size # 0
    <3>1. left = ids /\ new[id].size > 0
      BY <1>6, <1>l, <2>2
    <3> QED BY <1>2, <1>5, <1>i, <3>1
  <2> QED BY <2>1, <2>2
<1>8. ExactLevel(new, s, lw)
  <2>1. lw.price = lv.price /\ lw.ids = left /\ lw.size = lv.size - q
    BY <1>4
  <2>2. lw.size = lv.size - (IF id \in DOMAIN os THEN os[id].size ELSE 0) + new[id].size
    BY <1>2, <1>3, <2>1
  <2>3. Follows(os, new, lv, lw, id)
    <3>1. Range(lw.ids) = (Range(lv.ids) \ {id}) \cup (IF new[id].size > 0 THEN {id} ELSE {})
      BY <1>7, <1>i, <2>1
    <3>2. lw.price = lv.price /\ IsInjective(lw.ids)
      BY <1>7, <2>1
    <3> QED BY <2>2, <3>1, <3>2 DEF Follows
  <2>4. ChangedOrder(os, new, s, id, lv.price)
    BY <1>2, <1>3 DEF ChangedOrder
  <2> QED BY <1>2, <1>3, <2>3, <2>4, ExactHere
<1>9. lw.size \in Nat
  BY <1>3, <1>8, ExactSize
<1>10. lw \in LevelRec
  <2>1. lw = [price |-> lv.price, size |-> lw.size, ids |-> left]
    BY <1>4
  <2> QED BY <1>2, <1>7, <1>9, <2>1 DEF LevelRec
<1>11. Aged(new, lw.ids)
  <2>1. \A j \in DOMAIN left : left[j] \in DOMAIN os
    <3>1. \A x \in Range(ids) : x \in DOMAIN os
      BY <1>2, <1>i DEF Range
    <3>2. \A x \in Range(left) : x \in DOMAIN os
      BY <1>3, <1>7, <3>1
    <3> QED BY <3>2 DEF Range
  <2>2. \A j \in DOMAIN left : new[left[j]].counter = os[left[j]].counter
    BY <1>3, <2>1
  <2> QED BY <1>4, <1>7, <2>2 DEF Aged
<1> QED BY <1>4, <1>8, <1>10, <1>11, <1>v

(***************************************************************************)
(* The levels of a side after a trade, and what they offer.                 *)
(***************************************************************************)
LEMMA TradedBook ==
    ASSUME NEW os, NEW new, NEW s, NEW levels, NEW n, NEW id, NEW q,
           Trades(os, new, s, id, q), Standing(os, s, levels), InFirst(s, levels, n, id),
           NEW lw, lw = TradedLevel(levels, n, new, q),
           NEW after, after = ReplaceAt(levels, 1, lw)
    PROVE  /\ Standing(new, s, after)
           /\ \A p \in Nat : OfferedIn(s, after, p)
                               = OfferedIn(s, levels, p) - (IF Better(s, p, levels[1].price) THEN 0 ELSE q)
<1>v. PICK lv : lv = levels[1]
  OBVIOUS
<1>p. PICK top : top = lv.price
  OBVIOUS
<1>1. lv \in LevelRec /\ 1 \in DOMAIN levels /\ FirstFacts(os, new, s, lv, n, id, q)
  BY <1>v, FirstLevel
<1>2. lw \in LevelRec /\ lw.price = top /\ lw.size = lv.size - q /\ ExactLevel(new, s, lw) /\ Aged(new, lw.ids)
  BY <1>v, <1>p, TradedExact
<1>3. levels \in Seq(LevelRec) /\ levels # <<>> /\ Ordered(s, levels) /\ ExactSide(os, s, levels)
  BY DEF Standing, ExactSide, InFirst
<1>4. AgreeBut(os, new, s, id) /\ ChangedOrder(os, new, s, id, top) /\ q \in Nat
  BY <1>1, <1>p DEF Trades, ChangedOrder, FirstFacts
<1>n. PICK news : news = {lw}
  OBVIOUS
<1>5. Replaces(s, levels, top, after, news)
  <2>1. Replaces(s, levels, lw.price, ReplaceAt(levels, 1, lw), {lw})
    BY <1>1, <1>2, <1>3, <1>p, <1>v, LevelReplaced
  <2> QED BY <1>2, <1>n, <2>1
<1>6. ExactSide(new, s, after)
  <2>1. \A x \in news : x.price = top /\ ExactLevel(new, s, x)
    BY <1>2, <1>n
  <2>2. news # {}
    BY <1>n
  <2> QED BY <1>3, <1>4, <1>5, <2>1, <2>2, SideFollows
<1>7. ASSUME NEW x \in Range(after) PROVE Aged(new, x.ids)
  <2>1. CASE x = lw
    BY <1>2, <2>1
  <2>2. CASE x \in Range(levels)
    <3>1. Aged(os, x.ids) /\ ExactLevel(os, s, x)
      BY <2>2 DEF Standing, ExactSide
    <3>2. \A j \in DOMAIN x.ids : x.ids[j] \in DOMAIN os
      BY <3>1 DEF ExactLevel, Belongs, Range
    <3>3. \A j \in DOMAIN x.ids : new[x.ids[j]].counter = os[x.ids[j]].counter
      BY <3>2 DEF Trades
    <3> QED BY <3>1, <3>3 DEF Aged
  <2> QED BY <1>5, <1>n, <2>1, <2>2 DEF Replaces
<1>8. Standing(new, s, after)
  BY <1>5, <1>6, <1>7 DEF Standing, Replaces
<1>9. ASSUME NEW p \in Nat
      PROVE  OfferedIn(s, after, p) = OfferedIn(s, levels, p) - (IF Better(s, p, top) THEN 0 ELSE q)
  <2>1. OfferedIn(s, after, p) = OfferedIn(s, levels, p) - Share(s, levels[1], p) + Share(s, lw, p)
    BY <1>2, <1>3, <1>p, <1>v, OfferedReplaced
  <2>2. OfferedIn(s, levels, p) \in Nat
    BY <1>3, OfferedType
  <2>3. lv.size \in Nat
    BY <1>1 DEF FirstFacts
  <2>4. /\ Share(s, levels[1], p) = IF Better(s, p, top) THEN 0 ELSE lv.size
        /\ Share(s, lw, p) = IF Better(s, p, top) THEN 0 ELSE lv.size - q
    BY <1>2, <1>p, <1>v DEF Share
  <2> QED BY <1>4, <2>1, <2>2, <2>3, <2>4
<1> QED BY <1>8, <1>9, <1>p, <1>v

(***************************************************************************)
(* The parts of a side after a trade of q shares.                           *)
(***************************************************************************)
PartsAfter(sh, q) == IF sh[1] = q THEN Tail(sh) ELSE ReplaceAt(sh, 1, sh[1] - q)

\* A trade of no more than the first part takes q from the sum of the parts.
LEMMA PartsShrink ==
    ASSUME NEW sh \in Seq(Nat), sh # <<>>, NEW q \in Nat, q <= sh[1],
           NEW after, after = PartsAfter(sh, q)
    PROVE  /\ after \in Seq(Nat) /\ Len(sh) \in Nat \ {0}
           /\ DOMAIN sh = 1..Len(sh) /\ DOMAIN after = 1..Len(after)
           /\ sh[1] = q => /\ Len(after) = Len(sh) - 1
                           /\ \A k \in 1..(Len(sh) - 1) : after[k] = sh[k + 1]
           /\ sh[1] # q => /\ Len(after) = Len(sh)
                           /\ \A k \in 1..Len(sh) : after[k] = IF k = 1 THEN sh[1] - q ELSE sh[k]
           /\ SumFunction(after) = SumFunction(sh) - q /\ SumFunction(after) \in Nat
<1>1. Len(sh) \in Nat \ {0} /\ DOMAIN sh = 1..Len(sh) /\ sh[1] \in Nat
  <2>1. Len(sh) \in Nat /\ DOMAIN sh = 1..Len(sh) /\ Len(sh) # 0
    BY LenProperties, EmptySeq
  <2> QED BY <2>1, ElementOfSeq
<1>2. sh \in [1..Len(sh) -> Int]
  <2>1. \A k \in 1..Len(sh) : sh[k] \in Nat
    BY ElementOfSeq
  <2> QED BY <1>1, <2>1
<1>n. PICK n : n = Len(sh) - 1
  OBVIOUS
<1>3. n \in Nat /\ n + 1 = Len(sh)
  BY <1>1, <1>n
<1>4. CASE sh[1] = q
  <2>1. after = Tail(sh)
    BY <1>4 DEF PartsAfter
  <2>2. after \in Seq(Nat) /\ Len(after) = n /\ \A k \in 1..n : after[k] = sh[k + 1]
    BY <1>n, <2>1, HeadTailProperties
  <2>3. DOMAIN after = 1..n /\ after \in [1..n -> Int]
    <3>1. DOMAIN after = 1..n /\ \A k \in 1..n : after[k] \in Nat
      BY <2>2, LenProperties, ElementOfSeq
    <3>2. after = [k \in 1..n |-> after[k]]
      BY <2>2, <3>1
    <3> QED BY <3>1, <3>2
  <2>4. SumFunction(sh) = sh[1] + SumFunction(after) /\ SumFunction(after) \in Int
    <3>1. sh \in [1..(n + 1) -> Int]
      BY Zenon, <1>2, <1>3
    <3> QED BY ZenonT(60), <1>3, <2>2, <2>3, <3>1, SumTail
  <2>5. SumFunction(after) \in Nat
    <3>D. PICK D : D = 1..n
      OBVIOUS
    <3>1. IsFiniteSet(D) /\ after \in [D -> Int]
      BY <1>3, <2>3, <3>D, FS_Interval
    <3>2. \A k \in D : after[k] >= 0
      BY <2>2, <3>D, ElementOfSeq
    <3> QED BY <3>1, <3>2, SumNat
  <2>6. SumFunction(after) = SumFunction(sh) - q
    BY SMTT(60), <1>4, <2>4
  <2> QED BY <1>1, <1>4, <1>n, <2>2, <2>3, <2>5, <2>6
<1>5. CASE sh[1] # q
  <2>1. after = [sh EXCEPT ![1] = sh[1] - q]
    BY <1>5 DEF PartsAfter, ReplaceAt
  <2>2. sh[1] - q \in Nat
    BY <1>1
  <2>3. /\ after \in Seq(Nat) /\ Len(after) = Len(sh)
        /\ \A k \in 1..Len(sh) : after[k] = IF k = 1 THEN sh[1] - q ELSE sh[k]
    BY <1>1, <2>1, <2>2, ExceptSeq
  <2>4. DOMAIN after = 1..Len(sh) /\ after \in [1..Len(sh) -> Int]
    <3>1. DOMAIN after = 1..Len(sh) /\ \A k \in 1..Len(sh) : after[k] \in Nat
      BY <2>3, LenProperties, ElementOfSeq
    <3>2. after = [k \in 1..Len(sh) |-> after[k]]
      BY <2>3, <3>1
    <3> QED BY <3>1, <3>2
  <2>D. PICK D : D = 1..Len(sh)
    OBVIOUS
  <2>5. IsFiniteSet(D) /\ sh \in [D -> Int] /\ after \in [D -> Int] /\ 1 \in D
    <3>1. Len(sh) \in Int /\ 1 \in 1..Len(sh)
      BY <1>1
    <3>2. IsFiniteSet(D)
      BY <2>D, <3>1, FS_Interval
    <3> QED BY <1>2, <2>4, <2>D, <3>1, <3>2
  <2>6. \A k \in D \ {1} : sh[k] = after[k]
    BY <2>3, <2>D
  <2>a. PICK a : a = sh[1]
    OBVIOUS
  <2>b. PICK b : b = sh[1] - q
    OBVIOUS
  <2>7. a \in Int /\ b \in Int /\ after[1] = b /\ sh[1] = a
    BY <1>1, <2>2, <2>3, <2>5, <2>a, <2>b, <2>D
  <2>8. DifferIn(D, sh, D, after, 1, a, b)
    BY <2>5, <2>6, <2>7 DEF DifferIn
  <2>9. SumFunction(after) = SumFunction(sh) - a + b /\ SumFunction(sh) \in Int
    BY <2>8, SumOneChanged
  <2>10. SumFunction(after) = SumFunction(sh) - q
    BY <1>1, <2>9, <2>a, <2>b
  <2>11. SumFunction(after) \in Nat
    <3>1. \A k \in D : after[k] >= 0
      BY <2>3, <2>D, ElementOfSeq
    <3> QED BY <2>5, <3>1, SumNat
  <2> QED BY <1>1, <1>5, <2>3, <2>4, <2>10, <2>11
<1> QED BY <1>4, <1>5

\* What the parts of a side promise of the orders behind the cursor, after the trade.
Kept(os, new, ids, left, n, m, sh, after, q) ==
    /\ m \in Nat \ {0} /\ Fits(new, left, m, after)
    /\ Whole(os, ids, n, sh) => Whole(new, left, m, after)
    /\ \A t \in Int : InTurn(sh, t) => InTurn(after, t - q)
PlaceAfter(sh, q, o, n) == IF sh[1] = q /\ o.size # 0 THEN n + 1 ELSE n

(***************************************************************************)
(* The parts still fit the orders behind the cursor.                        *)
(***************************************************************************)
LEMMA TradedParts ==
    ASSUME NEW os, NEW new, NEW s, NEW levels, NEW n \in Nat \ {0}, NEW id, NEW q,
           Trades(os, new, s, id, q), Standing(os, s, levels), InFirst(s, levels, n, id),
           NEW lw, lw = TradedLevel(levels, n, new, q),
           NEW sh \in Seq(Nat), sh # <<>>, q <= sh[1], Fits(os, levels[1].ids, n, sh),
           NEW after, after = PartsAfter(sh, q), NEW m, m = PlaceAfter(sh, q, new[id], n)
    PROVE  Kept(os, new, levels[1].ids, lw.ids, n, m, sh, after, q)
<1>i. PICK ids : ids = levels[1].ids
  OBVIOUS
<1>l. PICK left : left = lw.ids
  OBVIOUS
<1>1. FirstFacts(os, new, s, levels[1], n, id, q)
  BY FirstLevel
<1>2. /\ ids \in Seq(Nat) /\ DOMAIN ids = 1..Len(ids) /\ Len(ids) \in Nat
      /\ n \in DOMAIN ids /\ ids[n] = id
      /\ \A j \in DOMAIN ids : /\ os[ids[j]].size \in Nat /\ os[ids[j]].size > 0
                               /\ new[ids[j]].size = IF j = n THEN os[id].size - q ELSE os[ids[j]].size
  BY <1>1, <1>i DEF FirstFacts
<1>3. /\ new[id].size = os[id].size - q /\ os[id].size \in Nat /\ new[id].size \in Nat /\ q \in Nat
  <2>1. new[id] \in OrderRec /\ new[id].size = os[id].size - q /\ q \in Nat
    BY LenProperties, ElementOfSeq DEF Trades
  <2> QED BY <1>2, <2>1 DEF OrderRec
<1>4. left = IF new[id].size = 0 THEN RemoveAt(ids, n) ELSE ids
  BY <1>2, <1>i, <1>l DEF TradedLevel
<1>5. /\ after \in Seq(Nat) /\ Len(sh) \in Nat \ {0}
      /\ DOMAIN sh = 1..Len(sh) /\ DOMAIN after = 1..Len(after)
      /\ sh[1] = q => /\ Len(after) = Len(sh) - 1
                      /\ \A k \in 1..(Len(sh) - 1) : after[k] = sh[k + 1]
      /\ sh[1] # q => /\ Len(after) = Len(sh)
                      /\ \A k \in 1..Len(sh) : after[k] = IF k = 1 THEN sh[1] - q ELSE sh[k]
      /\ SumFunction(after) = SumFunction(sh) - q
  <2>1. q \in Nat
    BY <1>3
  <2> QED BY SMTT(60), <2>1, PartsShrink
<1>6. Len(ids) = n - 1 + Len(sh) /\ \A k \in 1..Len(sh) : sh[k] <= os[ids[n - 1 + k]].size
  BY Zenon, <1>5, <1>i DEF Fits
<1>7. \A k \in 1..Len(sh) : sh[k] \in Nat
  BY SMTT(60), ElementOfSeq
<1>0. Len(sh) \in Nat /\ Len(sh) # 0 /\ Len(after) \in Nat
  BY Zenon, <1>5, LenProperties
<1>8. sh[1] <= os[id].size /\ sh[1] \in Nat
  <2>1. 1 \in 1..Len(sh)
    BY <1>0
  <2>2. n - 1 + 1 = n
    OBVIOUS
  <2>3. sh[1] <= os[ids[n - 1 + 1]].size
    BY <1>6, <2>1
  <2> QED BY <1>2, <1>7, <2>1, <2>2, <2>3
<1>9. new[id].size = 0 => sh[1] = q
  BY <1>3, <1>8
<1>10. m \in Nat \ {0} /\ m = IF sh[1] = q /\ new[id].size # 0 THEN n + 1 ELSE n
  BY DEF PlaceAfter
\* The orders behind the cursor.
<1>11. \A k \in 1..Len(sh) : n - 1 + k \in DOMAIN ids /\ (k # 1 => n - 1 + k # n)
  <2>1. Len(ids) = n - 1 + Len(sh) /\ DOMAIN ids = 1..Len(ids)
    BY <1>2, <1>6
  <2> QED BY <1>0, <2>1
<1>12. \A k \in 1..Len(sh) : new[ids[n - 1 + k]].size = IF k = 1 THEN os[id].size - q ELSE os[ids[n - 1 + k]].size
  <2> SUFFICES ASSUME NEW k \in 1..Len(sh)
               PROVE  new[ids[n - 1 + k]].size = IF k = 1 THEN os[id].size - q ELSE os[ids[n - 1 + k]].size
    OBVIOUS
  <2>1. n - 1 + k \in DOMAIN ids /\ (k = 1 <=> n - 1 + k = n)
    BY <1>11
  <2> QED BY <1>2, <2>1
<1>13. CASE sh[1] = q
  <2>1. Len(left) = m - 1 + Len(after) /\ \A k \in 1..Len(after) : left[m - 1 + k] = ids[n + k]
    <3>1. CASE new[id].size = 0
      <4>1. left = RemoveAt(ids, n) /\ m = n
        BY <1>4, <1>10, <3>1
      <4>2. IsWithout(os, ids, n, left)
        <5>1. ids \in Seq(Nat) /\ n \in DOMAIN ids
          BY <1>2
        <5> QED BY <4>1, <5>1, Without
      <4>3. left \in Seq(Nat) /\ Len(left) = Len(ids) - 1
            /\ \A j \in DOMAIN left : left[j] = IF j < n THEN ids[j] ELSE ids[j + 1]
        BY <4>2 DEF IsWithout
      <4>4. DOMAIN left = 1..(Len(ids) - 1)
        BY <4>3, LenProperties
      <4>5. Len(left) = m - 1 + Len(after) /\ Len(after) = Len(sh) - 1
        BY <1>5, <1>6, <1>13, <4>1, <4>3
      <4>6. ASSUME NEW k \in 1..Len(after) PROVE left[m - 1 + k] = ids[n + k]
        <5>j. PICK j : j = n - 1 + k
          OBVIOUS
        <5>1. j \in 1..(Len(ids) - 1) /\ ~(j < n) /\ j + 1 = n + k
          <6>1. Len(ids) = n - 1 + Len(sh) /\ Len(after) = Len(sh) - 1
            BY <1>6, <4>5
          <6> QED BY <1>0, <5>j, <6>1
        <5>2. left[j] = ids[j + 1]
          BY <4>3, <4>4, <5>1
        <5> QED BY <4>1, <5>1, <5>2, <5>j
      <4> QED BY <4>5, <4>6
    <3>2. CASE new[id].size # 0
      <4>1. left = ids /\ m = n + 1
        BY <1>4, <1>10, <1>13, <3>2
      <4>2. m - 1 = n
        BY <4>1
      <4> QED BY <1>5, <1>6, <1>13, <4>1, <4>2
    <3> QED BY <3>1, <3>2
  <2>2. Len(after) = Len(sh) - 1 /\ \A k \in 1..Len(after) : after[k] = sh[k + 1]
    BY <1>5, <1>13
  <2>3. ASSUME NEW k \in 1..Len(after)
        PROVE  after[k] <= new[left[m - 1 + k]].size
               /\ (sh[k + 1] = os[ids[n + k]].size => after[k] = new[left[m - 1 + k]].size)
    <3>1. k + 1 \in 1..Len(sh) /\ n - 1 + (k + 1) = n + k /\ k + 1 # 1
      <4>1. Len(after) = Len(sh) - 1
        BY <2>2
      <4> QED BY <1>0, <4>1
    <3>2. new[ids[n + k]].size = os[ids[n + k]].size
      BY <1>12, <3>1
    <3>3. sh[k + 1] <= os[ids[n + k]].size
      BY <1>6, <3>1
    <3> QED BY <2>1, <2>2, <3>2, <3>3
  <2>4. Fits(new, left, m, after)
    BY ZenonT(60), <1>5, <2>1, <2>3 DEF Fits
  <2>5. ASSUME Whole(os, ids, n, sh) PROVE Whole(new, left, m, after)
    <3>1. n = 1 /\ \A k \in 1..Len(sh) : sh[k] = os[ids[k]].size
      BY Zenon, <1>5, <2>5 DEF Whole
    <3>2. m = 1
      <4>1. 1 \in 1..Len(sh)
        BY <1>0
      <4>2. sh[1] = os[id].size
        BY <1>2, <3>1, <4>1
      <4>3. new[id].size = 0
        BY <1>3, <1>13, <4>2
      <4> QED BY <1>10, <3>1, <4>3
    <3>3. ASSUME NEW k \in 1..Len(after) PROVE after[k] = new[left[k]].size
      <4>0. Len(after) = Len(sh) - 1 /\ n = 1
        BY <2>2, <3>1
      <4>1. k + 1 \in 1..Len(sh) /\ n + k = k + 1 /\ m - 1 + k = k
        BY <1>0, <3>2, <4>0
      <4>2. sh[k + 1] = os[ids[n + k]].size
        BY <3>1, <4>1
      <4> QED BY <2>3, <4>1, <4>2
    <3> QED BY ZenonT(60), <1>5, <3>2, <3>3 DEF Whole
  <2>6. ASSUME NEW t \in Int, InTurn(sh, t) PROVE InTurn(after, t - q)
    <3>1. SumFunction(after) = t - q
      BY Zenon, <1>5, <2>6 DEF InTurn
    <3>2. ASSUME NEW i \in 1..Len(after), NEW j \in 1..Len(after), i < j, after[i] = 0 PROVE after[j] = 0
      <4>0. Len(after) = Len(sh) - 1
        BY <2>2
      <4>1. i + 1 \in 1..Len(sh) /\ j + 1 \in 1..Len(sh) /\ i + 1 < j + 1
        BY <1>0, <3>2, <4>0
      <4>2. sh[i + 1] = 0
        BY SMTT(60), <2>2, <3>2
      <4>3. sh[j + 1] = 0
        BY ZenonT(60), <1>5, <2>6, <4>1, <4>2 DEF InTurn
      <4> QED BY <2>2, <4>3
    <3> QED BY ZenonT(60), <1>5, <3>1, <3>2 DEF InTurn
  <2> QED BY <1>10, <1>i, <1>l, <2>4, <2>5, <2>6 DEF Kept
<1>14. CASE sh[1] # q
  <2>1. left = ids /\ m = n
    BY <1>4, <1>9, <1>10, <1>14
  <2>2. Len(after) = Len(sh) /\ \A k \in 1..Len(sh) : after[k] = IF k = 1 THEN sh[1] - q ELSE sh[k]
    BY Zenon, <1>5, <1>14
  <2>3. ASSUME NEW k \in 1..Len(sh)
        PROVE  after[k] <= new[ids[n - 1 + k]].size
               /\ (sh[k] = os[ids[n - 1 + k]].size => after[k] = new[ids[n - 1 + k]].size)
    <3>1. CASE k = 1
      <4>1. n - 1 + k = n /\ ids[n - 1 + k] = id
        BY <1>2, <3>1
      <4>2. after[k] = sh[1] - q /\ sh[k] = sh[1]
        BY <2>2, <3>1
      <4> QED BY SMTT(60), <1>3, <1>8, <4>1, <4>2
    <3>2. CASE k # 1
      <4>1. new[ids[n - 1 + k]].size = os[ids[n - 1 + k]].size /\ after[k] = sh[k]
        BY <1>12, <2>2, <3>2
      <4> QED BY <1>6, <4>1
    <3> QED BY <3>1, <3>2
  <2>4. Fits(new, left, m, after)
    <3>1. Len(left) = m - 1 + Len(after)
      BY <1>6, <2>1, <2>2
    <3> QED BY ZenonT(60), <1>5, <2>1, <2>2, <2>3, <3>1 DEF Fits
  <2>5. ASSUME Whole(os, ids, n, sh) PROVE Whole(new, left, m, after)
    <3>1. n = 1 /\ \A k \in 1..Len(sh) : sh[k] = os[ids[k]].size
      BY <1>5, <2>5 DEF Whole
    <3>2. ASSUME NEW k \in 1..Len(sh) PROVE after[k] = new[ids[k]].size
      <4>1. n - 1 + k = k
        BY SMTT(60), <3>1
      <4> QED BY <2>3, <3>1, <4>1
    <3> QED BY <1>5, <2>1, <2>2, <3>1, <3>2 DEF Whole
  <2>6. ASSUME NEW t \in Int, InTurn(sh, t) PROVE InTurn(after, t - q)
    <3>1. SumFunction(after) = t - q
      BY <1>5, <2>6 DEF InTurn
    <3>2. ASSUME NEW i \in 1..Len(sh), NEW j \in 1..Len(sh), i < j, after[i] = 0 PROVE after[j] = 0
      <4>1. i # 1
        <5>1. sh[1] - q # 0
          BY SMTT(60), <1>3, <1>8, <1>14
        <5> QED BY <2>2, <3>2, <5>1
      <4>2. sh[i] = 0 /\ j # 1
        <5>1. j # 1
          BY <3>2
        <5> QED BY <2>2, <3>2, <4>1, <5>1
      <4>3. sh[j] = 0
        BY Zenon, <1>5, <2>6, <3>2, <4>2 DEF InTurn
      <4> QED BY <2>2, <4>2, <4>3
    <3> QED BY <1>5, <2>2, <3>1, <3>2 DEF InTurn
  <2> QED BY <1>10, <1>i, <1>l, <2>4, <2>5, <2>6 DEF Kept
<1> QED BY <1>13, <1>14

(***************************************************************************)
(* The orders of a level are in the book: on its side, at its price, and    *)
(* with shares left.                                                        *)
(***************************************************************************)
LEMMA OrderInLevel ==
    ASSUME NEW os \in Seq(OrderRec), NEW s, NEW levels, Standing(os, s, levels),
           NEW l \in DOMAIN levels, NEW j \in DOMAIN levels[l].ids, NEW id, id = levels[l].ids[j]
    PROVE  /\ id \in DOMAIN os /\ id \in Nat /\ os[id] \in OrderRec
           /\ os[id].side = s /\ os[id].price = levels[l].price
           /\ os[id].size \in Nat /\ os[id].size > 0 /\ os[id].size <= levels[l].size
           /\ levels[l].size \in Nat /\ levels[l].price \in Nat
<1>v. PICK lv : lv = levels[l]
  OBVIOUS
<1>1. lv \in Range(levels) /\ id \in Range(lv.ids)
  BY <1>v DEF Range
<1>2. ExactLevel(os, s, lv)
  BY <1>1 DEF Standing, ExactSide
<1>3. /\ lv.size \in Nat
      /\ id \in DOMAIN os /\ os[id].size > 0 /\ os[id].side = s /\ os[id].price = lv.price
      /\ os[id].size <= lv.size
  BY <1>1, <1>2, ExactSize
<1>4. os[id] \in OrderRec /\ id \in Nat
  BY <1>3, LenProperties, ElementOfSeq
<1>5. os[id].size \in Nat /\ os[id].price \in Nat
  BY <1>4 DEF OrderRec
<1> QED BY <1>3, <1>4, <1>5, <1>v

\* The order under the cursor of a side whose parts are not used up.
Current(s) == book[s][1].ids[pos[s]]
Cursor(s) ==
    /\ shares[s] \in Seq(Nat) /\ shares[s][1] \in Nat /\ pos[s] \in Nat \ {0}
    /\ InFirst(s, book[s], pos[s], Current(s)) /\ Fits(orders, book[s][1].ids, pos[s], shares[s])
    /\ Current(s) \in DOMAIN orders /\ Current(s) \in Nat
    /\ orders[Current(s)] \in OrderRec /\ orders[Current(s)].size \in Nat
    /\ orders[Current(s)].side = s /\ orders[Current(s)].price = book[s][1].price
    /\ shares[s][1] <= orders[Current(s)].size
    /\ Standing(orders, s, book[s])
    /\ book[s][1].ids # <<>> /\ book[s][1].price \in Nat

(***************************************************************************)
(* The cursor of a side whose parts are not used up is at an order that is  *)
(* in the book.                                                             *)
(***************************************************************************)
LEMMA AtCursor ==
    ASSUME Basis, Parts, Trading, NEW s \in Sides, shares[s] # <<>>
    PROVE  Cursor(s)
<1>i. PICK ids : ids = book[s][1].ids
  OBVIOUS
<1>n. PICK n : n = pos[s]
  OBVIOUS
<1>1. shares[s] \in Seq(Nat) /\ n \in Nat \ {0} /\ orders \in Seq(OrderRec) /\ Standing(orders, s, book[s])
  BY <1>n DEF Basis, AuctionTypes, BookInv, Known
<1>2. book[s] # <<>> /\ Fits(orders, ids, n, shares[s])
  BY <1>i, <1>n DEF Parts
<1>3. DOMAIN shares[s] = 1..Len(shares[s]) /\ Len(shares[s]) \in Nat /\ Len(shares[s]) # 0
  BY <1>1, LenProperties, EmptySeq
<1>4. 1 \in DOMAIN shares[s] /\ shares[s][1] \in Nat
  <2>1. 1 \in 1..Len(shares[s])
    BY <1>3
  <2> QED BY <1>1, <1>3, <2>1, ElementOfSeq
<1>5. 1 \in DOMAIN book[s] /\ book[s][1] \in LevelRec
  <2>1. book[s] \in Seq(LevelRec)
    BY <1>1 DEF Standing
  <2>2. DOMAIN book[s] = 1..Len(book[s]) /\ Len(book[s]) \in Nat /\ Len(book[s]) # 0
    BY <1>2, <2>1, LenProperties, EmptySeq
  <2>3. 1 \in 1..Len(book[s])
    BY <2>2
  <2> QED BY <2>1, <2>2, <2>3, ElementOfSeq
<1>6. ids \in Seq(Nat) /\ DOMAIN ids = 1..Len(ids) /\ Len(ids) \in Nat /\ book[s][1].price \in Nat
  <2>1. ids \in Seq(Nat) /\ book[s][1].price \in Nat
    BY <1>5, <1>i DEF LevelRec
  <2> QED BY <2>1, LenProperties
<1>7. Len(ids) = n - 1 + Len(shares[s]) /\ shares[s][1] <= orders[ids[n]].size
  <2>1. n - 1 + 1 = n
    BY <1>1
  <2>2. Len(ids) = n - 1 + Len(shares[s]) /\ shares[s][1] <= orders[ids[n - 1 + 1]].size
    BY <1>2, <1>4 DEF Fits
  <2> QED BY <2>1, <2>2
<1>8. n \in DOMAIN ids
  <2>1. n \in 1..Len(ids)
    BY <1>1, <1>3, <1>6, <1>7
  <2> QED BY <1>6, <2>1
<1>9. /\ ids[n] \in DOMAIN orders /\ ids[n] \in Nat /\ orders[ids[n]] \in OrderRec
      /\ orders[ids[n]].side = s /\ orders[ids[n]].price = book[s][1].price
      /\ orders[ids[n]].size \in Nat
  <2>1. PICK id : id = ids[n]
    OBVIOUS
  <2>2. /\ id \in DOMAIN orders /\ id \in Nat /\ orders[id] \in OrderRec
        /\ orders[id].side = s /\ orders[id].price = book[s][1].price
        /\ orders[id].size \in Nat
    BY <1>1, <1>5, <1>8, <1>i, <2>1, OrderInLevel
  <2> QED BY <2>1, <2>2
<1>10. ids # <<>>
  BY <1>8
<1>11. InFirst(s, book[s], n, ids[n])
  BY <1>2, <1>8, <1>i DEF InFirst
<1> QED BY <1>1, <1>2, <1>4, <1>6, <1>7, <1>9, <1>10, <1>11, <1>i, <1>n DEF Cursor, Current

\* What MatchPair does to side s.
SideMatched(s, q) ==
    /\ q \in Nat /\ q <= shares[s][1]
    /\ Trades(orders, orders', s, Current(s), q)
    /\ book'[s] = ReplaceAt(book[s], 1, TradedLevel(book[s], pos[s], orders', q))
    /\ shares'[s] = PartsAfter(shares[s], q)
    /\ pos'[s] = PlaceAfter(shares[s], q, orders'[Current(s)], pos[s])

(***************************************************************************)
(* The orders under the two cursors trade, and no other changes.            *)
(***************************************************************************)
LEMMA MatchSides ==
    ASSUME Basis, Parts, MatchPair, NEW q, q = Least(shares["bid"][1], shares["ask"][1])
    PROVE  /\ \A s \in Sides : Cursor(s) /\ SideMatched(s, q)
           /\ Known(orders') /\ DOMAIN orders' = DOMAIN orders
           /\ \A i \in DOMAIN orders : /\ orders'[i].price = orders[i].price
                                       /\ orders'[i].size = orders[i].size
                                            - (IF i \in {Current("bid"), Current("ask")} THEN q ELSE 0)
<1>b. PICK b : b = Current("bid")
  OBVIOUS
<1>a. PICK a : a = Current("ask")
  OBVIOUS
<1>1. Cursor("bid") /\ Cursor("ask")
  <2>1. Trading /\ shares["bid"] # <<>> /\ shares["ask"] # <<>>
    BY DEF MatchPair, Trading, Sides
  <2> QED BY <2>1, AtCursor DEF Sides
<1>2. /\ b \in DOMAIN orders /\ a \in DOMAIN orders
      /\ orders[b].side = "bid" /\ orders[a].side = "ask"
      /\ orders[b].size \in Nat /\ orders[a].size \in Nat
      /\ shares["bid"][1] \in Nat /\ shares["ask"][1] \in Nat
      /\ shares["bid"][1] <= orders[b].size /\ shares["ask"][1] <= orders[a].size
  BY <1>1, <1>a, <1>b DEF Cursor
<1>3. /\ q \in Nat /\ q <= shares["bid"][1] /\ q <= shares["ask"][1]
      /\ q <= orders[b].size /\ q <= orders[a].size
  BY <1>2 DEF Least
<1>4. orders' = [i \in DOMAIN orders |-> IF i \in {b, a} THEN [orders[i] EXCEPT !.size = @ - q] ELSE orders[i]]
  BY <1>a, <1>b DEF MatchPair, Current, First, Sides
<1>5. orders \in Seq(OrderRec) /\ \A i \in DOMAIN orders : Priced(orders[i])
  BY DEF Basis, BookInv, Known
<1>6. DOMAIN orders = 1..Len(orders) /\ Len(orders) \in Nat /\ \A i \in DOMAIN orders : orders[i] \in OrderRec
  BY <1>5, LenProperties, ElementOfSeq
<1>7. ASSUME NEW i \in DOMAIN orders
      PROVE  /\ orders'[i] = (IF i \in {b, a} THEN [orders[i] EXCEPT !.size = @ - q] ELSE orders[i])
             /\ orders'[i] \in OrderRec
             /\ orders'[i].kind = orders[i].kind /\ orders'[i].side = orders[i].side
             /\ orders'[i].price = orders[i].price /\ orders'[i].counter = orders[i].counter
             /\ orders'[i].size = orders[i].size - (IF i \in {b, a} THEN q ELSE 0)
  <2>o. PICK o : o = orders[i]
    OBVIOUS
  <2>1. o \in OrderRec /\ o.size \in Nat
    <3>1. o \in OrderRec
      BY <1>6, <2>o
    <3> QED BY <3>1 DEF OrderRec
  <2>2. orders'[i] = IF i \in {b, a} THEN [o EXCEPT !.size = @ - q] ELSE o
    BY <1>4, <2>o
  <2>3. CASE i \in {b, a}
    <3>1. o.size - q \in Nat
      BY <1>2, <1>3, <2>1, <2>3, <2>o
    <3>2. orders'[i] = [o EXCEPT !.size = o.size - q]
      BY <2>2, <2>3
    <3>3. /\ orders'[i] \in OrderRec /\ orders'[i].size = o.size - q
          /\ orders'[i].kind = o.kind /\ orders'[i].side = o.side
          /\ orders'[i].price = o.price /\ orders'[i].counter = o.counter
      BY <2>1, <3>1, <3>2 DEF OrderRec
    <3> QED BY <2>2, <2>3, <2>o, <3>3
  <2>4. CASE i \notin {b, a}
    <3>1. orders'[i] = o
      BY <2>2, <2>4
    <3> QED BY <2>1, <2>2, <2>4, <2>o, <3>1
  <2> QED BY <2>3, <2>4
<1>8. DOMAIN orders' = DOMAIN orders
  BY <1>4
<1>9. orders' \in Seq(OrderRec)
  <2>1. orders' \in [1..Len(orders) -> OrderRec]
    <3>1. orders' = [i \in 1..Len(orders) |-> orders'[i]]
      BY <1>4, <1>6
    <3> QED BY <1>6, <1>7, <3>1
  <2> QED BY <1>6, <2>1
<1>10. Known(orders')
  <2>1. \A i \in DOMAIN orders' : Priced(orders'[i])
    BY <1>5, <1>7, <1>8 DEF Priced
  <2> QED BY <1>9, <2>1 DEF Known
<1>11. ASSUME NEW s \in Sides PROVE Trades(orders, orders', s, Current(s), q)
  <2>i. PICK id : id = Current(s)
    OBVIOUS
  <2>1. (s = "bid" /\ id = b) \/ (s = "ask" /\ id = a)
    BY <1>a, <1>b, <2>i DEF Sides
  <2>2. id \in DOMAIN orders /\ id \in {b, a}
    BY <1>2, <2>1
  <2>3. \A j \in OfSide(orders, s) \ {id} : j \in DOMAIN orders /\ j \notin {b, a}
    BY <1>2, <2>1 DEF OfSide
  <2>4. AgreeBut(orders, orders', s, id)
    <3>1. OfSide(orders', s) = OfSide(orders, s)
      BY <1>7, <1>8 DEF OfSide
    <3>2. \A j \in OfSide(orders, s) \ {id} : orders'[j] = orders[j]
      BY <1>7, <2>3
    <3> QED BY <3>1, <3>2 DEF AgreeBut
  <2>5. orders'[id].size = orders[id].size - q /\ orders'[id].side = orders[id].side
        /\ orders'[id].price = orders[id].price
    BY <1>7, <2>2
  <2> QED BY <1>3, <1>5, <1>7, <1>8, <1>9, <2>2, <2>4, <2>5, <2>i DEF Trades
<1>12. ASSUME NEW s \in Sides PROVE SideMatched(s, q)
  <2>i. PICK id : id = Current(s)
    OBVIOUS
  <2>1. (s = "bid" /\ id = b) \/ (s = "ask" /\ id = a)
    BY <1>a, <1>b, <2>i DEF Sides
  <2>2. orders[id].size \in Nat /\ orders'[id].size = orders[id].size - q /\ id = First(s).ids[pos[s]]
    BY <1>2, <1>7, <2>1, <2>i DEF Current, First
  <2>3. shares[s][1] <= orders[id].size /\ shares[s][1] \in Nat /\ q <= shares[s][1]
    BY <1>2, <1>3, <2>1
  <2>4. PartDone(s, q) /\ OrderDone(s, q) <=> orders'[id].size = 0
    <3>1. PartDone(s, q) <=> shares[s][1] = q
      BY DEF PartDone
    <3>2. OrderDone(s, q) <=> orders[id].size = q
      BY <2>2 DEF OrderDone, OrderAt
    <3> QED BY <1>3, <2>2, <2>3, <3>1, <3>2
  <2>5. book'[s] = ReplaceAt(book[s], 1, LevelAfter(s, q))
    BY DEF MatchPair
  <2>6. LevelAfter(s, q) = TradedLevel(book[s], pos[s], orders', q)
    <3>v. PICK lv : lv = book[s][1]
      OBVIOUS
    <3>1. lv \in LevelRec
      <4>1. 1 \in DOMAIN book[s] /\ book[s] \in Seq(LevelRec)
        <5>1. book[s] \in Seq(LevelRec) /\ book[s] # <<>>
          BY <1>1 DEF Cursor, Standing, InFirst, Sides
        <5>2. DOMAIN book[s] = 1..Len(book[s]) /\ Len(book[s]) \in Nat /\ Len(book[s]) # 0
          BY <5>1, LenProperties, EmptySeq
        <5>3. 1 \in 1..Len(book[s])
          BY <5>2
        <5> QED BY <5>1, <5>2, <5>3
      <4> QED BY <3>v, <4>1, LenProperties, ElementOfSeq
    <3>2. id = lv.ids[pos[s]]
      BY <2>2, <3>v DEF First
    <3>3. LevelAfter(s, q) = [lv EXCEPT !.size = @ - q,
                                        !.ids = IF orders'[id].size = 0 THEN RemoveAt(@, pos[s]) ELSE @]
      BY <2>4, <3>v DEF LevelAfter, First
    <3>4. LevelAfter(s, q) = [price |-> lv.price, size |-> lv.size - q,
                              ids |-> IF orders'[id].size = 0 THEN RemoveAt(lv.ids, pos[s]) ELSE lv.ids]
      BY <3>1, <3>3 DEF LevelRec
    <3> QED BY <3>2, <3>4, <3>v DEF TradedLevel
  <2>7. shares'[s] = PartsAfter(shares[s], q)
    BY DEF MatchPair, PartDone, PartsAfter
  <2>8. pos'[s] = IF PartDone(s, q) /\ ~OrderDone(s, q) THEN pos[s] + 1 ELSE pos[s]
    BY DEF MatchPair
  <2>9. pos'[s] = PlaceAfter(shares[s], q, orders'[id], pos[s])
    <3>1. PartDone(s, q) <=> shares[s][1] = q
      BY DEF PartDone
    <3>2. PartDone(s, q) /\ ~OrderDone(s, q) <=> shares[s][1] = q /\ orders'[id].size # 0
      BY <2>4, <3>1
    <3> QED BY <2>8, <3>2 DEF PlaceAfter
  <2>10. Trades(orders, orders', s, id, q)
    BY <1>11, <2>i
  <2> QED BY <1>3, <2>3, <2>5, <2>6, <2>7, <2>9, <2>10, <2>i DEF SideMatched
<1>13. \A s \in Sides : Cursor(s)
  BY <1>1 DEF Sides
<1> QED BY <1>7, <1>8, <1>10, <1>12, <1>13, <1>a, <1>b

(***************************************************************************)
(* The sum of parts.                                                        *)
(***************************************************************************)
LEMMA SumOfParts ==
    ASSUME NEW sh \in Seq(Nat)
    PROVE  /\ SumFunction(sh) \in Nat
           /\ \A k \in DOMAIN sh : sh[k] \in Nat /\ sh[k] <= SumFunction(sh)
           /\ (\A k \in DOMAIN sh : sh[k] = 0) => SumFunction(sh) = 0
<1>D. PICK D : D = DOMAIN sh
  OBVIOUS
<1>1. DOMAIN sh = 1..Len(sh) /\ Len(sh) \in Nat
  BY LenProperties
<1>2. \A k \in D : sh[k] \in Nat
  BY <1>1, <1>D, ElementOfSeq
<1>3. IsFiniteSet(D) /\ sh \in [D -> Int] /\ \A k \in D : sh[k] >= 0
  <2>1. IsFiniteSet(D)
    BY <1>1, <1>D, FS_Interval
  <2>2. sh = [k \in D |-> sh[k]]
    BY <1>1, <1>D
  <2>3. \A k \in D : sh[k] \in Int /\ sh[k] >= 0
    BY <1>2
  <2> QED BY <2>1, <2>2, <2>3
<1>4. SumFunction(sh) \in Nat /\ \A k \in D : sh[k] <= SumFunction(sh)
  BY <1>3, SumNat
<1>5. ASSUME \A k \in D : sh[k] = 0 PROVE SumFunction(sh) = 0
  BY <1>3, <1>5, SumZero
<1> QED BY <1>2, <1>4, <1>5, <1>D

\* Of the shares still to be executed, the pair at the cursors gets some, at a price that suits both.
Suits(q) ==
    /\ q \in Nat /\ q > 0 /\ total \in Nat /\ q <= total
    /\ \A s \in Sides : /\ ~Better(s, price, book[s][1].price)
                        /\ SumFunction(shares[s]) \in Nat

(***************************************************************************)
(* The bid and the ask under the cursors trade at least one share.          *)
(***************************************************************************)
LEMMA PairSuits ==
    ASSUME Basis, Parts, Enough, MatchPair, NEW q, q = Least(shares["bid"][1], shares["ask"][1])
    PROVE  Suits(q)
<1>0. phase = "match" /\ Trading /\ total \in Nat /\ price \in Nat
  BY DEF MatchPair, Trading, Basis, AuctionTypes
<1>1. ASSUME NEW s \in Sides PROVE Cursor(s)
  <2>1. shares[s] # <<>>
    BY DEF MatchPair
  <2> QED BY <1>0, <2>1, AtCursor
<1>2. ASSUME NEW s \in Sides
      PROVE  /\ SumFunction(shares[s]) \in Nat /\ shares[s][1] \in Nat
             /\ shares[s][1] <= SumFunction(shares[s]) /\ SumFunction(shares[s]) <= total
             /\ (Whole(orders, book[s][1].ids, pos[s], shares[s]) => shares[s][1] > 0)
             /\ (total > 0 => shares[s][1] > 0)
             /\ OfferedIn(s, book[s], price) \in Nat
             /\ (Better(s, price, book[s][1].price) => OfferedIn(s, book[s], price) = 0)
  <2>1. shares[s] \in Seq(Nat) /\ shares[s] # <<>> /\ Cursor(s)
    BY <1>1 DEF Cursor, MatchPair
  <2>2. DOMAIN shares[s] = 1..Len(shares[s]) /\ Len(shares[s]) \in Nat /\ Len(shares[s]) # 0
    BY <2>1, LenProperties, EmptySeq
  <2>3. 1 \in DOMAIN shares[s]
    <3>1. 1 \in 1..Len(shares[s])
      BY <2>2
    <3> QED BY <2>2, <3>1
  <2>4. /\ SumFunction(shares[s]) \in Nat
        /\ shares[s][1] \in Nat /\ shares[s][1] <= SumFunction(shares[s])
        /\ (\A k \in DOMAIN shares[s] : shares[s][k] = 0) => SumFunction(shares[s]) = 0
    BY <2>1, <2>3, SumOfParts
  <2>5. \/ Whole(orders, book[s][1].ids, pos[s], shares[s]) /\ SumFunction(shares[s]) <= total
        \/ InTurn(shares[s], total)
    BY <1>0, <2>1 DEF Parts, IsDivided
  <2>6. SumFunction(shares[s]) <= total
    BY <1>0, <2>4, <2>5 DEF InTurn
  <2>7. ASSUME Whole(orders, book[s][1].ids, pos[s], shares[s]) PROVE shares[s][1] > 0
    <3>1. shares[s][1] = orders[book[s][1].ids[1]].size /\ pos[s] = 1
      BY <2>3, <2>7 DEF Whole
    <3>2. /\ orders \in Seq(OrderRec) /\ Standing(orders, s, book[s])
          /\ 1 \in DOMAIN book[s] /\ 1 \in DOMAIN book[s][1].ids
      <4>1. orders \in Seq(OrderRec) /\ Standing(orders, s, book[s])
        BY DEF Basis, BookInv, Known
      <4>2. book[s] # <<>> /\ book[s] \in Seq(LevelRec) /\ 1 \in DOMAIN book[s][1].ids
        BY <2>1, <3>1, <4>1 DEF Cursor, InFirst, Standing
      <4>3. Len(book[s]) \in Nat /\ Len(book[s]) # 0 /\ DOMAIN book[s] = 1..Len(book[s])
        BY <4>2, LenProperties, EmptySeq
      <4>4. 1 \in 1..Len(book[s])
        BY <4>3
      <4> QED BY <4>1, <4>2, <4>3, <4>4
    <3>3. PICK id : id = book[s][1].ids[1]
      OBVIOUS
    <3>4. orders[id].size > 0
      BY <3>2, <3>3, OrderInLevel
    <3> QED BY <3>1, <3>3, <3>4
  <2>8. ASSUME total > 0 PROVE shares[s][1] > 0
    <3>1. CASE Whole(orders, book[s][1].ids, pos[s], shares[s])
      BY <2>7, <3>1
    <3>2. CASE InTurn(shares[s], total)
      <4> SUFFICES ASSUME shares[s][1] = 0 PROVE FALSE
        BY <2>4
      <4>1. ASSUME NEW k \in DOMAIN shares[s] PROVE shares[s][k] = 0
        <5>1. k = 1 \/ 1 < k
          BY <2>2
        <5> QED BY <2>3, <3>2, <5>1 DEF InTurn
      <4> QED BY <2>4, <2>8, <3>2, <4>1 DEF InTurn
    <3> QED BY <2>5, <3>1, <3>2
  <2>9. OfferedIn(s, book[s], price) \in Nat
        /\ (Better(s, price, book[s][1].price) => OfferedIn(s, book[s], price) = 0)
    <3>1. book[s] \in Seq(LevelRec) /\ Ordered(s, book[s])
      BY <2>1 DEF Cursor, Standing, ExactSide
    <3> QED BY <1>0, <3>1, OfferedType, OfferedNothing
  <2> QED BY <2>4, <2>6, <2>7, <2>8, <2>9
<1>3. total > 0
  <2>1. PICK t \in Sides : Tight(t)
    BY <1>0 DEF Enough
  <2>2. Whole(orders, book[t][1].ids, pos[t], shares[t])
    BY <2>1 DEF Tight, MatchPair
  <2> QED BY <1>0, <1>2, <2>2
<1>4. ASSUME NEW s \in Sides PROVE ~Better(s, price, book[s][1].price)
  <2>1. total <= OfferedIn(s, book[s], price)
    BY <1>0 DEF Enough
  <2> QED BY <1>0, <1>2, <1>3, <2>1
<1>5. q \in Nat /\ q > 0 /\ q <= total
  <2>1. shares["bid"][1] \in Nat /\ shares["ask"][1] \in Nat
        /\ shares["bid"][1] > 0 /\ shares["ask"][1] > 0 /\ shares["bid"][1] <= total
    <3>1. "bid" \in Sides /\ "ask" \in Sides
      BY DEF Sides
    <3> QED BY <1>0, <1>2, <1>3, <3>1
  <2> QED BY <1>0, <2>1 DEF Least
<1> QED BY <1>0, <1>2, <1>4, <1>5 DEF Suits

\* A side after the trade of a pair.
AfterTrade(s, q) ==
    /\ Standing(orders', s, book'[s]) /\ book'[s] # <<>>
    /\ book'[s][1].price = book[s][1].price
    /\ \A l \in DOMAIN book'[s] : l \in DOMAIN book[s] /\ (l # 1 => book'[s][l] = book[s][l])
    /\ \A p : p \in {lv.price : lv \in Range(book'[s])} => p \in {lv.price : lv \in Range(book[s])}
    /\ \A p \in Nat : OfferedIn(s, book'[s], p)
                        = OfferedIn(s, book[s], p) - (IF Better(s, p, book[s][1].price) THEN 0 ELSE q)
    /\ shares'[s] \in Seq(Nat) /\ pos'[s] \in Nat \ {0}
    /\ SumFunction(shares'[s]) = SumFunction(shares[s]) - q
    /\ Kept(orders, orders', book[s][1].ids, book'[s][1].ids, pos[s], pos'[s], shares[s], shares'[s], q)

\* MatchPair leaves each of its two sides so.
LEMMA SideAfterTrade ==
    ASSUME NEW s \in Sides, NEW q, Cursor(s), SideMatched(s, q), shares[s] # <<>>
    PROVE  AfterTrade(s, q)
<1>os. PICK os : os = orders
  OBVIOUS
<1>nw. PICK new : new = orders'
  OBVIOUS
<1>bl. PICK levels : levels = book[s]
  OBVIOUS
<1>n. PICK n : n = pos[s]
  OBVIOUS
<1>sh. PICK sh : sh = shares[s]
  OBVIOUS
<1>id. PICK id : id = Current(s)
  OBVIOUS
<1>lw. PICK lw : lw = TradedLevel(levels, n, new, q)
  OBVIOUS
<1>af. PICK after : after = ReplaceAt(levels, 1, lw)
  OBVIOUS
<1>pa. PICK rest : rest = PartsAfter(sh, q)
  OBVIOUS
<1>m. PICK m : m = PlaceAfter(sh, q, new[id], n)
  OBVIOUS
<1>1. /\ Trades(os, new, s, id, q) /\ Standing(os, s, levels) /\ InFirst(s, levels, n, id)
      /\ n \in Nat \ {0} /\ sh \in Seq(Nat) /\ sh # <<>> /\ q <= sh[1] /\ Fits(os, levels[1].ids, n, sh)
      /\ q \in Nat /\ levels \in Seq(LevelRec) /\ levels # <<>>
  BY <1>os, <1>nw, <1>bl, <1>n, <1>sh, <1>id DEF Cursor, SideMatched, InFirst, Standing
<1>2. book'[s] = after /\ shares'[s] = rest /\ pos'[s] = m
  BY <1>os, <1>nw, <1>bl, <1>n, <1>sh, <1>id, <1>lw, <1>af, <1>pa, <1>m DEF SideMatched
<1>3. /\ Standing(new, s, after)
      /\ \A p \in Nat : OfferedIn(s, after, p)
                          = OfferedIn(s, levels, p) - (IF Better(s, p, levels[1].price) THEN 0 ELSE q)
  BY <1>1, <1>lw, <1>af, TradedBook
<1>4. Kept(os, new, levels[1].ids, lw.ids, n, m, sh, rest, q)
  BY <1>1, <1>lw, <1>pa, <1>m, TradedParts
<1>5. rest \in Seq(Nat) /\ SumFunction(rest) = SumFunction(sh) - q
  BY <1>1, <1>pa, PartsShrink
<1>6. lw \in LevelRec /\ lw.price = levels[1].price
  <2>1. Trades(os, new, s, id, q) /\ Standing(os, s, levels) /\ InFirst(s, levels, n, id)
    BY <1>1
  <2>p. PICK top : top = levels[1].price
    OBVIOUS
  <2>2. lw \in LevelRec /\ lw.price = top /\ lw.size = levels[1].size - q
        /\ ExactLevel(new, s, lw) /\ Aged(new, lw.ids)
    BY <2>1, <2>p, <1>lw, TradedExact
  <2> QED BY <2>2, <2>p
<1>7. DOMAIN levels = 1..Len(levels) /\ Len(levels) \in Nat /\ 1 \in DOMAIN levels
  <2>1. DOMAIN levels = 1..Len(levels) /\ Len(levels) \in Nat /\ Len(levels) # 0
    BY <1>1, LenProperties, EmptySeq
  <2>2. 1 \in 1..Len(levels)
    BY <2>1
  <2> QED BY <2>1, <2>2
<1>8. /\ after \in Seq(LevelRec) /\ Len(after) = Len(levels)
      /\ \A j \in 1..Len(levels) : after[j] = IF j = 1 THEN lw ELSE levels[j]
  BY <1>1, <1>6, <1>7, <1>af, ExceptSeq DEF ReplaceAt
<1>9. DOMAIN after = DOMAIN levels /\ after[1] = lw /\ after # <<>>
  <2>1. DOMAIN after = DOMAIN levels /\ after[1] = lw
    BY <1>7, <1>8, LenProperties
  <2> QED BY <1>7, <2>1
<1>10. \A l \in DOMAIN after : l \in DOMAIN levels /\ (l # 1 => after[l] = levels[l])
  BY <1>7, <1>8, <1>9
<1>11. ASSUME NEW p, p \in {lv.price : lv \in Range(after)} PROVE p \in {lv.price : lv \in Range(levels)}
  <2>1. PICK j \in DOMAIN after : p = after[j].price
    BY <1>11 DEF Range
  <2>2. p = levels[j].price /\ j \in DOMAIN levels
    BY <1>6, <1>9, <1>10, <2>1
  <2> QED BY <2>2 DEF Range
<1>12. Kept(os, new, levels[1].ids, after[1].ids, n, m, sh, rest, q)
  BY <1>4, <1>9
<1>13. m \in Nat \ {0}
  BY <1>4 DEF Kept
<1> QED BY <1>2, <1>3, <1>5, <1>6, <1>9, <1>10, <1>11, <1>12, <1>13, <1>os, <1>nw, <1>bl, <1>n, <1>sh
        DEF AfterTrade

(***************************************************************************)
(* The trade of a pair: everything the further lemmas need of it.           *)
(***************************************************************************)
PairTraded(q) ==
    /\ Suits(q) /\ (\A s \in Sides : Cursor(s) /\ AfterTrade(s, q))
    /\ Known(orders') /\ DOMAIN orders' = DOMAIN orders
    /\ \A i \in DOMAIN orders : /\ orders'[i].price = orders[i].price
                                /\ orders'[i].size = orders[i].size
                                     - (IF i \in {Current("bid"), Current("ask")} THEN q ELSE 0)
    /\ total' = total - q /\ total' \in Nat
    /\ phase = "match" /\ phase' = "match" /\ DOMAIN book' = Sides /\ DOMAIN shares' = Sides /\ DOMAIN pos' = Sides
    /\ reports' = Append(reports, Report("2", price, q, Current("bid"), Current("ask")))
    /\ \A s \in Sides : shares[s] # <<>>

\* MatchPair is a trade of the smaller of the two first parts.
LEMMA MatchPairTrades ==
    ASSUME Basis, Parts, Enough, MatchPair, NEW q, q = Least(shares["bid"][1], shares["ask"][1])
    PROVE  PairTraded(q)
<1>1. Suits(q)
  BY PairSuits
<1>2. /\ \A s \in Sides : Cursor(s) /\ SideMatched(s, q)
      /\ Known(orders') /\ DOMAIN orders' = DOMAIN orders
      /\ \A i \in DOMAIN orders : /\ orders'[i].price = orders[i].price
                                  /\ orders'[i].size = orders[i].size
                                       - (IF i \in {Current("bid"), Current("ask")} THEN q ELSE 0)
  BY MatchSides
<1>3. \A s \in Sides : shares[s] # <<>>
  BY DEF MatchPair
<1>4. \A s \in Sides : AfterTrade(s, q)
  BY <1>2, <1>3, SideAfterTrade
<1>5. total' = total - q /\ total' \in Nat
  BY <1>1 DEF MatchPair, Suits
<1>6. /\ phase = "match" /\ phase' = "match"
      /\ DOMAIN book' = Sides /\ DOMAIN shares' = Sides /\ DOMAIN pos' = Sides
  BY DEF MatchPair
<1>7. reports' = Append(reports, Report("2", price, q, Current("bid"), Current("ask")))
  BY DEF MatchPair, Current, First, Sides
<1> QED BY <1>1, <1>2, <1>3, <1>4, <1>5, <1>6, <1>7 DEF PairTraded

\* A trade keeps the book sorted, exact and by age.
LEMMA MatchPairBasis ==
    ASSUME Basis, Parts, Enough, MatchPair
    PROVE  Basis'
<1>q. PICK q : q = Least(shares["bid"][1], shares["ask"][1])
  OBVIOUS
<1>0. PairTraded(q)
  BY <1>q, MatchPairTrades
<1>1. BookInv'
  BY <1>0 DEF PairTraded, AfterTrade, BookInv
<1>2. NoneEmpty'
  <2> SUFFICES ASSUME NEW s \in Sides, NEW l \in DOMAIN book'[s], book'[s][l].ids = <<>>
               PROVE  l = 1 /\ shares'[s] = <<>>
    BY <1>0 DEF NoneEmpty, PairTraded
  <2>1. AfterTrade(s, q) /\ shares[s] # <<>>
    BY <1>0 DEF PairTraded
  <2>2. CASE l # 1
    <3>1. book[s][l].ids = <<>> /\ l \in DOMAIN book[s]
      BY <2>1, <2>2 DEF AfterTrade
    <3> QED BY <2>1, <3>1 DEF Basis, NoneEmpty
  <2>3. CASE l = 1
    <3>1. pos'[s] \in Nat \ {0} /\ shares'[s] \in Seq(Nat) /\ Fits(orders', book'[s][1].ids, pos'[s], shares'[s])
      BY <2>1 DEF AfterTrade, Kept
    <3>2. Len(book'[s][1].ids) = 0
      BY <2>3
    <3>3. 0 = pos'[s] - 1 + Len(shares'[s])
      BY <3>1, <3>2 DEF Fits
    <3>4. Len(shares'[s]) \in Nat
      BY <3>1, LenProperties
    <3>5. Len(shares'[s]) = 0
      BY <3>1, <3>3, <3>4
    <3> QED BY <2>3, <3>1, <3>5, EmptySeq
  <2> QED BY <2>2, <2>3
<1>3. AuctionTypes'
  <2>1. /\ lastPrice' = lastPrice /\ rows' = rows /\ price' = price /\ division' = division
        /\ cancels' = cancels /\ auctions' = auctions
    BY DEF MatchPair
  <2>2. /\ lastPrice \in Nat /\ rows \in SUBSET Nat /\ price \in Nat
        /\ division \in [side: Sides, rest: Nat, counter: Int] /\ cancels \in Nat /\ auctions \in Nat
        /\ reports \in Seq([decision: {"2", "5"}, price: Nat, size: Nat, bid: Nat, ask: Nat])
    BY DEF Basis, AuctionTypes
  <2>3. phase' \in Phases /\ total' \in Int /\ total' >= -1 /\ total' \in Nat
    BY <1>0 DEF PairTraded, Phases
  <2>4. /\ DOMAIN shares' = Sides /\ (\A s \in Sides : shares'[s] \in Seq(Nat))
        /\ DOMAIN pos' = Sides /\ (\A s \in Sides : pos'[s] \in Nat \ {0})
    BY <1>0 DEF PairTraded, AfterTrade
  <2>5. reports' \in Seq([decision: {"2", "5"}, price: Nat, size: Nat, bid: Nat, ask: Nat])
    <3>R. PICK R : R = [decision: {"2", "5"}, price: Nat, size: Nat, bid: Nat, ask: Nat]
      OBVIOUS
    <3>r. PICK r : r = Report("2", price, q, Current("bid"), Current("ask"))
      OBVIOUS
    <3>1. q \in Nat /\ Current("bid") \in Nat /\ Current("ask") \in Nat
      BY <1>0 DEF PairTraded, Suits, Cursor, Sides
    <3>2. r \in R
      BY <2>2, <3>1, <3>R, <3>r DEF Report
    <3>3. reports' = Append(reports, r) /\ reports \in Seq(R)
      BY <1>0, <2>2, <3>R, <3>r DEF PairTraded
    <3>4. reports' \in Seq(R)
      BY <3>2, <3>3, AppendProperties
    <3> QED BY <3>4, <3>R
  <2>6. (lastPrice \in Nat)' /\ (price \in Nat)' /\ (rows \in SUBSET Nat)' /\ (cancels \in Nat)' /\ (auctions \in Nat)'
        /\ (division \in [side: Sides, rest: Nat, counter: Int])'
    BY <2>1, <2>2
  <2> QED BY <2>3, <2>4, <2>5, <2>6 DEF AuctionTypes
<1>4. Quiet' /\ DividedSide'
  BY <1>0 DEF PairTraded, Quiet, DividedSide, Trading
<1> QED BY <1>1, <1>2, <1>3, <1>4 DEF Basis

\* A trade keeps the parts within the orders that are left.
LEMMA MatchPairParts ==
    ASSUME Basis, Parts, Enough, MatchPair
    PROVE  Parts'
<1>q. PICK q : q = Least(shares["bid"][1], shares["ask"][1])
  OBVIOUS
<1>0. PairTraded(q)
  BY <1>q, MatchPairTrades
<1> SUFFICES ASSUME NEW s \in Sides
             PROVE  /\ book'[s] # <<>>
                    /\ Fits(orders', book'[s][1].ids, pos'[s], shares'[s])
                    /\ \/ /\ Whole(orders', book'[s][1].ids, pos'[s], shares'[s])
                          /\ SumFunction(shares'[s]) <= total'
                       \/ InTurn(shares'[s], total')
  BY <1>0 DEF Parts, IsDivided, PairTraded
<1>1. AfterTrade(s, q) /\ total \in Nat /\ q \in Nat /\ total' = total - q /\ SumFunction(shares[s]) \in Nat
  BY <1>0 DEF PairTraded, Suits
<1>2. /\ book'[s] # <<>>
      /\ Kept(orders, orders', book[s][1].ids, book'[s][1].ids, pos[s], pos'[s], shares[s], shares'[s], q)
      /\ SumFunction(shares'[s]) = SumFunction(shares[s]) - q
  BY <1>1 DEF AfterTrade
<1>3. \/ Whole(orders, book[s][1].ids, pos[s], shares[s]) /\ SumFunction(shares[s]) <= total
      \/ InTurn(shares[s], total)
  BY <1>0 DEF Parts, PairTraded, Trading, IsDivided
<1>4. CASE Whole(orders, book[s][1].ids, pos[s], shares[s]) /\ SumFunction(shares[s]) <= total
  <2>1. Whole(orders', book'[s][1].ids, pos'[s], shares'[s])
    BY <1>2, <1>4 DEF Kept
  <2>2. SumFunction(shares'[s]) <= total'
    BY <1>1, <1>2, <1>4
  <2> QED BY <1>2, <2>1, <2>2 DEF Kept
<1>5. CASE InTurn(shares[s], total)
  <2>1. total \in Int
    BY <1>1
  <2>2. InTurn(shares'[s], total - q)
    BY <1>2, <1>5, <2>1 DEF Kept
  <2> QED BY <1>1, <1>2, <2>2 DEF Kept
<1> QED BY <1>3, <1>4, <1>5

\* A trade leaves enough on both sides for the rest, and one side still used up level by level.
LEMMA MatchPairEnough ==
    ASSUME Basis, Parts, Enough, Most, MatchPair
    PROVE  Enough' /\ Most'
<1>q. PICK q : q = Least(shares["bid"][1], shares["ask"][1])
  OBVIOUS
<1>0. PairTraded(q)
  BY <1>q, MatchPairTrades
<1>1. /\ price' = price /\ price \in Nat /\ q \in Nat /\ total \in Nat /\ total' = total - q /\ total' \in Nat
      /\ phase = "match" /\ phase' = "match"
  BY <1>0 DEF PairTraded, Suits, MatchPair, Basis, AuctionTypes
<1>2. ASSUME NEW s \in Sides
      PROVE  /\ AfterTrade(s, q) /\ ~Better(s, price, book[s][1].price)
             /\ book[s] \in Seq(LevelRec) /\ Ordered(s, book[s]) /\ book[s] # <<>>
             /\ \A p \in Nat : OfferedIn(s, book[s], p) \in Nat
             /\ OfferedIn(s, book'[s], price) = OfferedIn(s, book[s], price) - q
  <2>1. AfterTrade(s, q) /\ ~Better(s, price, book[s][1].price) /\ Cursor(s)
    BY <1>0 DEF PairTraded, Suits
  <2>2. book[s] \in Seq(LevelRec) /\ Ordered(s, book[s]) /\ book[s] # <<>>
    BY <2>1 DEF Cursor, Standing, ExactSide, InFirst
  <2>3. \A p \in Nat : OfferedIn(s, book[s], p) \in Nat
    BY <2>2, OfferedType
  <2>4. OfferedIn(s, book'[s], price) = OfferedIn(s, book[s], price) - q
    BY <1>1, <2>1 DEF AfterTrade
  <2> QED BY <2>1, <2>2, <2>3, <2>4
<1>3. Enough'
  <2>1. ASSUME NEW s \in Sides PROVE total' <= OfferedIn(s, book'[s], price)
    <3>1. total <= OfferedIn(s, book[s], price) /\ OfferedIn(s, book[s], price) \in Nat
      BY <1>1, <1>2 DEF Enough, Trading
    <3>2. OfferedIn(s, book'[s], price) = OfferedIn(s, book[s], price) - q
      BY <1>2
    <3> QED BY <1>1, <3>1, <3>2
  <2>2. PICK t \in Sides : Tight(t)
    BY <1>1 DEF Enough, Trading
  <2>3. total' = OfferedIn(t, book'[t], price')
    <3>1. total = OfferedIn(t, book[t], price)
      BY <2>2 DEF Tight
    <3> QED BY <1>1, <1>2, <3>1
  <2>4. Whole(orders', book'[t][1].ids, pos'[t], shares'[t])
    <3>1. Whole(orders, book[t][1].ids, pos[t], shares[t])
      BY <1>0, <2>2 DEF Tight, PairTraded
    <3>2. Kept(orders, orders', book[t][1].ids, book'[t][1].ids, pos[t], pos'[t], shares[t], shares'[t], q)
      BY <1>2 DEF AfterTrade
    <3> QED BY <3>1, <3>2 DEF Kept
  <2>5. Tight(t)'
    BY <1>1, <2>3, <2>4 DEF Tight, IsDivided
  <2> QED BY <1>1, <2>1, <2>5 DEF Enough
<1>4. Most'
  <2> SUFFICES ASSUME NEW p \in PricesOf(book') PROVE \E s \in Sides : OfferedIn(s, book'[s], p) <= total'
    BY DEF Most
  <2>1. p \in PricesOf(book)
    <3>p. PICK r \in Sides : p \in {lv.price : lv \in Range(book'[r])}
      BY DEF PricesOf
    <3>1. AfterTrade(r, q)
      BY <1>2
    <3>2. p \in {lv.price : lv \in Range(book[r])}
      BY <3>p, <3>1 DEF AfterTrade
    <3> QED BY <3>2 DEF PricesOf
  <2>2. PICK s \in Sides : OfferedIn(s, book[s], p) <= total
    BY <1>1, <2>1 DEF Most, Announced, Trading
  <2>3. p \in Nat
    <3>p. PICK r \in Sides : \E lv \in Range(book[r]) : p = lv.price
      BY <2>1 DEF PricesOf
    <3>1. PICK lv \in Range(book[r]) : p = lv.price
      BY <3>p
    <3>2. book[r] \in Seq(LevelRec)
      BY <1>2
    <3>3. lv \in LevelRec
      BY <3>2, LenProperties, ElementOfSeq DEF Range
    <3> QED BY <3>1, <3>3 DEF LevelRec
  <2>4. OfferedIn(s, book'[s], p) = OfferedIn(s, book[s], p) - (IF Better(s, p, book[s][1].price) THEN 0 ELSE q)
    BY <1>2, <2>3 DEF AfterTrade
  <2>5. CASE Better(s, p, book[s][1].price)
    <3>1. OfferedIn(s, book[s], p) = 0
      BY <1>2, <2>3, <2>5, OfferedNothing
    <3> QED BY <1>1, <2>4, <2>5, <3>1
  <2>6. CASE ~Better(s, p, book[s][1].price)
    <3>1. OfferedIn(s, book[s], p) \in Nat
      BY <1>2, <2>3
    <3> QED BY <1>1, <2>2, <2>4, <2>6, <3>1
  <2> QED BY <2>5, <2>6
<1> QED BY <1>3, <1>4

ReportRec == [decision: {"2", "5"}, price: Nat, size: Nat, bid: Nat, ask: Nat]

(***************************************************************************)
(* Two sequences with the same indices have the same length.                *)
(***************************************************************************)
LEMMA SameLength ==
    ASSUME NEW m \in Nat, NEW k \in Nat, 1..m = 1..k
    PROVE  m = k
<1>1. m > 0 => m \in 1..m
  OBVIOUS
<1>2. k > 0 => k \in 1..k
  OBVIOUS
<1>3. m > 0 => m <= k
  BY <1>1
<1>4. k > 0 => k <= m
  BY <1>2
<1> QED BY <1>3, <1>4

(***************************************************************************)
(* A further report adds its size to that of the trades.                    *)
(***************************************************************************)
FurtherReport(rs, r, after) ==
    /\ after \in Seq(ReportRec) /\ after # <<>> /\ after[1] = rs[1]
    /\ Len(after) = Len(rs) + 1 /\ after[Len(rs) + 1] = r
    /\ \A i \in 1..Len(rs) : after[i] = rs[i]
    /\ Later(after) = Later(rs) + r.size

\* Appending a report is a further report.
LEMMA LaterAppend ==
    ASSUME NEW rs \in Seq(ReportRec), rs # <<>>, NEW r \in ReportRec
    PROVE  FurtherReport(rs, r, Append(rs, r))
<1>a. PICK after : after = Append(rs, r)
  OBVIOUS
<1>n. PICK n : n = Len(rs)
  OBVIOUS
<1>1. n \in Nat /\ n # 0
  BY <1>n, LenProperties, EmptySeq
<1>2. /\ after \in Seq(ReportRec) /\ Len(after) = n + 1 /\ after[n + 1] = r
      /\ \A i \in 1..n : after[i] = rs[i]
  BY <1>a, <1>n, AppendProperties
<1>3. after # <<>> /\ after[1] = rs[1]
  BY <1>1, <1>2
<1>D. PICK D : D = 2..n
  OBVIOUS
<1>E. PICK F : F = 2..(n + 1)
  OBVIOUS
<1>f. PICK f : f = [i \in 2..n |-> rs[i].size]
  OBVIOUS
<1>g. PICK g : g = [i \in 2..(n + 1) |-> after[i].size]
  OBVIOUS
<1>4. \A i \in 1..n : rs[i] \in ReportRec
  BY <1>n, ElementOfSeq
<1>5. \A i \in 1..n : rs[i].size \in Int
  BY <1>4 DEF ReportRec
<1>6. r.size \in Int
  BY DEF ReportRec
<1>7. \A i \in 2..n : i \in 1..n /\ i # n + 1
  BY <1>1
<1>8. f \in [D -> Int] /\ \A i \in D : f[i] = rs[i].size
  BY <1>5, <1>7, <1>D, <1>f
<1>9. \A i \in 2..(n + 1) : i = n + 1 \/ i \in 2..n
  BY <1>1
<1>10. g \in [F -> Int] /\ (\A i \in D : g[i] = rs[i].size) /\ g[n + 1] = r.size
  <2>1. n + 1 \in F
    BY <1>1, <1>E
  <2>2. \A i \in D : i \in F /\ after[i].size = rs[i].size /\ after[i].size \in Int
    BY <1>1, <1>2, <1>5, <1>7, <1>D, <1>E
  <2>3. \A i \in F : g[i] = after[i].size
    BY <1>E, <1>g
  <2>4. after[n + 1].size \in Int
    BY <1>2, <1>6
  <2>5. \A i \in F : after[i].size \in Int
    BY <1>9, <1>D, <1>E, <2>2, <2>4
  <2>6. g \in [F -> Int]
    BY <1>E, <1>g, <2>5
  <2> QED BY <1>2, <2>1, <2>2, <2>3, <2>6
<1>11. IsFiniteSet(D)
  BY <1>1, <1>D, FS_Interval
<1>x. PICK x : x = n + 1
  OBVIOUS
<1>12. DifferIn(D, f, F, g, x, 0, r.size)
  <2>1. D \ {x} = F \ {x}
    BY <1>1, <1>x, <1>D, <1>E
  <2>2. x \notin D /\ x \in F
    BY <1>1, <1>x, <1>D, <1>E
  <2>3. \A y \in D \ {x} : f[y] = g[y]
    BY <1>8, <1>10
  <2> QED BY <1>6, <1>8, <1>10, <1>11, <1>x, <2>1, <2>2, <2>3 DEF DifferIn
<1>13. SumFunction(g) = SumFunction(f) - 0 + r.size /\ SumFunction(f) \in Int
  BY <1>12, SumOneChanged
<1>14. Later(after) = SumFunction(g) /\ Later(rs) = SumFunction(f)
  BY <1>2, <1>f, <1>g, <1>n DEF Later
<1> QED BY <1>2, <1>3, <1>6, <1>13, <1>14, <1>a, <1>n DEF FurtherReport

(***************************************************************************)
(* What was traded is a number of shares.                                   *)
(***************************************************************************)
LEMMA LaterType ==
    ASSUME NEW rs \in Seq(ReportRec)
    PROVE  Later(rs) \in Nat
<1>f. PICK f : f = [i \in 2..Len(rs) |-> rs[i].size]
  OBVIOUS
<1>1. Len(rs) \in Nat
  BY LenProperties
<1>2. \A i \in 2..Len(rs) : rs[i] \in ReportRec
  BY <1>1, ElementOfSeq
<1>3. \A i \in 2..Len(rs) : rs[i].size \in Nat
  BY <1>2 DEF ReportRec
<1>4. f \in [2..Len(rs) -> Int] /\ \A i \in 2..Len(rs) : f[i] >= 0
  BY <1>3, <1>f
<1>D. PICK D : D = 2..Len(rs)
  OBVIOUS
<1>5. f \in [D -> Int] /\ IsFiniteSet(D) /\ \A i \in D : f[i] >= 0
  BY <1>1, <1>4, <1>D, FS_Interval
<1>6. SumFunction(f) \in Nat
  BY <1>5, SumNat
<1> QED BY <1>6, <1>f DEF Later

\* A trade is charged to both orders in the ledger.
LEMMA MatchPairLedger ==
    ASSUME Basis, Parts, Enough, LedgerInv, MatchPair
    PROVE  LedgerInv'
<1>q. PICK q : q = Least(shares["bid"][1], shares["ask"][1])
  OBVIOUS
<1>0. PairTraded(q)
  BY <1>q, MatchPairTrades
<1>T. PICK T : T = {Current("bid"), Current("ask")}
  OBVIOUS
<1>1. /\ q \in Nat /\ DOMAIN orders' = DOMAIN orders
      /\ orders \in Seq(OrderRec) /\ orders' \in Seq(OrderRec)
      /\ \A i \in DOMAIN orders : orders'[i].size = orders[i].size - (IF i \in T THEN q ELSE 0)
  BY <1>0, <1>T DEF PairTraded, Suits, Known, Basis, BookInv
<1>2. ledger' = [i \in DOMAIN ledger |-> IF i \in T THEN [ledger[i] EXCEPT !.filled = @ + q] ELSE ledger[i]]
  BY <1>q, <1>T DEF MatchPair, Current, First, Sides
<1>3. /\ ledger \in Seq(LedgerRec) /\ Len(ledger) = Len(orders)
      /\ \A id \in DOMAIN orders :
            /\ ledger[id].submitted = ledger[id].filled + ledger[id].cancelled + orders[id].size
            /\ ledger[id].trader = id
  BY DEF LedgerInv
<1>4. /\ DOMAIN ledger = 1..Len(ledger) /\ Len(ledger) \in Nat /\ DOMAIN orders = 1..Len(orders)
      /\ DOMAIN orders' = 1..Len(orders') /\ Len(orders') \in Nat /\ Len(orders) \in Nat
  BY <1>1, <1>3, LenProperties
<1>5. \A id \in DOMAIN ledger : ledger[id] \in LedgerRec
  BY <1>3, LenProperties, ElementOfSeq
<1>6. \A id \in DOMAIN orders : orders[id].size \in Nat
  <2>1. \A id \in DOMAIN orders : orders[id] \in OrderRec
    BY <1>1, LenProperties, ElementOfSeq
  <2> QED BY <2>1 DEF OrderRec
<1>7. ASSUME NEW id \in DOMAIN ledger
      PROVE  /\ ledger'[id] \in LedgerRec /\ ledger'[id].trader = ledger[id].trader
             /\ ledger'[id].submitted = ledger'[id].filled + ledger'[id].cancelled + orders'[id].size
  <2>r. PICK r : r = ledger[id]
    OBVIOUS
  <2>1. r \in LedgerRec
    BY <1>5, <2>r
  <2>2. r.filled \in Nat /\ r.cancelled \in Nat
    BY <2>1 DEF LedgerRec
  <2>3. id \in DOMAIN orders
    BY <1>3, <1>4
  <2>4. r.submitted = r.filled + r.cancelled + orders[id].size /\ orders[id].size \in Nat
        /\ orders'[id].size = orders[id].size - (IF id \in T THEN q ELSE 0)
    BY <1>1, <1>3, <1>6, <2>3, <2>r
  <2>5. CASE id \in T
    <3>1. ledger'[id] = [r EXCEPT !.filled = r.filled + q]
      BY <1>2, <2>5, <2>r
    <3>2. r.filled + q \in Nat
      BY <1>1, <2>2
    <3>3. /\ ledger'[id] \in LedgerRec /\ ledger'[id].trader = r.trader /\ ledger'[id].submitted = r.submitted
          /\ ledger'[id].filled = r.filled + q /\ ledger'[id].cancelled = r.cancelled
      BY <2>1, <3>1, <3>2 DEF LedgerRec
    <3>4. r.submitted = (r.filled + q) + r.cancelled + (orders[id].size - q)
      BY <1>1, <2>2, <2>4
    <3>5. orders'[id].size = orders[id].size - q
      BY <2>4, <2>5
    <3> QED BY <2>r, <3>3, <3>4, <3>5
  <2>6. CASE id \notin T
    <3>1. ledger'[id] = r
      BY <1>2, <2>6, <2>r
    <3>2. orders'[id].size = orders[id].size
      BY <2>4, <2>6
    <3> QED BY <2>1, <2>4, <2>r, <3>1, <3>2
  <2> QED BY <2>5, <2>6
<1>8. DOMAIN ledger' = DOMAIN ledger
  BY <1>2
<1>9. ledger' \in Seq(LedgerRec)
  <2>1. ledger' \in [1..Len(ledger) -> LedgerRec]
    <3>1. ledger' = [i \in 1..Len(ledger) |-> ledger'[i]]
      BY SMTT(60), <1>2, <1>4
    <3> QED BY <1>4, <1>7, <3>1
  <2> QED BY <1>4, <2>1
<1>10. Len(ledger') = Len(orders')
  <2>1. DOMAIN ledger' = 1..Len(ledger') /\ Len(ledger') \in Nat
    BY <1>9, LenProperties
  <2>2. 1..Len(ledger') = 1..Len(orders')
    BY <1>1, <1>3, <1>4, <1>8, <2>1
  <2> QED BY Zenon, <1>4, <2>1, <2>2, SameLength
<1>11. \A id \in DOMAIN orders' : id \in DOMAIN ledger /\ id \in DOMAIN orders
  BY <1>1, <1>3, <1>4
<1>12. \A id \in DOMAIN orders' :
            /\ ledger'[id].submitted = ledger'[id].filled + ledger'[id].cancelled + orders'[id].size
            /\ ledger'[id].trader = id
  BY <1>3, <1>7, <1>11
<1> QED BY <1>9, <1>10, <1>12 DEF LedgerInv

\* A trade is reported at the price that was announced, within what was announced.
LEMMA MatchPairReported ==
    ASSUME Basis, Parts, Enough, Reported, MatchPair
    PROVE  Reported'
<1>q. PICK q : q = Least(shares["bid"][1], shares["ask"][1])
  OBVIOUS
<1>0. PairTraded(q)
  BY <1>q, MatchPairTrades
<1>b. PICK b : b = Current("bid")
  OBVIOUS
<1>a. PICK a : a = Current("ask")
  OBVIOUS
<1>r. PICK r : r = Report("2", price, q, b, a)
  OBVIOUS
<1>1. /\ q \in Nat /\ q > 0 /\ total \in Nat /\ price \in Nat /\ phase = "match" /\ phase' = "match"
      /\ total' = total - q /\ price' = price /\ reports' = Append(reports, r)
      /\ DOMAIN orders' = DOMAIN orders /\ \A i \in DOMAIN orders : orders'[i].price = orders[i].price
  BY <1>0, <1>a, <1>b, <1>r DEF PairTraded, Suits, Basis, AuctionTypes, MatchPair
<1>2. /\ b \in DOMAIN orders /\ a \in DOMAIN orders /\ b \in Nat /\ a \in Nat
      /\ orders[b].price = book["bid"][1].price /\ orders[a].price = book["ask"][1].price
      /\ book["bid"][1].price \in Nat /\ book["ask"][1].price \in Nat
      /\ ~Better("bid", price, book["bid"][1].price) /\ ~Better("ask", price, book["ask"][1].price)
  BY <1>0, <1>a, <1>b DEF PairTraded, Suits, Cursor, Sides
<1>3. orders[b].price >= price /\ orders[a].price <= price
  BY SMTT(60), <1>1, <1>2 DEF Better
<1>4. /\ reports \in Seq(ReportRec) /\ reports # <<>>
      /\ reports[1].price = price /\ reports[1].size = total + Later(reports)
      /\ \A i \in 2..Len(reports) : SoundReport(orders, price, reports[i])
  BY <1>1 DEF Basis, AuctionTypes, ReportRec, Reported, Trading
<1>5. /\ r \in ReportRec /\ r.size = q /\ r.price = price /\ r.bid = b /\ r.ask = a
  BY <1>1, <1>2, <1>r DEF ReportRec, Report
<1>6. /\ reports' # <<>> /\ reports'[1] = reports[1]
      /\ Len(reports') = Len(reports) + 1 /\ reports'[Len(reports) + 1] = r
      /\ \A i \in 1..Len(reports) : reports'[i] = reports[i]
      /\ Later(reports') = Later(reports) + q
  <2>1. reports \in Seq(ReportRec) /\ reports # <<>> /\ r \in ReportRec /\ reports' = Append(reports, r)
    BY <1>1, <1>4, <1>5
  <2>p. PICK rs : rs = reports
    OBVIOUS
  <2>n. PICK after : after = reports'
    OBVIOUS
  <2>2. rs \in Seq(ReportRec) /\ rs # <<>> /\ r \in ReportRec /\ after = Append(rs, r)
    BY <2>1, <2>p, <2>n
  <2>3. FurtherReport(rs, r, after)
    BY <2>2, LaterAppend
  <2> QED BY <1>5, <2>3, <2>p, <2>n DEF FurtherReport
<1>7. reports'[1].size = total' + Later(reports')
  <2>1. reports[1].size \in Nat
    <3>1. reports[1] \in ReportRec
      <4>1. Len(reports) \in Nat /\ Len(reports) # 0
        BY <1>4, LenProperties, EmptySeq
      <4> QED BY <1>4, <4>1, ElementOfSeq
    <3> QED BY <3>1 DEF ReportRec
  <2>2. Later(reports) \in Int
    BY <1>4, LaterType
  <2> QED BY <1>1, <1>4, <1>6, <2>1, <2>2
<1>8. ASSUME NEW i \in 2..Len(reports') PROVE SoundReport(orders', price', reports'[i])
  <2>1. Len(reports) \in Nat
    BY <1>4, LenProperties
  <2>2. CASE i = Len(reports) + 1
    <3>1. reports'[i] = r
      BY <1>6, <2>2
    <3> QED BY <1>1, <1>2, <1>3, <1>5, <3>1 DEF SoundReport
  <2>3. CASE i # Len(reports) + 1
    <3>1. i \in 2..Len(reports) /\ i \in 1..Len(reports)
      BY <1>6, <2>1, <2>3
    <3>2. SoundReport(orders, price, reports[i]) /\ reports'[i] = reports[i]
      BY <1>4, <1>6, <3>1
    <3> QED BY <1>1, <3>2 DEF SoundReport
  <2> QED BY <2>2, <2>3
<1>9. reports'[1].price = price'
  BY <1>1, <1>4, <1>6
<1> QED BY <1>1, <1>6, <1>7, <1>8, <1>9 DEF Reported, Announced, Trading

(***************************************************************************)
(* The trade of a pair keeps the invariant.                                 *)
(***************************************************************************)
LEMMA MatchPairInv == Inv /\ MatchPair => Inv'
<1> SUFFICES ASSUME Inv, MatchPair PROVE Inv'
  OBVIOUS
<1>1. Basis /\ LedgerInv /\ Parts /\ Enough /\ Most /\ Reported /\ PublishedKnown /\ MarketsHidden
  BY DEF Inv
<1>2. Basis' /\ Parts' /\ Enough' /\ Most' /\ LedgerInv' /\ Reported'
  BY <1>1, MatchPairBasis, MatchPairParts, MatchPairEnough, MatchPairLedger, MatchPairReported
<1>3. phase' = "match" /\ published' = published
  BY DEF MatchPair
<1>4. PriceSoFar' /\ Even' /\ Uncrossed'
  BY <1>3 DEF PriceSoFar, Even, Uncrossed
<1>5. PublishedKnown' /\ MarketsHidden'
  BY <1>1, <1>3 DEF PublishedKnown, MarketsHidden
<1> QED BY <1>2, <1>4, <1>5 DEF Inv

(***************************************************************************)
(* The parts are complete on both sides, and the pairs can trade.           *)
(***************************************************************************)
LEMMA StartMatchingInv == Inv /\ StartMatching => Inv'
<1> SUFFICES ASSUME Inv, StartMatching PROVE Inv'
  OBVIOUS
<1>1. /\ phase = "share" /\ phase' = "match" /\ (\A s \in Sides : shares[s] # <<>>)
      /\ orders' = orders /\ book' = book /\ total' = total /\ price' = price /\ shares' = shares
      /\ pos' = pos /\ reports' = reports /\ published' = published /\ ledger' = ledger
  BY DEF StartMatching, auction
<1>2. /\ lastPrice' = lastPrice /\ rows' = rows /\ division' = division
      /\ cancels' = cancels /\ auctions' = auctions
  BY DEF StartMatching, auction
<1>3. Basis'
  <2>1. BookInv /\ NoneEmpty /\ AuctionTypes
    BY DEF Inv, Basis
  <2>2. BookInv'
    BY <1>1, <2>1 DEF BookInv
  <2>3. NoneEmpty'
    BY <1>1, <2>1 DEF NoneEmpty
  <2>4. AuctionTypes'
    BY <1>1, <1>2, <2>1 DEF AuctionTypes, Phases
  <2>5. Quiet' /\ DividedSide'
    BY <1>1 DEF Quiet, DividedSide, Trading
  <2> QED BY <2>2, <2>3, <2>4, <2>5 DEF Basis
<1>4. Parts'
  BY <1>1 DEF Inv, Parts, Trading, IsDivided
<1>5. Enough'
  BY <1>1 DEF Inv, Enough, Tight, Trading, IsDivided
<1>6. Most' /\ Reported'
  BY <1>1 DEF Inv, Most, Reported, Announced, Trading
<1>7. LedgerInv' /\ PublishedKnown' /\ MarketsHidden'
  BY <1>1 DEF Inv, LedgerInv, PublishedKnown, MarketsHidden
<1>8. PriceSoFar' /\ Even' /\ Uncrossed'
  BY <1>1 DEF PriceSoFar, Even, Uncrossed
<1> QED BY <1>3, <1>4, <1>5, <1>6, <1>7, <1>8 DEF Inv

--------------------------------------------------------------------------------
\* The levels without the first, which has no orders any more.
IsUsedUp(os, s, levels, left) ==
    /\ Standing(os, s, left)
    /\ \A l \in DOMAIN left : l + 1 \in DOMAIN levels /\ left[l] = levels[l + 1] /\ l + 1 # 1
    /\ \A lv \in Range(left) : lv \in Range(levels)
    /\ \A p : OfferedIn(s, left, p) = OfferedIn(s, levels, p)

\* A level all of whose orders are filled offers nothing: it leaves the book exact.
LEMMA UsedUp ==
    ASSUME NEW os, NEW s, NEW levels, Standing(os, s, levels), levels # <<>>, levels[1].ids = <<>>
    PROVE  IsUsedUp(os, s, levels, Tail(levels))
<1>a. PICK left : left = Tail(levels)
  OBVIOUS
<1>1. levels \in Seq(LevelRec) /\ ExactSide(os, s, levels) /\ \A lv \in Range(levels) : Aged(os, lv.ids)
  BY DEF Standing
<1>2. /\ left \in Seq(LevelRec) /\ Len(left) = Len(levels) - 1
      /\ \A i \in 1..Len(left) : left[i] = levels[i + 1]
  <2>S. PICK S : S = LevelRec
    OBVIOUS
  <2>1. levels \in Seq(S) /\ levels # <<>>
    BY <1>1, <2>S
  <2>2. /\ left \in Seq(S) /\ Len(left) = Len(levels) - 1
        /\ \A i \in 1..Len(left) : left[i] = levels[i + 1]
    BY <1>a, <2>1, HeadTailProperties
  <2> QED BY <2>2, <2>S
<1>3. /\ DOMAIN levels = 1..Len(levels) /\ Len(levels) \in Nat /\ DOMAIN left = 1..Len(left) /\ Len(left) \in Nat
      /\ Len(left) = Len(levels) - 1
  BY <1>1, <1>2, LenProperties
<1>4. 1 \in DOMAIN levels
  <2>1. Len(levels) # 0
    BY <1>1, EmptySeq
  <2> QED BY <1>3, <2>1
<1>5. \A l \in DOMAIN left : l \in Nat /\ l + 1 \in DOMAIN levels /\ left[l] = levels[l + 1] /\ l + 1 # 1
  BY <1>2, <1>3
<1>6. \A lv \in Range(left) : lv \in Range(levels)
  BY <1>5 DEF Range
<1>7. /\ \A lv \in Range(levels) : ExactLevel(os, s, lv)
      /\ Ordered(s, levels) /\ Covered(os, s, levels)
  BY <1>1 DEF ExactSide
<1>8. levels[1] \in Range(levels) /\ levels[1] \in LevelRec
  <2>1. levels[1] \in LevelRec
    BY <1>1, <1>4, LenProperties, ElementOfSeq
  <2> QED BY <1>4, <2>1 DEF Range
<1>9. Belongs(os, s, levels[1].price) = {}
  <2>1. ExactLevel(os, s, levels[1])
    BY <1>7, <1>8
  <2>2. Range(levels[1].ids) = {}
    BY DEF Range
  <2> QED BY <2>1, <2>2 DEF ExactLevel
<1>10. Ordered(s, left)
  <2> SUFFICES ASSUME NEW i \in DOMAIN left, NEW j \in DOMAIN left, i < j
               PROVE  Better(s, left[i].price, left[j].price)
    BY DEF Ordered
  <2>1. i + 1 \in DOMAIN levels /\ j + 1 \in DOMAIN levels /\ i + 1 < j + 1
        /\ left[i] = levels[i + 1] /\ left[j] = levels[j + 1]
    BY <1>5
  <2>2. Better(s, levels[i + 1].price, levels[j + 1].price)
    BY <1>7, <2>1 DEF Ordered
  <2> QED BY <2>1, <2>2
<1>11. Covered(os, s, left)
  <2> SUFFICES ASSUME NEW id \in DOMAIN os, os[id].size > 0, os[id].side = s
               PROVE  \E lv \in Range(left) : lv.price = os[id].price
    BY DEF Covered
  <2>p. PICK lv \in Range(levels) : lv.price = os[id].price
    BY <1>7 DEF Covered
  <2>i. PICK i \in DOMAIN levels : lv = levels[i]
    BY DEF Range
  <2>1. i # 1
    <3> SUFFICES ASSUME i = 1 PROVE FALSE
      OBVIOUS
    <3>1. id \in Belongs(os, s, levels[1].price)
      BY <2>p, <2>i DEF Belongs
    <3> QED BY <1>9, <3>1
  <2>2. i - 1 \in DOMAIN left /\ left[i - 1] = lv
    <3>1. i \in Nat /\ i - 1 \in 1..Len(left)
      BY <1>3, <2>1
    <3>2. left[i - 1] = levels[(i - 1) + 1] /\ (i - 1) + 1 = i
      BY <1>2, <3>1
    <3> QED BY <1>3, <2>i, <3>1, <3>2
  <2> QED BY <2>p, <2>2 DEF Range
<1>12. Standing(os, s, left)
  BY <1>1, <1>2, <1>6, <1>7, <1>10, <1>11 DEF Standing, ExactSide
<1>13. levels[1].size = 0
  <2>1. levels[1].size = SumFunction(Sizes(os, {}))
    BY <1>7, <1>8, <1>9 DEF ExactLevel
  <2>f. PICK f : f = Sizes(os, {})
    OBVIOUS
  <2>D. PICK D : D = {}
    OBVIOUS
  <2>2. IsFiniteSet(D) /\ f \in [D -> Int] /\ \A x \in D : f[x] = 0
    BY <2>f, <2>D, FS_EmptySet DEF Sizes
  <2>3. SumFunction(f) = 0
    BY <2>2, SumZero
  <2> QED BY <2>1, <2>3, <2>f
<1>14. ASSUME NEW p PROVE OfferedIn(s, left, p) = OfferedIn(s, levels, p)
  BY <1>1, <1>13, <1>a, OfferedTail
<1> QED BY <1>5, <1>6, <1>12, <1>14, <1>a DEF IsUsedUp

\* What the end of a level makes of one side.
SideUsed(s) ==
    /\ book[s] # <<>> /\ 1 \in DOMAIN book[s]
    /\ IF book[s][1].ids = <<>>
       THEN /\ shares[s] = <<>> /\ pos'[s] = 1 /\ book'[s] = Tail(book[s])
            /\ IsUsedUp(orders, s, book[s], book'[s])
       ELSE book'[s] = book[s] /\ pos'[s] = pos[s]
    /\ Standing(orders, s, book'[s])
    /\ \A p : OfferedIn(s, book'[s], p) = OfferedIn(s, book[s], p)
    /\ \A lv \in Range(book'[s]) : lv \in Range(book[s])

\* EndLevel drops such a level from each side, and nothing else.
LEMMA EndLevelSides ==
    ASSUME Inv, EndLevel, NEW s \in Sides PROVE SideUsed(s)
<1>e. PICK levels : levels = book[s]
  OBVIOUS
<1>1. phase = "match" /\ Standing(orders, s, levels) /\ levels # <<>>
  <2>1. phase = "match"
    BY DEF EndLevel
  <2> QED BY <1>e, <2>1 DEF Inv, Basis, BookInv, Parts, Trading
<1>2. 1 \in DOMAIN levels
  <2>1. DOMAIN levels = 1..Len(levels) /\ Len(levels) \in Nat /\ Len(levels) # 0
    BY <1>1, LenProperties, EmptySeq DEF Standing
  <2>2. 1 \in 1..Len(levels)
    BY <2>1
  <2> QED BY <2>1, <2>2
<1>3. /\ book'[s] = IF levels[1].ids = <<>> THEN Tail(levels) ELSE levels
      /\ pos'[s] = IF levels[1].ids = <<>> THEN 1 ELSE pos[s]
  BY <1>e DEF EndLevel, First
<1>4. CASE levels[1].ids = <<>>
  <2>1. shares[s] = <<>>
    BY <1>2, <1>4, <1>e DEF Inv, Basis, NoneEmpty
  <2>2. IsUsedUp(orders, s, levels, Tail(levels))
    BY <1>1, <1>4, UsedUp
  <2>3. IsUsedUp(orders, s, levels, book'[s])
    BY <1>3, <1>4, <2>2
  <2>4. /\ Standing(orders, s, book'[s])
        /\ \A p : OfferedIn(s, book'[s], p) = OfferedIn(s, levels, p)
        /\ \A lv \in Range(book'[s]) : lv \in Range(levels)
    BY <2>3 DEF IsUsedUp
  <2> QED BY <1>1, <1>2, <1>3, <1>4, <1>e, <2>1, <2>3, <2>4 DEF SideUsed
<1>5. CASE levels[1].ids # <<>>
  BY <1>1, <1>2, <1>3, <1>5, <1>e DEF SideUsed
<1> QED BY <1>4, <1>5

(***************************************************************************)
(* The end of a level keeps the invariant: what a side has left to execute  *)
(* is in its next levels, or in the level it has not used up.               *)
(***************************************************************************)
LEMMA EndLevelInv == Inv /\ EndLevel => Inv'
<1> SUFFICES ASSUME Inv, EndLevel PROVE Inv'
  OBVIOUS
<1>1. /\ phase = "match" /\ phase' = "share" /\ DOMAIN book' = Sides /\ DOMAIN pos' = Sides
      /\ orders' = orders /\ total' = total /\ price' = price /\ shares' = shares
      /\ reports' = reports /\ published' = published /\ ledger' = ledger
  BY DEF EndLevel
<1>2. /\ lastPrice' = lastPrice /\ rows' = rows /\ division' = division
      /\ cancels' = cancels /\ auctions' = auctions
  BY DEF EndLevel
<1>3. \A s \in Sides : SideUsed(s)
  BY EndLevelSides
<1>4. Basis'
  <2>1. BookInv /\ NoneEmpty /\ AuctionTypes
    BY DEF Inv, Basis
  <2>2. BookInv'
    BY <1>1, <1>3, <2>1 DEF BookInv, SideUsed
  <2>3. NoneEmpty'
    <3> SUFFICES ASSUME NEW s \in Sides, NEW l \in DOMAIN book'[s], book'[s][l].ids = <<>> PROVE FALSE
      BY <1>1 DEF NoneEmpty
    <3>1. SideUsed(s)
      BY <1>3
    <3>2. CASE book[s][1].ids = <<>>
      <4>1. IsUsedUp(orders, s, book[s], book'[s])
        BY <3>1, <3>2 DEF SideUsed
      <4>2. l + 1 \in DOMAIN book[s] /\ book[s][l + 1].ids = <<>> /\ l + 1 # 1
        BY <4>1 DEF IsUsedUp
      <4> QED BY <2>1, <4>2 DEF NoneEmpty
    <3>3. CASE book[s][1].ids # <<>>
      <4>1. book'[s] = book[s]
        BY <3>1, <3>3 DEF SideUsed
      <4>2. l = 1
        BY <2>1, <4>1 DEF NoneEmpty
      <4> QED BY <3>3, <4>1, <4>2
    <3> QED BY <3>2, <3>3
  <2>4. AuctionTypes'
    <3>1. \A s \in Sides : pos'[s] \in Nat \ {0}
      <4> SUFFICES ASSUME NEW s \in Sides PROVE pos'[s] \in Nat \ {0}
        OBVIOUS
      <4>1. pos'[s] = 1 \/ pos'[s] = pos[s]
        BY <1>3 DEF SideUsed
      <4> QED BY <2>1, <4>1 DEF AuctionTypes
    <3> QED BY <1>1, <1>2, <2>1, <3>1 DEF AuctionTypes, Phases
  <2>5. Quiet' /\ DividedSide'
    BY <1>1 DEF Quiet, DividedSide, Trading
  <2> QED BY <2>2, <2>3, <2>4, <2>5 DEF Basis
<1>5. Parts'
  <2> SUFFICES ASSUME NEW s \in Sides
               PROVE  IF shares[s] # <<>>
                      THEN /\ book'[s] # <<>>
                           /\ Fits(orders, book'[s][1].ids, pos'[s], shares[s])
                           /\ \/ /\ Whole(orders, book'[s][1].ids, pos'[s], shares[s])
                                 /\ SumFunction(shares[s]) <= total
                              \/ InTurn(shares[s], total)
                      ELSE pos'[s] = 1 \/ total = 0
    BY <1>1 DEF Parts, IsDivided
  <2>1. SideUsed(s)
    BY <1>3
  <2>2. /\ book[s] # <<>>
        /\ Fits(orders, book[s][1].ids, pos[s], shares[s])
        /\ \/ /\ Whole(orders, book[s][1].ids, pos[s], shares[s])
              /\ SumFunction(shares[s]) <= total
           \/ InTurn(shares[s], total)
    BY <1>1 DEF Inv, Parts, Trading, IsDivided
  <2>3. CASE shares[s] # <<>>
    <3>1. book'[s] = book[s] /\ pos'[s] = pos[s]
      BY <2>1, <2>3 DEF SideUsed
    <3> QED BY <2>2, <2>3, <3>1
  <2>4. CASE shares[s] = <<>> /\ book[s][1].ids = <<>>
    BY <2>1, <2>4 DEF SideUsed
  <2>5. CASE shares[s] = <<>> /\ book[s][1].ids # <<>>
    <3>i. PICK ids : ids = book[s][1].ids
      OBVIOUS
    <3>1. ids \in Seq(Nat)
      <4>1. book[s] \in Seq(LevelRec) /\ 1 \in DOMAIN book[s]
        BY <2>1 DEF SideUsed, Inv, Basis, BookInv, Standing
      <4>2. book[s][1] \in LevelRec
        BY <4>1, LenProperties, ElementOfSeq
      <4> QED BY <3>i, <4>2 DEF LevelRec
    <3>2. Len(ids) \in Nat /\ Len(ids) # 0
      BY <2>5, <3>1, <3>i, LenProperties, EmptySeq
    <3>3. Len(ids) = pos[s] - 1 + 0
      BY <2>2, <2>5, <3>i DEF Fits
    <3>4. pos[s] \in Nat
      BY DEF Inv, Basis, AuctionTypes
    <3>5. pos[s] # 1
      BY <3>2, <3>3, <3>4
    <3>6. InTurn(<<>>, total)
      BY <2>2, <2>5, <3>5 DEF Whole
    <3>7. SumFunction(<<>>) = 0
      <4>f. PICK f : f = <<>>
        OBVIOUS
      <4>1. f \in Seq(Nat) /\ \A k \in DOMAIN f : f[k] = 0
        BY <4>f
      <4>2. SumFunction(f) = 0
        BY <4>1, SumOfParts
      <4> QED BY <4>f, <4>2
    <3> QED BY <2>5, <3>6, <3>7 DEF InTurn
  <2> QED BY <2>3, <2>4, <2>5
<1>6. Enough'
  <2>1. Enough
    BY DEF Inv
  <2>2. \A s \in Sides : total' <= OfferedIn(s, book'[s], price')
    BY <1>1, <1>3, <2>1 DEF Enough, Trading, SideUsed
  <2>3. PICK t \in Sides : Tight(t)
    BY <1>1, <2>1 DEF Enough, Trading
  <2>4. SideUsed(t)
    BY <1>3
  <2>5. total' = OfferedIn(t, book'[t], price')
    BY <1>1, <2>3, <2>4 DEF Tight, SideUsed
  <2>6. shares'[t] = <<>> \/ Whole(orders', book'[t][1].ids, pos'[t], shares'[t])
    <3>1. CASE shares[t] = <<>>
      BY <1>1, <3>1
    <3>2. CASE shares[t] # <<>>
      <4>1. book'[t] = book[t] /\ pos'[t] = pos[t]
        BY <2>4, <3>2 DEF SideUsed
      <4> QED BY <1>1, <2>3, <3>2, <4>1 DEF Tight
    <3> QED BY <3>1, <3>2
  <2>7. Tight(t)'
    BY <1>1, <2>5, <2>6 DEF Tight, IsDivided
  <2> QED BY <2>2, <2>7 DEF Enough
<1>7. Most'
  <2> SUFFICES ASSUME NEW p \in PricesOf(book') PROVE \E s \in Sides : OfferedIn(s, book'[s], p) <= total'
    BY DEF Most
  <2>1. p \in PricesOf(book)
    <3>p. PICK r \in Sides : p \in {lv.price : lv \in Range(book'[r])}
      BY DEF PricesOf
    <3>1. p \in {lv.price : lv \in Range(book[r])}
      BY <1>3, <3>p DEF SideUsed
    <3> QED BY <3>1 DEF PricesOf
  <2>2. PICK s \in Sides : OfferedIn(s, book[s], p) <= total
    BY <1>1, <2>1 DEF Inv, Most, Announced, Trading
  <2> QED BY <1>1, <1>3, <2>2 DEF SideUsed
<1>8. Reported'
  BY <1>1 DEF Inv, Reported, Announced, Trading
<1>9. LedgerInv' /\ PublishedKnown' /\ MarketsHidden'
  BY <1>1 DEF Inv, LedgerInv, PublishedKnown, MarketsHidden
<1>10. PriceSoFar' /\ Even' /\ Uncrossed'
  BY <1>1 DEF PriceSoFar, Even, Uncrossed
<1> QED BY <1>4, <1>5, <1>6, <1>7, <1>8, <1>9, <1>10 DEF Inv

(***************************************************************************)
(* When nothing is left to execute, no two levels cross.                    *)
(***************************************************************************)
LEMMA NothingLeft ==
    ASSUME BookInv, NEW b \in Range(book["bid"]), NEW a \in Range(book["ask"]),
           b.ids # <<>>, a.ids # <<>>,
           \A p \in PricesOf(book) : \E s \in Sides : OfferedIn(s, book[s], p) <= 0
    PROVE  b.price < a.price
<1>1. ASSUME NEW s \in Sides, NEW lv \in Range(book[s]), lv.ids # <<>>, NEW p \in Nat, ~Better(s, p, lv.price)
      PROVE  OfferedIn(s, book[s], p) > 0
  <2>L. PICK levels : levels = book[s]
    OBVIOUS
  <2>1. levels \in Seq(LevelRec) /\ ExactSide(orders, s, levels) /\ orders \in Seq(OrderRec)
    BY <2>L DEF BookInv, Standing, Known
  <2>i. PICK i \in DOMAIN levels : lv = levels[i]
    BY <1>1, <2>L DEF Range
  <2>2. ExactLevel(orders, s, lv)
    BY <1>1, <2>1, <2>L DEF ExactSide
  <2>3. lv.ids \in Seq(Nat)
    <3>1. lv \in LevelRec
      BY <2>1, <2>i, LenProperties, ElementOfSeq
    <3> QED BY <3>1 DEF LevelRec
  <2>4. lv.ids[1] \in Range(lv.ids)
    <3>1. DOMAIN lv.ids = 1..Len(lv.ids) /\ Len(lv.ids) \in Nat /\ Len(lv.ids) # 0
      BY <1>1, <2>3, LenProperties, EmptySeq
    <3>2. 1 \in 1..Len(lv.ids)
      BY <3>1
    <3> QED BY <3>1, <3>2 DEF Range
  <2>o. PICK id : id = lv.ids[1]
    OBVIOUS
  <2>5. lv.size \in Nat /\ id \in DOMAIN orders /\ orders[id].size > 0 /\ orders[id].size <= lv.size
    BY <2>1, <2>2, <2>4, <2>o, ExactSize
  <2>6. orders[id].size \in Nat
    <3>1. orders[id] \in OrderRec
      BY <2>1, <2>5, LenProperties, ElementOfSeq
    <3> QED BY <3>1 DEF OrderRec
  <2>7. lv.size > 0
    BY <2>5, <2>6
  <2>8. /\ OfferedIn(s, levels, p) \in Nat
        /\ \A j \in DOMAIN levels : ~Better(s, p, levels[j].price) => levels[j].size <= OfferedIn(s, levels, p)
    BY <2>1, OfferedType
  <2>9. lv.size <= OfferedIn(s, levels, p)
    BY <1>1, <2>8, <2>i
  <2> QED BY <2>5, <2>7, <2>8, <2>9, <2>L
<1>2. ASSUME NEW s \in Sides, NEW lv \in Range(book[s]) PROVE lv.price \in Nat
  <2>1. book[s] \in Seq(LevelRec)
    BY DEF BookInv, Standing
  <2>2. lv \in LevelRec
    BY <2>1, LenProperties, ElementOfSeq DEF Range
  <2> QED BY <2>2 DEF LevelRec
<1>3. b.price \in Nat /\ a.price \in Nat
  BY <1>2 DEF Sides
<1> SUFFICES ASSUME b.price >= a.price PROVE FALSE
  BY <1>3
<1>p. PICK p : p = b.price
  OBVIOUS
<1>4. p \in Nat /\ p \in PricesOf(book)
  BY <1>3, <1>p DEF PricesOf, Sides
<1>5. ~Better("bid", p, b.price) /\ ~Better("ask", p, a.price)
  BY <1>3, <1>p DEF Better
<1>6. OfferedIn("bid", book["bid"], p) > 0 /\ OfferedIn("ask", book["ask"], p) > 0
  BY <1>1, <1>4, <1>5 DEF Sides
<1>7. PICK s \in Sides : OfferedIn(s, book[s], p) <= 0
  BY <1>4
<1>8. OfferedIn(s, book[s], p) > 0 /\ OfferedIn(s, book[s], p) \in Nat
  <2>1. OfferedIn(s, book[s], p) > 0
    BY <1>6 DEF Sides
  <2>2. book[s] \in Seq(LevelRec)
    BY DEF BookInv, Standing
  <2> QED BY <2>1, <2>2, OfferedType
<1> QED BY <1>7, <1>8

(***************************************************************************)
(* When all that was announced is executed, the auction may close.          *)
(***************************************************************************)
LEMMA EndMatchingInv == Inv /\ EndMatching => Inv'
<1> SUFFICES ASSUME Inv, EndMatching PROVE Inv'
  OBVIOUS
<1>1. /\ phase = "share" /\ phase' = "close" /\ total = 0
      /\ shares' = [s \in Sides |-> <<>>] /\ pos' = [s \in Sides |-> 1]
      /\ orders' = orders /\ book' = book /\ total' = total /\ price' = price
      /\ reports' = reports /\ published' = published /\ ledger' = ledger
  BY DEF EndMatching
<1>2. /\ lastPrice' = lastPrice /\ rows' = rows /\ division' = division
      /\ cancels' = cancels /\ auctions' = auctions
  BY DEF EndMatching
<1>3. Basis'
  <2>1. BookInv /\ NoneEmpty /\ AuctionTypes
    BY DEF Inv, Basis
  <2>2. BookInv'
    BY <1>1, <2>1 DEF BookInv
  <2>3. NoneEmpty'
    BY <1>1, <2>1 DEF NoneEmpty
  <2>4. AuctionTypes'
    <3>1. DOMAIN shares' = Sides /\ \A s \in Sides : shares'[s] \in Seq(Nat)
      BY <1>1
    <3>2. DOMAIN pos' = Sides /\ \A s \in Sides : pos'[s] \in Nat \ {0}
      BY <1>1
    <3> QED BY <1>1, <1>2, <2>1, <3>1, <3>2 DEF AuctionTypes, Phases
  <2>5. Quiet' /\ DividedSide'
    BY <1>1 DEF Quiet, DividedSide, Trading
  <2> QED BY <2>2, <2>3, <2>4, <2>5 DEF Basis
<1>4. Parts' /\ Enough'
  BY <1>1 DEF Parts, Enough, Trading
<1>5. Most' /\ Reported'
  BY <1>1 DEF Inv, Most, Reported, Announced, Trading
<1>6. LedgerInv' /\ PublishedKnown' /\ MarketsHidden'
  BY <1>1 DEF Inv, LedgerInv, PublishedKnown, MarketsHidden
<1>7. PriceSoFar' /\ Even'
  BY <1>1 DEF PriceSoFar, Even
<1>8. Uncrossed'
  <2> SUFFICES ASSUME NEW b \in Range(book["bid"]), NEW a \in Range(book["ask"])
               PROVE  b.price < a.price
    BY <1>1 DEF Uncrossed, NoCross
  <2>1. BookInv /\ \A s \in Sides : \A lv \in Range(book[s]) : lv.ids # <<>>
    BY <1>1 DEF Inv, Basis, NoneEmpty, Range
  <2>2. b.ids # <<>> /\ a.ids # <<>>
    BY <2>1 DEF Sides
  <2>3. \A p \in PricesOf(book) : \E s \in Sides : OfferedIn(s, book[s], p) <= 0
    BY <1>1 DEF Inv, Most, Announced, Trading
  <2> QED BY <2>1, <2>2, <2>3, NothingLeft
<1> QED BY <1>3, <1>4, <1>5, <1>6, <1>7, <1>8 DEF Inv

(***************************************************************************)
(* The orders that rest have seen one auction more, all of them.            *)
(***************************************************************************)
LEMMA CloseAuctionInv == Inv /\ CloseAuction => Inv'
<1> SUFFICES ASSUME Inv, CloseAuction PROVE Inv'
  OBVIOUS
<1>1. /\ phase = "close" /\ phase' = "publish" /\ reports' = <<>>
      /\ orders' = [i \in DOMAIN orders |->
                      IF i \in Resting THEN [orders[i] EXCEPT !.counter = @ + 1] ELSE orders[i]]
      /\ book' = book /\ total' = total /\ price' = price /\ shares' = shares
      /\ pos' = pos /\ published' = published /\ ledger' = ledger
  BY DEF CloseAuction, auction
<1>2. /\ lastPrice' = lastPrice /\ rows' = rows /\ division' = division
      /\ cancels' = cancels /\ auctions' = auctions
  BY DEF CloseAuction, auction
<1>n. PICK new : new = orders'
  OBVIOUS
<1>3. BookInv /\ NoneEmpty /\ AuctionTypes /\ Quiet
  BY DEF Inv, Basis
<1>4. orders \in Seq(OrderRec) /\ (\A id \in DOMAIN orders : Priced(orders[id])) /\ DOMAIN new = DOMAIN orders
      /\ DOMAIN orders = 1..Len(orders) /\ Len(orders) \in Nat
  BY <1>1, <1>3, <1>n, LenProperties DEF BookInv, Known
<1>5. ASSUME NEW i \in DOMAIN orders
      PROVE  /\ new[i] \in OrderRec /\ new[i].kind = orders[i].kind /\ new[i].side = orders[i].side
             /\ new[i].price = orders[i].price /\ new[i].size = orders[i].size
             /\ i \in Resting => new[i].counter = orders[i].counter + 1
             /\ orders[i].counter \in Nat /\ orders[i].size \in Nat
  <2>o. PICK o : o = orders[i]
    OBVIOUS
  <2>1. o \in OrderRec
    BY <1>4, <2>o, LenProperties, ElementOfSeq
  <2>2. o.counter \in Nat /\ o.counter + 1 \in Nat /\ o.size \in Nat
    BY <2>1 DEF OrderRec
  <2>3. new[i] = IF i \in Resting THEN [o EXCEPT !.counter = o.counter + 1] ELSE o
    BY <1>1, <1>n, <2>o
  <2> QED BY <2>1, <2>2, <2>3, <2>o DEF OrderRec
<1>6. Known(new)
  <2>1. new \in [1..Len(orders) -> OrderRec]
    <3>1. new = [i \in 1..Len(orders) |-> new[i]]
      BY <1>1, <1>4, <1>n
    <3> QED BY <1>4, <1>5, <3>1
  <2>2. new \in Seq(OrderRec)
    BY <1>4, <2>1
  <2>3. \A id \in DOMAIN new : Priced(new[id])
    BY <1>4, <1>5 DEF Priced
  <2> QED BY <2>2, <2>3 DEF Known
<1>7. ASSUME NEW s \in Sides PROVE Standing(new, s, book[s])
  <2>L. PICK levels : levels = book[s]
    OBVIOUS
  <2>1. Standing(orders, s, levels)
    BY <1>3, <2>L DEF BookInv
  <2>2. levels \in Seq(LevelRec) /\ ExactSide(orders, s, levels) /\ \A lv \in Range(levels) : Aged(orders, lv.ids)
    BY <2>1 DEF Standing
  <2>3. OfSide(new, s) = OfSide(orders, s)
        /\ \A j \in OfSide(orders, s) : new[j].price = orders[j].price /\ new[j].size = orders[j].size
    BY <1>4, <1>5 DEF OfSide
  <2>4. ExactSide(new, s, levels)
    BY <1>4, <2>2, <2>3, SideSame
  <2>5. ASSUME NEW lv \in Range(levels) PROVE Aged(new, lv.ids)
    <3>1. ExactLevel(orders, s, lv) /\ Aged(orders, lv.ids)
      BY <2>2 DEF ExactSide
    <3>2. \A j \in DOMAIN lv.ids : lv.ids[j] \in DOMAIN orders
      BY <3>1 DEF ExactLevel, Belongs, Range
    <3>3. \A j \in DOMAIN lv.ids : lv.ids[j] \in Resting
      <4>1. \A j \in DOMAIN lv.ids : lv.ids[j] \in Range(lv.ids)
        BY DEF Range
      <4> QED BY <2>L, <4>1 DEF Resting
    <3>4. \A j \in DOMAIN lv.ids : /\ new[lv.ids[j]].counter = orders[lv.ids[j]].counter + 1
                                   /\ orders[lv.ids[j]].counter \in Nat
      BY <1>5, <3>2, <3>3
    <3> QED BY <3>1, <3>4 DEF Aged
  <2> QED BY <2>2, <2>4, <2>5, <2>L DEF Standing
<1>8. Basis'
  <2>1. BookInv'
    <3>1. Known(orders') /\ DOMAIN book' = Sides /\ \A s \in Sides : Standing(orders', s, book'[s])
      BY <1>1, <1>3, <1>6, <1>7, <1>n DEF BookInv
    <3> QED BY <3>1 DEF BookInv
  <2>2. NoneEmpty'
    BY <1>1, <1>3 DEF NoneEmpty
  <2>3. AuctionTypes'
    BY <1>1, <1>2, <1>3 DEF AuctionTypes, Phases
  <2>4. Quiet' /\ DividedSide'
    BY <1>1, <1>3 DEF Quiet, DividedSide, Trading
  <2> QED BY <2>1, <2>2, <2>3, <2>4 DEF Basis
<1>9. LedgerInv'
  <2>1. Len(orders') = Len(orders)
    <3>1. new \in Seq(OrderRec)
      BY <1>6 DEF Known
    <3>2. DOMAIN new = 1..Len(new) /\ Len(new) \in Nat
      BY <3>1, LenProperties
    <3>3. 1..Len(new) = 1..Len(orders)
      BY <1>4, <3>2
    <3> QED BY <1>4, <1>n, <3>2, <3>3, SameLength
  <2>2. \A id \in DOMAIN orders' : id \in DOMAIN orders /\ orders'[id].size = orders[id].size
    BY <1>4, <1>5, <1>n
  <2>3. LedgerInv
    BY DEF Inv
  <2> QED BY <1>1, <2>1, <2>2, <2>3 DEF LedgerInv
<1>10. Parts' /\ Enough' /\ Most'
  BY <1>1 DEF Parts, Enough, Most, Announced, Trading
<1>11. Reported'
  <2>1. \A i \in 2..Len(reports') : FALSE
    BY <1>1
  <2> QED BY <1>1, <2>1 DEF Reported, Trading
<1>12. PublishedKnown' /\ MarketsHidden'
  BY <1>1 DEF Inv, PublishedKnown, MarketsHidden
<1>13. PriceSoFar' /\ Even'
  BY <1>1 DEF PriceSoFar, Even
<1>14. Uncrossed'
  BY <1>1 DEF Inv, Uncrossed
<1> QED BY <1>8, <1>9, <1>10, <1>11, <1>12, <1>13, <1>14 DEF Inv

(***************************************************************************)
(* What is sent are levels of limit orders.                                 *)
(***************************************************************************)
LEMMA VisibleLevels ==
    ASSUME BookInv, \A s \in Sides : \A lv \in Range(book[s]) : lv.ids # <<>>,
           NEW s \in Sides, NEW n \in Nat, NEW lv \in Visible(s, n)
    PROVE  lv \in Range(book[s]) /\ lv \in LevelRec /\ lv.price \in Prices
<1>L. PICK levels : levels = book[s]
  OBVIOUS
<1>1. levels \in Seq(LevelRec) /\ Standing(orders, s, levels) /\ orders \in Seq(OrderRec)
      /\ DOMAIN levels = 1..Len(levels) /\ Len(levels) \in Nat /\ \A id \in DOMAIN orders : Priced(orders[id])
  BY <1>L, LenProperties DEF BookInv, Standing, Known
<1>2. PICK i \in 1..Least(n, Len(levels)) : lv = levels[i]
  BY <1>L DEF Visible
<1>3. i \in DOMAIN levels
  <2>2. Least(n, Len(levels)) <= Len(levels) /\ Least(n, Len(levels)) \in Nat
    BY <1>1 DEF Least
  <2>3. i \in 1..Len(levels)
    BY <1>1, <2>2
  <2> QED BY <1>1, <2>3
<1>4. lv \in Range(levels) /\ lv \in LevelRec
  <2>1. lv \in Range(levels)
    BY <1>2, <1>3 DEF Range
  <2> QED BY <1>1, <1>2, <1>3, <2>1, LenProperties, ElementOfSeq
<1>5. 1 \in DOMAIN lv.ids
  <2>1. lv.ids \in Seq(Nat)
    BY <1>4 DEF LevelRec
  <2>2. lv.ids # <<>>
    BY <1>4, <1>L
  <2>3. DOMAIN lv.ids = 1..Len(lv.ids) /\ Len(lv.ids) \in Nat /\ Len(lv.ids) # 0
    BY <2>1, <2>2, LenProperties, EmptySeq
  <2>4. 1 \in 1..Len(lv.ids)
    BY <2>3
  <2> QED BY <2>3, <2>4
<1>o. PICK id : id = lv.ids[1]
  OBVIOUS
<1>6. id \in DOMAIN orders /\ orders[id] \in OrderRec /\ orders[id].price = lv.price
  <2>1. 1 \in DOMAIN levels[i].ids /\ id = levels[i].ids[1]
    BY <1>2, <1>5, <1>o
  <2>2. id \in DOMAIN orders /\ orders[id] \in OrderRec /\ orders[id].price = levels[i].price
    BY <1>1, <1>3, <2>1, OrderInLevel
  <2> QED BY <1>2, <2>2
<1>7. orders[id].kind # "MARKET"
  BY <1>o DEF Visible
<1>8. orders[id].kind = "LIMIT"
  BY <1>6, <1>7 DEF OrderRec, Kinds
<1>9. orders[id].price \in Prices
  BY <1>1, <1>6, <1>8 DEF Priced
<1> QED BY <1>4, <1>6, <1>9, <1>L

(***************************************************************************)
(* So no sentinel is sent.                                                  *)
(***************************************************************************)
LEMMA SentLevels ==
    ASSUME Inv, phase \in {"idle", "publish"}, NEW s \in Sides, NEW n \in Nat
    PROVE  /\ Sent(s, n) \in SUBSET [price: Nat, size: Nat]
           /\ \A x \in Sent(s, n) : \E lv \in Range(book[s]) : lv.price \in Prices /\ x.price = lv.price
<1>1. BookInv /\ \A t \in Sides : \A lv \in Range(book[t]) : lv.ids # <<>>
  BY DEF Inv, Basis, NoneEmpty, Range
<1>2. \A lv \in Visible(s, n) : lv \in Range(book[s]) /\ lv \in LevelRec /\ lv.price \in Prices
  BY <1>1, VisibleLevels
<1>3. \A lv \in Visible(s, n) : [price |-> lv.price, size |-> lv.size] \in [price: Nat, size: Nat]
  BY <1>2 DEF LevelRec
<1>4. ASSUME NEW x \in Sent(s, n)
      PROVE  /\ x \in [price: Nat, size: Nat]
             /\ \E lv \in Range(book[s]) : lv.price \in Prices /\ x.price = lv.price
  <2>1. PICK lv \in Visible(s, n) : x = [price |-> lv.price, size |-> lv.size]
    BY <1>4 DEF Sent
  <2> QED BY <1>2, <1>3, <2>1
<1> QED BY <1>4

(***************************************************************************)
(* What is sent when m_spinlock is free has its type and no sentinel.       *)
(***************************************************************************)
LEMMA SentKnown ==
    ASSUME Inv, phase \in {"idle", "publish"}, NEW n, n \in [Sides -> Nat],
           published' = [s \in Sides |-> Sent(s, n[s])]
    PROVE  PublishedKnown' /\ MarketsHidden'
<1>1. \A s \in Sides : n[s] \in Nat
  OBVIOUS
<1>2. ASSUME NEW s \in Sides
      PROVE  /\ published'[s] \in SUBSET [price: Nat, size: Nat]
             /\ \A x \in published'[s] : x.price \in Prices
  <2>1. PICK m \in Nat : m = n[s]
    BY <1>1
  <2>2. published'[s] = Sent(s, m)
    BY <2>1
  <2>3. /\ Sent(s, m) \in SUBSET [price: Nat, size: Nat]
        /\ \A x \in Sent(s, m) : \E lv \in Range(book[s]) : lv.price \in Prices /\ x.price = lv.price
    BY SentLevels
  <2> QED BY <2>2, <2>3
<1>3. published' \in [Sides -> SUBSET [price: Nat, size: Nat]]
  BY <1>2
<1> QED BY <1>2, <1>3 DEF PublishedKnown, MarketsHidden

(***************************************************************************)
(* A book that is broadcast does not cross.                                 *)
(***************************************************************************)
LEMMA BroadcastUncrossed ==
    ASSUME Inv, Publish
    PROVE  \A b \in published'["bid"], a \in published'["ask"] : b.price < a.price
<1>1. phase = "publish" /\ published' = [s \in Sides |-> Sent(s, MaxLevel)] /\ MaxLevel \in Nat
  BY AuctionAssumption DEF Publish
<1>2. "bid" \in Sides /\ "ask" \in Sides
  BY DEF Sides
<1>3. published'["bid"] = Sent("bid", MaxLevel) /\ published'["ask"] = Sent("ask", MaxLevel)
  BY <1>1, <1>2
<1>4. SUFFICES ASSUME NEW b \in Sent("bid", MaxLevel), NEW a \in Sent("ask", MaxLevel)
               PROVE  b.price < a.price
  BY <1>3
<1>5. PICK x \in Range(book["bid"]) : x.price \in Prices /\ b.price = x.price
  BY <1>1, <1>2, SentLevels
<1>6. PICK y \in Range(book["ask"]) : y.price \in Prices /\ a.price = y.price
  BY <1>1, <1>2, SentLevels
<1>7. NoCross(x, y)
  BY <1>1 DEF Inv, Uncrossed
<1> QED BY <1>5, <1>6, <1>7 DEF NoCross

\* Publishing changes nothing else but the phase.
LEMMA PublishInv == Inv /\ Publish => Inv'
<1> SUFFICES ASSUME Inv, Publish PROVE Inv'
  OBVIOUS
<1>1. /\ phase = "publish" /\ phase' = "idle"
      /\ orders' = orders /\ book' = book /\ total' = total /\ price' = price /\ shares' = shares
      /\ pos' = pos /\ reports' = reports /\ ledger' = ledger
  BY DEF Publish, auction
<1>2. /\ lastPrice' = lastPrice /\ rows' = rows /\ division' = division
      /\ cancels' = cancels /\ auctions' = auctions
  BY DEF Publish, auction
<1>3. BookInv /\ NoneEmpty /\ AuctionTypes /\ Quiet
  BY DEF Inv, Basis
<1>4. Basis'
  <2>1. BookInv'
    BY <1>1, <1>3 DEF BookInv
  <2>2. NoneEmpty'
    BY <1>1, <1>3 DEF NoneEmpty
  <2>3. AuctionTypes'
    BY <1>1, <1>2, <1>3 DEF AuctionTypes, Phases
  <2>4. Quiet' /\ DividedSide'
    BY <1>1, <1>3 DEF Quiet, DividedSide, Trading
  <2> QED BY <2>1, <2>2, <2>3, <2>4 DEF Basis
<1>5. Parts' /\ Enough' /\ Most'
  BY <1>1 DEF Inv, Parts, Enough, Most, Announced, Trading
<1>6. Reported'
  BY <1>1 DEF Inv, Reported, Announced, Trading
<1>7. LedgerInv'
  BY <1>1 DEF Inv, LedgerInv
<1>8. PriceSoFar' /\ Even' /\ Uncrossed'
  BY <1>1 DEF PriceSoFar, Even, Uncrossed
<1>9. PublishedKnown' /\ MarketsHidden'
  <2>1. PICK n : n = [s \in Sides |-> MaxLevel]
    OBVIOUS
  <2>2. n \in [Sides -> Nat]
    BY <2>1, AuctionAssumption
  <2>3. published' = [s \in Sides |-> Sent(s, n[s])]
    BY <2>1 DEF Publish
  <2> QED BY <1>1, <2>2, <2>3, SentKnown
<1> QED BY <1>4, <1>5, <1>6, <1>7, <1>8, <1>9 DEF Inv

\* A logon changes what was sent, and nothing else.
LEMMA OnLogonInv == Inv /\ OnLogon => Inv'
<1> SUFFICES ASSUME Inv, OnLogon PROVE Inv'
  OBVIOUS
<1>1. /\ orders' = orders /\ book' = book /\ lastPrice' = lastPrice /\ phase' = phase /\ rows' = rows
      /\ total' = total /\ price' = price /\ shares' = shares /\ pos' = pos /\ division' = division
      /\ reports' = reports /\ ledger' = ledger /\ cancels' = cancels /\ auctions' = auctions
  BY DEF OnLogon, auction
<1>2. Basis'
  BY <1>1 DEF Inv, Basis, BookInv, NoneEmpty, AuctionTypes, Quiet, DividedSide, Trading
<1>3. LedgerInv'
  BY <1>1 DEF Inv, LedgerInv
<1>4. Parts' /\ Enough'
  BY <1>1 DEF Inv, Parts, Enough, Tight, Trading, IsDivided
<1>5. Most' /\ Reported' /\ Uncrossed' /\ PriceSoFar'
  BY <1>1 DEF Inv, Most, Reported, Announced, Trading, Uncrossed, PriceSoFar
<1>6. Even'
  BY <1>1 DEF Inv, Even, BySize, OrderAt, First
<1>7. PublishedKnown' /\ MarketsHidden'
  <2>1. PICK n : n = [s \in Sides |-> Len(book[s])]
    OBVIOUS
  <2>2. \A s \in Sides : Len(book[s]) \in Nat
    BY LenProperties DEF Inv, Basis, BookInv, Standing
  <2>3. n \in [Sides -> Nat]
    BY <2>1, <2>2
  <2>4. published' = [s \in Sides |-> Sent(s, n[s])] /\ phase \in {"idle", "publish"}
    BY <2>1 DEF OnLogon
  <2> QED BY <2>3, <2>4, SentKnown
<1> QED BY <1>2, <1>3, <1>4, <1>5, <1>6, <1>7 DEF Inv

(***************************************************************************)
(* Between two auctions nothing but the book and the ledger changes.        *)
(***************************************************************************)
LEMMA IdleInv ==
    ASSUME Inv, phase = "idle", phase' = "idle", UNCHANGED <<auction, reports, published, auctions>>,
           cancels' \in Nat, BookInv', NoneEmpty', LedgerInv'
    PROVE  Inv'
<1>1. /\ total' = total /\ price' = price /\ shares' = shares /\ pos' = pos
      /\ reports' = reports /\ published' = published
  BY DEF auction
<1>2. lastPrice' = lastPrice /\ rows' = rows /\ division' = division /\ auctions' = auctions
  BY DEF auction
<1>3. Basis'
  <2>1. AuctionTypes /\ Quiet
    BY DEF Inv, Basis
  <2>2. AuctionTypes'
    BY <1>1, <1>2, <2>1 DEF AuctionTypes, Phases
  <2>3. Quiet' /\ DividedSide'
    BY <1>1, <2>1 DEF Quiet, DividedSide, Trading
  <2> QED BY <2>2, <2>3 DEF Basis
<1>4. Parts' /\ Enough' /\ Most'
  <2>1. reports = <<>>
    BY DEF Inv, Reported, Announced, Trading
  <2> QED BY DEF Parts, Enough, Most, Announced, Trading
<1>5. Reported'
  <2>1. reports = <<>>
    BY DEF Inv, Reported, Announced, Trading
  <2>2. \A i \in 2..Len(reports') : FALSE
    BY <1>1, <2>1
  <2> QED BY <1>1, <2>1, <2>2 DEF Reported, Trading
<1>6. PriceSoFar' /\ Even' /\ Uncrossed'
  BY DEF PriceSoFar, Even, Uncrossed
<1>7. PublishedKnown' /\ MarketsHidden'
  BY <1>1 DEF Inv, PublishedKnown, MarketsHidden
<1> QED BY <1>3, <1>4, <1>5, <1>6, <1>7 DEF Inv

(***************************************************************************)
(* A side whose orders do not change keeps its levels.                      *)
(***************************************************************************)
LEMMA OtherStands ==
    ASSUME NEW os \in Seq(OrderRec), NEW new, NEW s, NEW levels, Standing(os, s, levels),
           OfSide(new, s) = OfSide(os, s), \A j \in OfSide(os, s) : new[j] = os[j]
    PROVE  Standing(new, s, levels)
<1>1. levels \in Seq(LevelRec) /\ ExactSide(os, s, levels) /\ \A lv \in Range(levels) : Aged(os, lv.ids)
  BY DEF Standing
<1>2. ExactSide(new, s, levels)
  <2>1. \A j \in OfSide(os, s) : new[j].price = os[j].price /\ new[j].size = os[j].size
    OBVIOUS
  <2> QED BY <1>1, <2>1, SideSame
<1>3. ASSUME NEW lv \in Range(levels) PROVE Aged(new, lv.ids)
  <2>1. ExactLevel(os, s, lv) /\ Aged(os, lv.ids)
    BY <1>1 DEF ExactSide
  <2>2. \A j \in DOMAIN lv.ids : lv.ids[j] \in OfSide(os, s)
    BY <2>1 DEF ExactLevel, Belongs, Range, OfSide
  <2>3. \A j \in DOMAIN lv.ids : new[lv.ids[j]] = os[lv.ids[j]]
    BY <2>2
  <2> QED BY <2>1, <2>3 DEF Aged
<1> QED BY <1>1, <1>2, <1>3 DEF Standing

\* Order id of side s changed, and the levels of that side with it.
OneSideTended(s, id) ==
    /\ s \in Sides /\ Known(orders') /\ DOMAIN orders \subseteq DOMAIN orders'
    /\ (\A j \in DOMAIN orders' \ {id} : j \in DOMAIN orders /\ orders'[j] = orders[j])
    /\ id \in DOMAIN orders' /\ orders'[id].side = s
    /\ (id \in DOMAIN orders => orders[id].side = s)
    /\ DOMAIN book' = Sides /\ (\A t \in Sides \ {s} : book'[t] = book[t])
    /\ book'[s] \in Seq(LevelRec) /\ Tended(orders', s, book'[s])

\* Such a change keeps the whole book sorted, exact and by age.
LEMMA BookKept ==
    ASSUME BookInv, NoneEmpty, phase = "idle", phase' = "idle", NEW s, NEW id, OneSideTended(s, id)
    PROVE  BookInv' /\ NoneEmpty'
<1>1. Known(orders') /\ DOMAIN book' = Sides /\ s \in Sides
  BY DEF OneSideTended
<1>2. ASSUME NEW t \in Sides PROVE /\ Standing(orders', t, book'[t])
                                   /\ \A lv \in Range(book'[t]) : lv.ids # <<>>
  <2>1. CASE t = s
    BY <2>1 DEF OneSideTended, Tended, Standing
  <2>2. CASE t # s
    <3>1. book'[t] = book[t] /\ Standing(orders, t, book[t]) /\ orders \in Seq(OrderRec)
      BY <2>2 DEF OneSideTended, BookInv, Known
    <3>2. OfSide(orders', t) = OfSide(orders, t)
      BY <2>2 DEF OfSide, OneSideTended
    <3>3. \A j \in OfSide(orders, t) : orders'[j] = orders[j]
      BY <2>2 DEF OfSide, OneSideTended
    <3>4. Standing(orders', t, book[t])
      BY <3>1, <3>2, <3>3, OtherStands
    <3>5. \A lv \in Range(book[t]) : lv.ids # <<>>
      BY DEF NoneEmpty, Range
    <3> QED BY <3>1, <3>4, <3>5
  <2> QED BY <2>1, <2>2
<1>3. BookInv'
  BY <1>1, <1>2 DEF BookInv
<1>4. NoneEmpty'
  BY <1>2 DEF NoneEmpty, Range
<1> QED BY <1>3, <1>4

(***************************************************************************)
(* A submission keeps the invariant.                                        *)
(***************************************************************************)
LEMMA InsertLocalInv == ASSUME Inv, NEW o \in Submissions, InsertLocal(o) PROVE Inv'
<1>s. PICK s : s = o.side
  OBVIOUS
<1>n. PICK n : n = Len(orders)
  OBVIOUS
<1>w. PICK new : new = orders'
  OBVIOUS
<1>r. PICK r : r = [kind |-> o.kind, side |-> o.side, size |-> o.size, counter |-> 0,
                    price |-> IF o.kind = "MARKET" THEN TopPrice(o.side) ELSE o.price]
  OBVIOUS
<1>e. PICK e : e = [trader |-> n + 1, submitted |-> o.size, filled |-> 0, cancelled |-> 0]
  OBVIOUS
<1>1. BookInv /\ NoneEmpty /\ LedgerInv /\ orders \in Seq(OrderRec) /\ n \in Nat /\ DOMAIN orders = 1..n
      /\ DOMAIN book = Sides
  BY <1>n, LenProperties DEF Inv, Basis, BookInv, Known
<1>2. /\ phase = "idle" /\ phase' = "idle" /\ n < MaxOrders /\ new = Append(orders, r)
      /\ UNCHANGED <<auction, reports, published, cancels, auctions>>
  BY <1>n, <1>r, <1>w DEF InsertLocal
<1>3. /\ o \in [kind: Kinds, side: Sides, price: Prices \cup {0}, size: Nat \ {0}]
      /\ o.kind = "LIMIT" <=> o.price \in Prices
  BY AuctionAssumption
<1>4. r \in OrderRec /\ r.side = s /\ r.size = o.size /\ o.size \in Nat /\ o.size > 0 /\ s \in Sides /\ Priced(r)
      /\ r.price \in Nat
  <2>1. o.kind \in Kinds /\ o.side \in Sides /\ o.size \in Nat \ {0} /\ o.price \in Prices \cup {0}
    <3>1. o \in [kind: Kinds, side: Sides, price: Prices \cup {0}, size: Nat \ {0}]
      BY <1>3
    <3> QED BY <3>1
  <2>2. Prices \subseteq Nat /\ DblMin \in Nat /\ DblMax \in Nat
    BY AuctionAssumption
  <2>3. TopPrice(o.side) \in Nat /\ o.price \in Nat
    <3>1. TopPrice(o.side) = DblMax \/ TopPrice(o.side) = DblMin
      BY DEF TopPrice
    <3>2. TopPrice(o.side) \in Nat
      BY <2>2, <3>1
    <3>p. PICK p : p = o.price
      OBVIOUS
    <3>a. p \in Prices \/ p = 0
      BY <2>1, <3>p
    <3>b. ASSUME p \in Prices PROVE o.price \in Nat
      <4>1. \A x \in Prices : x \in Nat
        BY <2>2
      <4>2. p \in Nat
        BY <3>b, <4>1
      <4> QED BY <3>p, <4>2
    <3>c. ASSUME p = 0 PROVE o.price \in Nat
      <4>1. p \in Nat
        BY <3>c
      <4> QED BY <3>p, <4>1
    <3>3. o.price \in Nat
      BY <3>a, <3>b, <3>c
    <3> QED BY <3>2, <3>3
  <2>4. r.price = (IF o.kind = "MARKET" THEN TopPrice(o.side) ELSE o.price) /\ r.kind = o.kind /\ r.side = o.side
        /\ r.size = o.size
    BY <1>r
  <2>5. r.price \in Nat
    BY <2>3, <2>4
  <2>6. r \in OrderRec
    BY <1>r, <2>1, <2>3 DEF OrderRec
  <2>7. Priced(r)
    BY <1>3, <2>1, <2>4 DEF Priced, Kinds
  <2> QED BY <1>s, <2>1, <2>4, <2>5, <2>6, <2>7
<1>5. /\ new \in Seq(OrderRec) /\ Len(new) = n + 1 /\ new[n + 1] = r /\ \A i \in 1..n : new[i] = orders[i]
  BY <1>1, <1>2, <1>4, <1>n, AppendProperties
<1>6. DOMAIN new = 1..(n + 1)
  BY <1>5, LenProperties
<1>i. PICK id : id = n + 1
  OBVIOUS
<1>7. /\ id \in DOMAIN new /\ id \notin DOMAIN orders /\ new[id] = r
      /\ \A j \in DOMAIN new \ {id} : j \in DOMAIN orders /\ new[j] = orders[j]
      /\ \A j \in DOMAIN orders : j \in DOMAIN new /\ new[j] = orders[j] /\ j # id
  BY <1>1, <1>5, <1>6, <1>i
<1>8. Known(new)
  <2>1. \A j \in DOMAIN orders : Priced(orders[j])
    BY <1>1 DEF BookInv, Known
  <2>2. \A j \in DOMAIN new : Priced(new[j])
    BY <1>4, <1>7, <2>1
  <2> QED BY <1>5, <2>2 DEF Known
<1>9. Changes(orders, new, s, id, new[id].price)
  <2>1. AgreeBut(orders, new, s, id)
    BY <1>7 DEF AgreeBut, OfSide
  <2>2. ChangedOrder(orders, new, s, id, new[id].price)
    BY <1>4, <1>7 DEF ChangedOrder
  <2> QED BY <1>7, <2>1, <2>2 DEF Changes
<1>10. book[s] \in Seq(LevelRec) /\ Tended(orders, s, book[s])
  BY <1>1, <1>2, <1>4 DEF BookInv, Standing, Tended, NoneEmpty, Range
<1>a. PICK after : after = Inserted(s, new, id)
  OBVIOUS
<1>11. after \in Seq(LevelRec) /\ Tended(new, s, after)
  <2>1. new[id].size > 0
    BY <1>4, <1>7
  <2> QED BY <1>1, <1>5, <1>7, <1>9, <1>10, <1>a, <2>1, InsertedTended
<1>12. book' = [book EXCEPT ![s] = after]
  <2>1. Len(new) = id
    BY <1>5, <1>i
  <2>2. book' = [book EXCEPT ![s] = Inserted(s, orders', Len(orders'))]
    BY <1>s DEF InsertLocal
  <2> QED BY <1>a, <1>w, <2>1, <2>2
<1>13. /\ DOMAIN book' = Sides /\ book'[s] = after /\ \A t \in Sides \ {s} : book'[t] = book[t]
  BY <1>1, <1>4, <1>12
<1>14. OneSideTended(s, id)
  BY <1>4, <1>7, <1>8, <1>11, <1>13, <1>w DEF OneSideTended
<1>15. BookInv' /\ NoneEmpty'
  BY <1>1, <1>2, <1>14, BookKept
<1>16. LedgerInv'
  <2>1. ledger' = Append(ledger, e)
    <3>1. ledger' = Append(ledger, [trader |-> Len(new), submitted |-> o.size, filled |-> 0, cancelled |-> 0])
      BY <1>w DEF InsertLocal
    <3> QED BY <1>5, <1>e, <3>1
  <2>2. e \in LedgerRec
    <3>1. n + 1 \in 1..MaxOrders
      <4>1. MaxOrders \in Nat
        BY AuctionAssumption
      <4> QED BY <1>1, <1>2, <4>1
    <3>2. o.size \in {x.size : x \in Submissions}
      OBVIOUS
    <3> QED BY <1>e, <3>1, <3>2 DEF LedgerRec
  <2>3. /\ ledger \in Seq(LedgerRec) /\ Len(ledger) = n
        /\ \A i \in DOMAIN orders :
              /\ ledger[i].submitted = ledger[i].filled + ledger[i].cancelled + orders[i].size
              /\ ledger[i].trader = i
    BY <1>1, <1>n DEF LedgerInv
  <2>R. PICK R : R = LedgerRec
    OBVIOUS
  <2>4. ledger \in Seq(R) /\ e \in R
    BY <2>2, <2>3, <2>R
  <2>5. /\ ledger' \in Seq(R) /\ Len(ledger') = n + 1 /\ ledger'[n + 1] = e
        /\ \A i \in 1..n : ledger'[i] = ledger[i]
    BY <2>1, <2>3, <2>4, AppendProperties
  <2>6. Len(ledger') = Len(orders')
    BY <1>5, <1>w, <2>5
  <2>7. ASSUME NEW i \in DOMAIN orders'
        PROVE  /\ ledger'[i].submitted = ledger'[i].filled + ledger'[i].cancelled + orders'[i].size
               /\ ledger'[i].trader = i
    <3>1. CASE i = id
      <4>1. ledger'[i] = e /\ orders'[i] = r
        BY <1>7, <1>i, <1>w, <2>5, <3>1
      <4>2. e.submitted = o.size /\ e.filled = 0 /\ e.cancelled = 0 /\ e.trader = id
        BY <1>e, <1>i
      <4> QED BY <1>4, <3>1, <4>1, <4>2
    <3>2. CASE i # id
      <4>1. i \in DOMAIN orders /\ i \in 1..n
        BY <1>1, <1>7, <1>w, <3>2
      <4>2. orders'[i] = orders[i] /\ ledger'[i] = ledger[i]
        BY <1>7, <1>w, <2>5, <4>1
      <4> QED BY <2>3, <4>1, <4>2
    <3> QED BY <3>1, <3>2
  <2> QED BY <2>5, <2>6, <2>7, <2>R DEF LedgerInv
<1>17. cancels' \in Nat
  BY <1>2 DEF Inv, Basis, AuctionTypes
<1> QED BY <1>2, <1>15, <1>16, <1>17, IdleInv

\* Where a cancellation finds its order: the i-th of the l-th level.
Found(s, id, l, i) ==
    /\ book[s] \in Seq(LevelRec) /\ l \in DOMAIN book[s]
    /\ i \in DOMAIN book[s][l].ids /\ book[s][l].ids[i] = id

\* The level and the order the search returns are the ones that were looked for.
LEMMA CancelFinds ==
    ASSUME NEW s, book[s] \in Seq(LevelRec), NEW p, NEW id, NEW l, l = CancelLevel(s, p),
           NEW i, i = (IF l = 0 THEN 0 ELSE SelectInSeq(book[s][l].ids, LAMBDA x : x = id)), i # 0
    PROVE  Found(s, id, l, i)
<1>1. Len(book[s]) \in Nat /\ DOMAIN book[s] = 1..Len(book[s])
  BY LenProperties
<1>2. l # 0
  OBVIOUS
<1>3. l \in 0..Len(book[s])
  <2>1. CASE p = 0
    BY <1>1, <2>1 DEF CancelLevel, Least
  <2>2. CASE p # 0
    <3>1. PICK j : j = NotBetterThan(s, p)
      OBVIOUS
    <3>2. j \in 0..Len(book[s])
      BY <3>1, FirstNotBetter
    <3>3. l = IF j # 0 /\ book[s][j].price = p THEN j ELSE 0
      BY <2>2, <3>1 DEF CancelLevel
    <3> QED BY <1>1, <3>2, <3>3
  <2> QED BY <2>1, <2>2
<1>4. l \in DOMAIN book[s]
  BY <1>1, <1>2, <1>3
<1>s. PICK ids : ids = book[s][l].ids
  OBVIOUS
<1>5. ids \in Seq(Nat)
  <2>1. book[s][l] \in LevelRec
    BY <1>4, LenProperties, ElementOfSeq
  <2> QED BY <1>s, <2>1 DEF LevelRec
<1>6. Len(ids) \in Nat /\ DOMAIN ids = 1..Len(ids)
  BY <1>5, LenProperties
<1> DEFINE I == {k \in 1..Len(ids) : ids[k] = id}
<1>7. i = IF I # {} THEN Min(I) ELSE 0
  BY <1>2, <1>s DEF SelectInSeq
<1>8. i \in I
  <2>1. I \in SUBSET Nat /\ I # {}
    BY <1>7
  <2> HIDE DEF I
  <2>2. Min(I) \in I
    BY <2>1, MinNat
  <2> QED BY <1>7, <2>1, <2>2
<1>9. i \in DOMAIN ids /\ ids[i] = id
  BY <1>6, <1>8
<1> QED BY <1>4, <1>9, <1>s DEF Found

\* What a cancellation that finds its order changes.
Cancels(s, id, q, l, i) ==
    LET lv   == book[s][l]
        left == IF orders[id].size <= q THEN RemoveAt(lv.ids, i) ELSE lv.ids
    IN  /\ orders' = [orders EXCEPT ![id].size = Left(@, q)]
        /\ ledger' = [ledger EXCEPT ![id].cancelled = @ + Least(orders[id].size, q)]
        /\ book' = [book EXCEPT ![s] =
              IF left = <<>> THEN RemoveAt(@, l)
              ELSE ReplaceAt(@, l, [price |-> lv.price, size |-> lv.size - Least(orders[id].size, q),
                                    ids |-> SortPriceLevel(orders', left)])]

\* A cancellation takes from the order, its level and the ledger the same number of shares.
LEMMA CancelsBook ==
    ASSUME BookInv, NoneEmpty, LedgerInv, phase = "idle", phase' = "idle",
           NEW id \in DOMAIN orders, NEW s, s = orders[id].side, NEW q \in Nat, q > 0,
           NEW l, NEW i, Found(s, id, l, i), Cancels(s, id, q, l, i)
    PROVE  BookInv' /\ NoneEmpty' /\ LedgerInv'
<1>o. PICK os : os = orders
  OBVIOUS
<1>w. PICK new : new = orders'
  OBVIOUS
<1>L. PICK levels : levels = book[s]
  OBVIOUS
<1>v. PICK lv : lv = levels[l]
  OBVIOUS
<1>r. PICK r : r = os[id]
  OBVIOUS
<1>1. os \in Seq(OrderRec) /\ (\A j \in DOMAIN os : Priced(os[j])) /\ id \in DOMAIN os /\ DOMAIN book = Sides
      /\ DOMAIN os = 1..Len(os) /\ Len(os) \in Nat
  BY <1>o, LenProperties DEF BookInv, Known
<1>2. r \in OrderRec
  BY <1>1, <1>r, LenProperties, ElementOfSeq
<1>3. r.size \in Nat /\ r.side = s /\ s \in Sides
  BY <1>2, <1>o, <1>r DEF OrderRec
<1>4. new = [os EXCEPT ![id].size = Left(@, q)]
  BY <1>o, <1>w DEF Cancels
<1>e. PICK n : n = Left(r.size, q)
  OBVIOUS
<1>5. n \in Nat /\ n <= r.size /\ r.size - n = Least(r.size, q) /\ (r.size <= q <=> n = 0)
  BY <1>3, <1>e DEF Left, Least
<1>6. /\ DOMAIN new = DOMAIN os /\ new[id] = [r EXCEPT !.size = n] /\ new[id] \in OrderRec
      /\ \A j \in DOMAIN os : j # id => new[j] = os[j]
  <2>1. DOMAIN new = DOMAIN os /\ new[id] = [r EXCEPT !.size = n] /\ \A j \in DOMAIN os : j # id => new[j] = os[j]
    BY <1>1, <1>4, <1>e, <1>r
  <2> QED BY <1>2, <1>5, <2>1 DEF OrderRec
<1>7. /\ new[id].size = n /\ new[id].side = s /\ new[id].price = r.price /\ new[id].kind = r.kind
      /\ new[id].counter = r.counter
  BY <1>2, <1>3, <1>6 DEF OrderRec
<1>8. new \in Seq(OrderRec)
  <2>1. \A j \in DOMAIN os : os[j] \in OrderRec
    BY <1>1, LenProperties, ElementOfSeq
  <2>2. \A j \in 1..Len(os) : new[j] \in OrderRec
    BY <1>1, <1>6, <2>1
  <2>3. new = [j \in 1..Len(os) |-> new[j]]
    BY <1>1, <1>4
  <2>4. new \in [1..Len(os) -> OrderRec]
    BY <2>2, <2>3
  <2> QED BY <1>1, <2>4
<1>9. Known(new)
  <2>1. \A j \in DOMAIN new : Priced(new[j])
    <3> SUFFICES ASSUME NEW j \in DOMAIN new PROVE Priced(new[j])
      OBVIOUS
    <3>1. Priced(os[j])
      BY <1>1, <1>6
    <3>2. CASE j = id
      BY <1>3, <1>7, <1>r, <3>1, <3>2 DEF Priced
    <3>3. CASE j # id
      BY <1>6, <3>1, <3>3
    <3> QED BY <3>2, <3>3
  <2> QED BY <1>8, <2>1 DEF Known
<1>10. levels \in Seq(LevelRec) /\ l \in DOMAIN levels /\ i \in DOMAIN levels[l].ids /\ levels[l].ids[i] = id
  BY <1>L DEF Found
<1>11. Standing(os, s, levels) /\ Tended(os, s, levels)
  <2>1. Standing(os, s, levels)
    BY <1>3, <1>L, <1>o DEF BookInv
  <2>2. \A x \in Range(levels) : x.ids # <<>>
    BY <1>3, <1>L DEF NoneEmpty, Range
  <2> QED BY <2>1, <2>2 DEF Standing, Tended
<1>12. os[id].price = levels[l].price
  BY <1>1, <1>10, <1>11, OrderInLevel
<1>13. Changes(os, new, s, id, levels[l].price)
  <2>1. AgreeBut(os, new, s, id)
    BY <1>6 DEF AgreeBut, OfSide
  <2>2. ChangedOrder(os, new, s, id, levels[l].price)
    BY <1>1, <1>3, <1>6, <1>7, <1>12, <1>r DEF ChangedOrder
  <2>3. \A j \in DOMAIN os : j \in DOMAIN new /\ new[j].counter = os[j].counter
    BY <1>6, <1>7, <1>r
  <2> QED BY <2>1, <2>2, <2>3 DEF Changes
<1>f. PICK left : left = IF new[id].size = 0 THEN RemoveAt(levels[l].ids, i) ELSE levels[l].ids
  OBVIOUS
<1>lw. PICK lw : lw = [price |-> levels[l].price, size |-> levels[l].size - (os[id].size - new[id].size),
                       ids |-> SortPriceLevel(new, left)]
  OBVIOUS
<1>a. PICK after : after = IF left = <<>> THEN RemoveAt(levels, l) ELSE ReplaceAt(levels, l, lw)
  OBVIOUS
<1>14. new[id].size <= os[id].size
  BY <1>5, <1>7, <1>r
<1>15. after \in Seq(LevelRec) /\ Tended(new, s, after)
  <2>1. /\ os \in Seq(OrderRec) /\ new \in Seq(OrderRec) /\ id \in DOMAIN os /\ levels \in Seq(LevelRec)
        /\ Tended(os, s, levels) /\ l \in DOMAIN levels /\ Changes(os, new, s, id, levels[l].price)
    BY <1>1, <1>8, <1>10, <1>11, <1>13
  <2>2. CancelledIn(os, new, id, levels, l, i, left, lw, after)
    BY <1>10, <1>14, <1>f, <1>lw, <1>a DEF CancelledIn
  <2> QED BY <2>1, <2>2, CancelledTended
<1>16. book' = [book EXCEPT ![s] = after]
  <2>1. left = IF orders[id].size <= q THEN RemoveAt(book[s][l].ids, i) ELSE book[s][l].ids
    BY <1>5, <1>7, <1>L, <1>f, <1>o, <1>r
  <2>2. lw = [price |-> book[s][l].price, size |-> book[s][l].size - Least(orders[id].size, q),
              ids |-> SortPriceLevel(orders', left)]
    <3>1. os[id].size - new[id].size = Least(orders[id].size, q)
      BY <1>5, <1>7, <1>o, <1>r
    <3> QED BY <1>L, <1>lw, <1>w, <3>1
  <2>3. book' = [book EXCEPT ![s] = IF left = <<>> THEN RemoveAt(@, l) ELSE ReplaceAt(@, l, lw)]
    BY <2>1, <2>2 DEF Cancels
  <2> QED BY <1>3, <1>1, <1>L, <1>a, <2>3
<1>17. /\ DOMAIN book' = Sides /\ book'[s] = after /\ \A t \in Sides \ {s} : book'[t] = book[t]
  BY <1>1, <1>3, <1>16
<1>18. OneSideTended(s, id)
  <2>1. \A j \in DOMAIN orders' \ {id} : j \in DOMAIN orders /\ orders'[j] = orders[j]
    BY <1>6, <1>o, <1>w
  <2>2. DOMAIN orders \subseteq DOMAIN orders' /\ id \in DOMAIN orders' /\ orders'[id].side = s
    BY <1>1, <1>6, <1>7, <1>o, <1>w
  <2> QED BY <1>3, <1>9, <1>15, <1>17, <1>w, <2>1, <2>2 DEF OneSideTended
<1>19. BookInv' /\ NoneEmpty'
  BY <1>18, BookKept
<1>20. LedgerInv'
  <2>e. PICK e : e = ledger[id]
    OBVIOUS
  <2>x. PICK x : x = Least(r.size, q)
    OBVIOUS
  <2>1. /\ ledger \in Seq(LedgerRec) /\ Len(ledger) = Len(os)
        /\ \A j \in DOMAIN os :
              /\ ledger[j].submitted = ledger[j].filled + ledger[j].cancelled + os[j].size
              /\ ledger[j].trader = j
    BY <1>o DEF LedgerInv
  <2>2. DOMAIN ledger = 1..Len(os)
    BY <2>1, LenProperties
  <2>3. \A j \in DOMAIN ledger : ledger[j] \in LedgerRec
    BY <2>1, LenProperties, ElementOfSeq
  <2>4. e \in LedgerRec /\ id \in DOMAIN ledger
    BY <1>1, <2>2, <2>3, <2>e
  <2>5. e.cancelled \in Nat /\ e.filled \in Nat /\ x \in Nat
    BY <1>3, <2>4, <2>x DEF LedgerRec, Least
  <2>6. ledger' = [ledger EXCEPT ![id].cancelled = @ + x]
    BY <1>o, <1>r, <2>x DEF Cancels
  <2>7. /\ DOMAIN ledger' = DOMAIN ledger /\ ledger'[id] = [e EXCEPT !.cancelled = e.cancelled + x]
        /\ \A j \in DOMAIN ledger : j # id => ledger'[j] = ledger[j]
    BY <2>4, <2>6, <2>e
  <2>8. e.cancelled + x \in Nat
    BY <2>5
  <2>9. /\ ledger'[id] \in LedgerRec /\ ledger'[id].cancelled = e.cancelled + x /\ ledger'[id].filled = e.filled
        /\ ledger'[id].submitted = e.submitted /\ ledger'[id].trader = e.trader
    BY <2>4, <2>7, <2>8 DEF LedgerRec
  <2>10. ledger' \in Seq(LedgerRec)
    <3>1. \A j \in 1..Len(os) : ledger'[j] \in LedgerRec
      BY <2>2, <2>3, <2>7, <2>9
    <3>2. ledger' = [j \in 1..Len(os) |-> ledger'[j]]
      BY <2>2, <2>6
    <3>3. ledger' \in [1..Len(os) -> LedgerRec]
      BY <3>1, <3>2
    <3> QED BY <1>1, <3>3
  <2>11. Len(ledger') = Len(orders')
    <3>1. DOMAIN ledger' = 1..Len(ledger') /\ Len(ledger') \in Nat
      BY <2>10, LenProperties
    <3>2. DOMAIN new = 1..Len(new) /\ Len(new) \in Nat
      BY <1>8, LenProperties
    <3> QED BY <1>1, <1>6, <1>w, <2>2, <2>7, <3>1, <3>2, SameLength
  <2>12. ASSUME NEW j \in DOMAIN orders'
         PROVE  /\ ledger'[j].submitted = ledger'[j].filled + ledger'[j].cancelled + orders'[j].size
                /\ ledger'[j].trader = j
    <3>1. j \in DOMAIN os /\ j \in DOMAIN ledger
      BY <1>1, <1>6, <1>w, <2>2
    <3>2. CASE j = id
      <4>1. e.submitted = e.filled + e.cancelled + r.size /\ e.trader = id
        BY <1>1, <1>r, <2>1, <2>e
      <4>2. x = r.size - n /\ orders'[j].size = n
        BY <1>5, <1>7, <1>w, <2>x, <3>2
      <4>3. ledger'[j].submitted = e.submitted /\ ledger'[j].filled = e.filled
            /\ ledger'[j].cancelled = e.cancelled + x /\ ledger'[j].trader = id
        BY <2>9, <3>2, <4>1
      <4>4. e.submitted = e.filled + (e.cancelled + x) + n
        BY <1>3, <1>5, <2>5, <4>1, <4>2
      <4> QED BY <3>2, <4>2, <4>3, <4>4
    <3>3. CASE j # id
      <4>1. orders'[j] = os[j] /\ ledger'[j] = ledger[j]
        BY <1>6, <1>w, <2>7, <3>1, <3>3
      <4> QED BY <2>1, <3>1, <4>1
    <3> QED BY <3>2, <3>3
  <2> QED BY <2>10, <2>11, <2>12 DEF LedgerInv
<1> QED BY <1>19, <1>20

(***************************************************************************)
(* A cancellation keeps the invariant.                                      *)
(***************************************************************************)
LEMMA DoLocalCancelInv ==
    ASSUME Inv, NEW id \in DOMAIN orders, NEW q \in CancelSizes, DoLocalCancel(id, q) PROVE Inv'
<1>s. PICK s : s = orders[id].side
  OBVIOUS
<1>p. PICK p : p = IF orders[id].kind = "MARKET" THEN 0 ELSE orders[id].price
  OBVIOUS
<1>l. PICK l : l = CancelLevel(s, p)
  OBVIOUS
<1>i. PICK i : i = IF l = 0 THEN 0 ELSE SelectInSeq(book[s][l].ids, LAMBDA x : x = id)
  OBVIOUS
<1>1. /\ phase = "idle" /\ phase' = "idle" /\ cancels' = cancels + 1
      /\ UNCHANGED <<auction, reports, published, auctions>>
      /\ IF i = 0 THEN UNCHANGED <<orders, book, ledger>> ELSE Cancels(s, id, q, l, i)
  BY <1>s, <1>p, <1>l, <1>i DEF DoLocalCancel, Cancels
<1>2. q \in Nat /\ q > 0
  BY AuctionAssumption
<1>3. BookInv /\ NoneEmpty /\ LedgerInv /\ cancels \in Nat
  BY DEF Inv, Basis, AuctionTypes
<1>4. BookInv' /\ NoneEmpty' /\ LedgerInv'
  <2>1. CASE i = 0
    <3>1. orders' = orders /\ book' = book /\ ledger' = ledger
      BY <1>1, <2>1
    <3> QED BY <1>1, <1>3, <3>1 DEF BookInv, NoneEmpty, LedgerInv
  <2>2. CASE i # 0
    <3>1. orders[id] \in OrderRec
      <4>1. orders \in Seq(OrderRec)
        BY <1>3 DEF BookInv, Known
      <4> QED BY <4>1, LenProperties, ElementOfSeq
    <3>2. book[s] \in Seq(LevelRec)
      BY <1>3, <1>s, <3>1 DEF OrderRec, BookInv, Standing
    <3>3. Found(s, id, l, i)
      BY <1>i, <1>l, <2>2, <3>2, CancelFinds
    <3> QED BY <1>1, <1>2, <1>3, <1>s, <2>2, <3>3, CancelsBook
  <2> QED BY <2>1, <2>2
<1>5. cancels' \in Nat
  BY <1>1, <1>3
<1> QED BY <1>1, <1>4, <1>5, IdleInv

(***************************************************************************)
(* The first level of limit orders is the best of them.                     *)
(***************************************************************************)
LEMMA FirstLimitLevel ==
    ASSUME BookInv, \A s \in Sides : \A lv \in Range(book[s]) : lv.ids # <<>>,
           NEW s \in Sides, NEW lv \in Range(book[s]), lv.price \in Prices
    PROVE  /\ LimitLevel(s) \in DOMAIN book[s]
           /\ ~Better(s, lv.price, book[s][LimitLevel(s)].price)
<1>L. PICK levels : levels = book[s]
  OBVIOUS
<1>1. levels \in Seq(LevelRec) /\ Standing(orders, s, levels) /\ Ordered(s, levels) /\ orders \in Seq(OrderRec)
      /\ DOMAIN levels = 1..Len(levels) /\ Len(levels) \in Nat /\ \A id \in DOMAIN orders : Priced(orders[id])
  BY <1>L, LenProperties DEF BookInv, Standing, ExactSide, Known
<1>i. PICK i \in DOMAIN levels : lv = levels[i]
  BY <1>L DEF Range
<1>2. 1 \in DOMAIN levels /\ levels # <<>>
  <2>1. 1 \in 1..Len(levels)
    BY <1>1
  <2> QED BY <1>1, <2>1
<1>3. \A j \in DOMAIN levels : levels[j].price \in Nat
  <2>1. \A j \in DOMAIN levels : levels[j] \in LevelRec
    BY <1>1, LenProperties, ElementOfSeq
  <2> QED BY <2>1 DEF LevelRec
<1>o. PICK id : id = levels[1].ids[1]
  OBVIOUS
<1>4. LimitLevel(s) = IF orders[id].kind = "MARKET" THEN 2 ELSE 1
  BY <1>2, <1>L, <1>o DEF LimitLevel
<1>5. orders[id].kind = "MARKET" => i # 1
  <2> SUFFICES ASSUME orders[id].kind = "MARKET", i = 1 PROVE FALSE
    OBVIOUS
  <2>1. 1 \in DOMAIN levels[1].ids
    <3>1. levels[1] \in LevelRec
      BY <1>1, <1>2, LenProperties, ElementOfSeq
    <3>2. levels[1].ids \in Seq(Nat) /\ levels[1].ids # <<>>
      <4>1. levels[1] \in Range(book[s])
        BY <1>2, <1>L DEF Range
      <4> QED BY <3>1, <4>1 DEF LevelRec
    <3>3. /\ DOMAIN levels[1].ids = 1..Len(levels[1].ids) /\ Len(levels[1].ids) \in Nat
          /\ Len(levels[1].ids) # 0
      BY <3>2, LenProperties, EmptySeq
    <3>4. 1 \in 1..Len(levels[1].ids)
      BY <3>3
    <3> QED BY <3>3, <3>4
  <2>2. id \in DOMAIN orders /\ orders[id].side = s /\ orders[id].price = levels[1].price
    BY <1>1, <1>2, <1>o, <2>1, OrderInLevel
  <2>3. orders[id].price = TopPrice(s)
    <3>1. Priced(orders[id]) /\ orders[id].kind # "LIMIT"
      BY <1>1, <2>2
    <3> QED BY <2>2, <3>1 DEF Priced
  <2>4. TopPrice(s) \in Prices
    BY <1>i, <2>2, <2>3
  <2>5. TopPrice(s) = DblMax \/ TopPrice(s) = DblMin
    BY DEF TopPrice
  <2>6. TopPrice(s) \in Nat /\ DblMin < TopPrice(s) /\ TopPrice(s) < DblMax /\ DblMin \in Nat /\ DblMax \in Nat
    BY <2>4, AuctionAssumption
  <2> QED BY <2>5, <2>6
<1>6. LimitLevel(s) \in DOMAIN levels /\ LimitLevel(s) <= i
  <2>1. i \in 1..Len(levels)
    BY <1>1
  <2>2. LimitLevel(s) \in 1..Len(levels) /\ LimitLevel(s) <= i
    BY <1>1, <1>4, <1>5, <2>1
  <2> QED BY <1>1, <2>2
<1>7. ~Better(s, lv.price, levels[LimitLevel(s)].price)
  <2>k. PICK k : k = LimitLevel(s)
    OBVIOUS
  <2>1. k \in DOMAIN levels /\ k <= i /\ levels[k].price \in Nat /\ levels[i].price \in Nat
    BY <1>3, <1>6, <2>k
  <2>2. k < i => Better(s, levels[k].price, levels[i].price)
    BY <1>1, <2>1 DEF Ordered
  <2>3. k = i \/ k < i
    BY <1>1, <2>1
  <2>4. ~Better(s, levels[i].price, levels[k].price)
    <3>a. PICK a : a = levels[k].price
      OBVIOUS
    <3>b. PICK b : b = levels[i].price
      OBVIOUS
    <3>1. a \in Nat /\ b \in Nat /\ (a = b \/ Better(s, a, b))
      BY <2>1, <2>2, <2>3, <3>a, <3>b
    <3>2. ~Better(s, b, a)
      BY <3>1 DEF Better
    <3> QED BY <3>2, <3>a, <3>b
  <2> QED BY <1>i, <2>4, <2>k
<1> QED BY <1>6, <1>7, <1>L

\* Where the market starts no auction, no bid reaches an ask.
LEMMA NoMatchesPossible ==
    ASSUME BookInv, \A s \in Sides : \A lv \in Range(book[s]) : lv.ids # <<>>, ~MatchesPossible,
           NEW b \in Range(book["bid"]), NEW a \in Range(book["ask"])
    PROVE  NoCross(b, a)
<1> SUFFICES ASSUME b.price \in Prices, a.price \in Prices PROVE b.price < a.price
  BY DEF NoCross
<1>m. PICK m : m = LimitLevel("bid")
  OBVIOUS
<1>k. PICK k : k = LimitLevel("ask")
  OBVIOUS
<1>1. /\ m \in DOMAIN book["bid"] /\ ~Better("bid", b.price, book["bid"][m].price)
      /\ k \in DOMAIN book["ask"] /\ ~Better("ask", a.price, book["ask"][k].price)
  BY <1>m, <1>k, FirstLimitLevel DEF Sides
<1>2. ASSUME NEW s \in Sides PROVE /\ DOMAIN book[s] = 1..Len(book[s]) /\ Len(book[s]) \in Nat
                                   /\ \A j \in DOMAIN book[s] : book[s][j].price \in Nat
  <2>1. book[s] \in Seq(LevelRec)
    BY DEF BookInv, Standing
  <2>2. \A j \in DOMAIN book[s] : book[s][j] \in LevelRec
    BY <2>1, LenProperties, ElementOfSeq
  <2> QED BY <2>1, <2>2, LenProperties DEF LevelRec
<1>3. m <= Len(book["bid"]) /\ k <= Len(book["ask"])
  BY <1>1, <1>2 DEF Sides
<1>4. \A s \in Sides : LimitLevel(s) <= Len(book[s])
  BY <1>3, <1>m, <1>k DEF Sides
<1>5. ~(book["bid"][m].price >= book["ask"][k].price)
  BY <1>4, <1>m, <1>k DEF MatchesPossible
<1>p. PICK p : p = book["bid"][m].price
  OBVIOUS
<1>q. PICK q : q = book["ask"][k].price
  OBVIOUS
<1>6. p \in Nat /\ q \in Nat /\ p < q
  <2>1. p \in Nat /\ q \in Nat
    BY <1>1, <1>2, <1>p, <1>q DEF Sides
  <2> QED BY <1>5, <1>p, <1>q, <2>1
<1>7. b.price \in Nat /\ a.price \in Nat
  BY AuctionAssumption
<1>8. b.price <= p /\ q <= a.price
  BY <1>1, <1>6, <1>7, <1>p, <1>q DEF Better
<1> QED BY <1>6, <1>7, <1>8

(***************************************************************************)
(* The start of an auction keeps the invariant: it closes again at once     *)
(* only when no limit orders cross.                                         *)
(***************************************************************************)
LEMMA StartAuctionInv == Inv /\ StartAuction => Inv'
<1> SUFFICES ASSUME Inv, StartAuction PROVE Inv'
  OBVIOUS
<1>1. /\ phase = "idle" /\ auctions' = auctions + 1
      /\ orders' = orders /\ book' = book /\ shares' = shares
      /\ pos' = pos /\ reports' = reports /\ published' = published /\ ledger' = ledger
      /\ lastPrice' = lastPrice /\ division' = division /\ cancels' = cancels
  BY DEF StartAuction
<1>2. BookInv /\ NoneEmpty /\ AuctionTypes /\ Quiet
  BY DEF Inv, Basis
<1>3. reports = <<>>
  BY <1>1 DEF Inv, Reported, Announced, Trading
<1>4. \/ /\ MatchesPossible
         /\ phase' = "price" /\ rows' = Rows /\ total' = -1 /\ price' = 0
      \/ /\ ~MatchesPossible
         /\ phase' = "close" /\ rows' = rows /\ total' = total /\ price' = price
  BY DEF StartAuction
<1>5. Rows = PricesOf(book)
  BY DEF Rows, PricesOf
<1>6. \A s \in Sides : book[s] \in Seq(LevelRec)
  BY <1>2 DEF BookInv, Standing
<1>7. PricesOf(book) \in SUBSET Nat
  <2> SUFFICES ASSUME NEW p \in PricesOf(book) PROVE p \in Nat
    OBVIOUS
  <2>1. PICK s \in Sides : \E lv \in Range(book[s]) : p = lv.price
    BY DEF PricesOf
  <2>2. PICK lv \in Range(book[s]) : p = lv.price
    BY <2>1
  <2>3. lv \in LevelRec
    BY <1>6, <2>2, LenProperties, ElementOfSeq DEF Range
  <2> QED BY <2>2, <2>3 DEF LevelRec
<1>8. Basis'
  <2>1. BookInv' /\ NoneEmpty'
    BY <1>1, <1>2 DEF BookInv, NoneEmpty
  <2>2. AuctionTypes'
    <3>1. rows' \in SUBSET Nat /\ total' \in Int /\ total' >= -1 /\ price' \in Nat /\ phase' \in Phases
          /\ (phase' # "price" => total' \in Nat)
      <4>1. rows \in SUBSET Nat /\ total \in Nat /\ price \in Nat /\ Rows \in SUBSET Nat
        BY <1>1, <1>2, <1>5, <1>7 DEF AuctionTypes
      <4>2. CASE phase' = "price" /\ rows' = Rows /\ total' = -1 /\ price' = 0
        BY <4>1, <4>2 DEF Phases
      <4>3. CASE phase' = "close" /\ rows' = rows /\ total' = total /\ price' = price
        BY <4>1, <4>3 DEF Phases
      <4> QED BY <1>4, <4>2, <4>3
    <3>2. auctions' \in Nat
      BY <1>1, <1>2 DEF AuctionTypes
    <3> QED BY <1>1, <1>2, <3>1, <3>2 DEF AuctionTypes
  <2>3. Quiet' /\ DividedSide'
    BY <1>1, <1>2, <1>4 DEF Quiet, DividedSide, Trading
  <2> QED BY <2>1, <2>2, <2>3 DEF Basis
<1>9. Parts' /\ Enough' /\ Most'
  BY <1>1, <1>3, <1>4 DEF Parts, Enough, Most, Announced, Trading
<1>10. Reported'
  <2>1. \A i \in 2..Len(reports') : FALSE
    BY <1>1, <1>3
  <2> QED BY <1>1, <1>3, <1>4, <2>1 DEF Reported, Trading
<1>11. LedgerInv' /\ PublishedKnown' /\ MarketsHidden'
  BY <1>1 DEF Inv, LedgerInv, PublishedKnown, MarketsHidden
<1>12. Even'
  BY <1>4 DEF Even
<1>13. PriceSoFar'
  <2> SUFFICES ASSUME phase' = "price" PROVE PriceSoFar'
    BY DEF PriceSoFar
  <2>1. MatchesPossible /\ rows' = PricesOf(book') /\ total' = -1
    BY <1>1, <1>4, <1>5
  <2>2. PricesOf(book') # {}
    <3>1. LimitLevel("bid") <= Len(book["bid"]) /\ LimitLevel("bid") \in {1, 2}
      BY <2>1 DEF MatchesPossible, LimitLevel, Sides
    <3>2. DOMAIN book["bid"] = 1..Len(book["bid"]) /\ Len(book["bid"]) \in Nat
      BY <1>6, LenProperties DEF Sides
    <3>3. 1 \in 1..Len(book["bid"])
      BY <3>1, <3>2
    <3>4. book["bid"][1] \in Range(book["bid"])
      BY <3>2, <3>3 DEF Range
    <3>5. book["bid"][1].price \in PricesOf(book)
      BY <3>4 DEF PricesOf, Sides
    <3> QED BY <1>1, <3>5
  <2>3. PricesOf(book') \ rows' = {}
    BY <2>1
  <2> QED BY <2>1, <2>2, <2>3 DEF PriceSoFar
<1>14. Uncrossed'
  <2> SUFFICES ASSUME phase' = "close", NEW b \in Range(book["bid"]), NEW a \in Range(book["ask"])
               PROVE  NoCross(b, a)
    BY <1>1, <1>4 DEF Uncrossed
  <2>1. \A s \in Sides : \A lv \in Range(book[s]) : lv.ids # <<>>
    BY <1>1, <1>2 DEF NoneEmpty, Range
  <2>2. ~MatchesPossible
    BY <1>4
  <2> QED BY <1>2, <2>1, <2>2, NoMatchesPossible
<1> QED BY <1>8, <1>9, <1>10, <1>11, <1>12, <1>13, <1>14 DEF Inv

--------------------------------------------------------------------------------
(***************************************************************************)
(* The rows of the table, as functions of the book.                         *)
(***************************************************************************)
LEMMA RowsOfBook ==
    \A p : Matched(p) = MatchedIn(book, p) /\ Excess(p) = ExcessIn(book, p)
BY OfferedBook DEF Matched, Excess, MatchedIn, ExcessIn

(***************************************************************************)
(* What would match at a price, and its distance to another.                *)
(***************************************************************************)
RowFacts(r) ==
    /\ Matched(r) \in Nat /\ Excess(r) \in Nat
    /\ Matched(r) = Least(OfferedIn("bid", book["bid"], r), OfferedIn("ask", book["ask"], r))
    /\ OfferedIn("bid", book["bid"], r) \in Nat /\ OfferedIn("ask", book["ask"], r) \in Nat

\* What is computed for a row are numbers of shares.
LEMMA RowTypes ==
    ASSUME BookInv, NEW r PROVE RowFacts(r)
<1>1. book["bid"] \in Seq(LevelRec) /\ book["ask"] \in Seq(LevelRec)
  BY DEF BookInv, Standing, Sides
<1>2. OfferedIn("bid", book["bid"], r) \in Nat /\ OfferedIn("ask", book["ask"], r) \in Nat
  BY <1>1, OfferedType
<1>3. Offered("bid", r) = OfferedIn("bid", book["bid"], r) /\ Offered("ask", r) = OfferedIn("ask", book["ask"], r)
  BY OfferedBook
<1> QED BY <1>2, <1>3 DEF RowFacts, Matched, Excess, Least

\* The distance of two prices is a number.
LEMMA DistanceType ==
    ASSUME NEW p \in Nat, NEW q \in Nat PROVE Distance(p, q) \in Nat
<1>1. DblMax \in Nat
  BY AuctionAssumption
<1> QED BY <1>1 DEF Distance

(***************************************************************************)
(* Above a price at which fewer bids are offered than match at a lower one, *)
(* fewer match as well: what the rest of the table holds need not be read.  *)
(***************************************************************************)
LEMMA FewerMatch ==
    ASSUME BookInv, NEW p \in Nat, NEW q \in Nat, q < p, Matched(p) < Matched(q),
           NEW r \in Nat, r >= p
    PROVE  Matched(r) < Matched(q)
<1>1. RowFacts(p) /\ RowFacts(q) /\ RowFacts(r)
  BY RowTypes
<1>2. book["bid"] \in Seq(LevelRec) /\ book["ask"] \in Seq(LevelRec)
  BY DEF BookInv, Standing, Sides
<1>b. PICK b : b = book["bid"]
  OBVIOUS
<1>a. PICK a : a = book["ask"]
  OBVIOUS
<1>3. OfferedIn("ask", a, q) <= OfferedIn("ask", a, p)
  <2>1. Better("ask", q, p)
    BY DEF Better
  <2> QED BY <1>2, <1>a, <2>1, OfferedMonotone
<1>4. OfferedIn("bid", b, r) <= OfferedIn("bid", b, p)
  <2>1. CASE r = p
    BY <1>1, <1>b, <2>1 DEF RowFacts
  <2>2. CASE r # p
    <3>1. Better("bid", r, p)
      BY <2>2 DEF Better
    <3> QED BY <1>2, <1>b, <3>1, OfferedMonotone
  <2> QED BY <2>1, <2>2
<1>5. /\ Matched(p) = Least(OfferedIn("bid", b, p), OfferedIn("ask", a, p))
      /\ Matched(q) = Least(OfferedIn("bid", b, q), OfferedIn("ask", a, q))
      /\ Matched(r) = Least(OfferedIn("bid", b, r), OfferedIn("ask", a, r))
      /\ OfferedIn("bid", b, p) \in Nat /\ OfferedIn("ask", a, p) \in Nat
      /\ OfferedIn("bid", b, q) \in Nat /\ OfferedIn("ask", a, q) \in Nat
      /\ OfferedIn("bid", b, r) \in Nat /\ OfferedIn("ask", a, r) \in Nat
  BY <1>1, <1>a, <1>b DEF RowFacts
<1> QED BY <1>3, <1>4, <1>5 DEF Least

\* A reading of the price search, with the price and the total it has found.
NoBetter(r, t, p) ==
    /\ Matched(r) <= t
    /\ Matched(r) = t => Excess(p) <= Excess(r)
    /\ Matched(r) = t /\ Excess(p) = Excess(r) => Distance(p, lastPrice) <= Distance(r, lastPrice)

\* What is found, and the rows that are left, when the row of p is read.
IsRead(p, t, best, left) ==
    /\ p = Min(rows)
    /\ IF Matched(p) < total THEN left = {} /\ t = total /\ best = price
       ELSE left = rows \ {p} /\ t = Matched(p) /\ best = IF Beats(p) THEN p ELSE price
FoundBest(t, best, left) ==
    /\ best \in PricesOf(book) \ left /\ t = Matched(best) /\ t \in Nat /\ best \in Nat
    /\ \A r \in PricesOf(book) \ left : NoBetter(r, t, best)
    /\ left \subseteq rows /\ \A r \in left, q \in PricesOf(book) \ left : q < r

(***************************************************************************)
(* After each row, no row that is read is better than what is found.        *)
(***************************************************************************)
LEMMA RowRead ==
    ASSUME BookInv, AuctionTypes, PriceSoFar, phase = "price", rows # {},
           NEW p, NEW t, NEW best, NEW left, IsRead(p, t, best, left)
    PROVE  FoundBest(t, best, left)
<1>S. PICK S : S = PricesOf(book)
  OBVIOUS
<1>1. /\ rows \subseteq S /\ rows \in SUBSET Nat
      /\ IF total = -1 THEN rows = S ELSE price \in S \ rows /\ total = Matched(price)
      /\ \A r \in S \ rows : NoBetter(r, total, price)
      /\ \A r \in rows, q \in S \ rows : q < r
      /\ total \in Int /\ total >= -1 /\ price \in Nat /\ lastPrice \in Nat
  BY <1>S, RowsOfBook DEF PriceSoFar, AuctionTypes, NotBeaten, NoBetter
<1>2. S \in SUBSET Nat
  <2> SUFFICES ASSUME NEW x \in S PROVE x \in Nat
    OBVIOUS
  <2>1. PICK s \in Sides : \E lv \in Range(book[s]) : x = lv.price
    BY <1>S DEF PricesOf
  <2>2. PICK lv \in Range(book[s]) : x = lv.price
    BY <2>1
  <2>3. book[s] \in Seq(LevelRec)
    BY DEF BookInv, Standing
  <2>4. lv \in LevelRec
    BY <2>2, <2>3, LenProperties, ElementOfSeq DEF Range
  <2> QED BY <2>2, <2>4 DEF LevelRec
<1>3. p \in rows /\ p \in S /\ p \in Nat /\ \A y \in rows : p <= y
  BY <1>1, MinNat DEF IsRead
<1>4. \A r : Matched(r) \in Nat /\ Excess(r) \in Nat
  BY RowTypes DEF RowFacts
<1>5. \A r \in Nat : Distance(r, lastPrice) \in Nat
  BY <1>1, DistanceType
<1>6. CASE Matched(p) < total
  <2>1. t = total /\ best = price /\ left = {}
    BY <1>6 DEF IsRead
  <2>2. total # -1
    BY <1>1, <1>4, <1>6
  <2>3. price \in S \ rows /\ total = Matched(price) /\ price < p
    BY <1>1, <1>3, <2>2
  <2>4. ASSUME NEW r \in S PROVE NoBetter(r, t, best)
    <3>1. CASE r \notin rows
      BY <1>1, <2>1, <3>1
    <3>2. CASE r \in rows
      <4>1. r \in Nat /\ r >= p
        BY <1>1, <1>3, <3>2
      <4>2. Matched(r) < Matched(price)
        BY <1>1, <1>3, <1>6, <2>3, <4>1, FewerMatch
      <4>3. Matched(r) < t /\ t \in Nat
        BY <1>4, <2>1, <2>3, <4>2
      <4> QED BY <1>4, <4>3 DEF NoBetter
    <3> QED BY <3>1, <3>2
  <2> QED BY <1>1, <1>4, <1>S, <2>1, <2>3, <2>4 DEF FoundBest
<1>7. CASE ~(Matched(p) < total)
  <2>0. t = Matched(p) /\ left = rows \ {p} /\ best = (IF Beats(p) THEN p ELSE price)
    BY <1>7 DEF IsRead
  <2>1. t = Matched(p) /\ left = rows \ {p} /\ best = (IF Beats(p) THEN p ELSE price) /\ Matched(p) >= total
    BY <1>1, <1>4, <1>7, <2>0
  <2>2. S \ left = (S \ rows) \cup {p}
    BY <1>1, <1>3, <2>1
  <2>3. ASSUME NEW r \in left, NEW q \in S \ left PROVE q < r
    <3>1. CASE q = p
      <4>1. p <= r /\ r # p /\ r \in Nat
        BY <1>1, <1>3, <2>1
      <4> QED BY <1>3, <3>1, <4>1
    <3>2. CASE q # p
      BY <1>1, <2>1, <2>2, <3>2
    <3> QED BY <3>1, <3>2
  <2>4. NoBetter(p, t, p)
    BY <1>3, <1>4, <1>5, <2>1 DEF NoBetter
  <2>5. CASE total = -1
    <3>1. S \ left = {p} /\ Beats(p)
      BY <1>1, <1>4, <2>2, <2>5 DEF Beats
    <3>2. best = p
      BY <2>1, <3>1
    <3> QED BY <1>3, <1>4, <1>S, <2>1, <2>3, <2>4, <3>1, <3>2 DEF FoundBest
  <2>6. CASE total # -1
    <3>1. price \in S \ rows /\ total = Matched(price) /\ total \in Nat
      BY <1>1, <1>4, <2>6
    <3>e. PICK dp : dp = Distance(price, lastPrice)
      OBVIOUS
    <3>f. PICK d : d = Distance(p, lastPrice)
      OBVIOUS
    <3>2. dp \in Nat /\ d \in Nat
      BY <1>1, <1>3, <1>5, <3>e, <3>f
    <3>3. CASE Beats(p)
      <4>1. best = p
        BY <2>1, <3>3
      <4>2. ASSUME NEW r \in S \ rows PROVE NoBetter(r, t, p)
        <5>0. r \in Nat /\ Distance(r, lastPrice) \in Nat
          BY <1>2, <1>5
        <5>1. NoBetter(r, total, price)
          BY <1>1
        <5>2. CASE Matched(p) > total
          BY <1>4, <2>1, <3>1, <5>1, <5>2 DEF NoBetter
        <5>3. CASE ~(Matched(p) > total)
          <6>1. t = total /\ (Excess(p) < Excess(price) \/ (Excess(p) = Excess(price) /\ d < dp))
            BY <1>4, <2>1, <3>1, <3>3, <3>e, <3>f, <5>3 DEF Beats
          <6>2. Matched(r) <= total
            BY <5>1 DEF NoBetter
          <6>3. ASSUME Matched(r) = total
                PROVE  Excess(p) <= Excess(r) /\ (Excess(p) = Excess(r) => d <= Distance(r, lastPrice))
            <7>1. Excess(price) <= Excess(r) /\ (Excess(price) = Excess(r) => dp <= Distance(r, lastPrice))
              BY <3>e, <5>1, <6>3 DEF NoBetter
            <7>2. Excess(price) \in Nat /\ Excess(p) \in Nat /\ Excess(r) \in Nat
              BY <1>4
            <7> QED BY <3>2, <5>0, <6>1, <7>1, <7>2
          <6> QED BY <3>f, <6>1, <6>2, <6>3 DEF NoBetter
        <5> QED BY <5>2, <5>3
      <4>3. \A r \in S \ left : NoBetter(r, t, best)
        BY <2>2, <2>4, <4>1, <4>2
      <4> QED BY <1>3, <1>4, <1>S, <2>1, <2>2, <2>3, <4>1, <4>3 DEF FoundBest
    <3>4. CASE ~Beats(p)
      <4>1. /\ best = price /\ t = total /\ ~(Excess(p) < Excess(price))
            /\ ~(Excess(p) = Excess(price) /\ d < dp)
        BY <1>4, <2>1, <3>1, <3>4, <3>e, <3>f DEF Beats
      <4>2. NoBetter(p, t, price)
        <5>1. Excess(price) \in Nat /\ Excess(p) \in Nat
          BY <1>4
        <5>2. Excess(price) <= Excess(p) /\ (Excess(price) = Excess(p) => dp <= d)
          BY <3>2, <4>1, <5>1
        <5>3. Matched(p) <= t
          BY <1>4, <2>1
        <5> QED BY <3>e, <3>f, <5>2, <5>3 DEF NoBetter
      <4>3. \A r \in S \ left : NoBetter(r, t, best)
        BY <1>1, <2>2, <4>1, <4>2
      <4> QED BY <1>1, <1>4, <1>S, <2>1, <2>2, <2>3, <3>1, <4>1, <4>3 DEF FoundBest
    <3> QED BY <3>3, <3>4
  <2> QED BY <2>5, <2>6
<1> QED BY <1>6, <1>7

(***************************************************************************)
(* Reading a row of the table keeps the invariant.                          *)
(***************************************************************************)
LEMMA ReadRowInv == Inv /\ ReadRow => Inv'
<1> SUFFICES ASSUME Inv, ReadRow PROVE Inv'
  OBVIOUS
<1>1. /\ phase = "price" /\ phase' = phase /\ rows # {}
      /\ orders' = orders /\ book' = book /\ shares' = shares
      /\ pos' = pos /\ reports' = reports /\ published' = published /\ ledger' = ledger
      /\ lastPrice' = lastPrice /\ division' = division /\ cancels' = cancels /\ auctions' = auctions
  BY DEF ReadRow
<1>2. BookInv /\ NoneEmpty /\ AuctionTypes /\ Quiet /\ PriceSoFar
  BY DEF Inv, Basis
<1>3. reports = <<>>
  BY <1>1 DEF Inv, Reported, Announced, Trading
<1>p. PICK p : p = Min(rows)
  OBVIOUS
<1>t. PICK t : t = total'
  OBVIOUS
<1>b. PICK best : best = price'
  OBVIOUS
<1>l. PICK left : left = rows'
  OBVIOUS
<1>4. IsRead(p, t, best, left)
  BY <1>p, <1>t, <1>b, <1>l DEF ReadRow, IsRead
<1>5. FoundBest(t, best, left)
  BY <1>1, <1>2, <1>4, RowRead
<1>6. /\ best \in PricesOf(book) \ left /\ t = Matched(best) /\ t \in Nat /\ best \in Nat
      /\ \A r \in PricesOf(book) \ left : NoBetter(r, t, best)
      /\ left \subseteq rows /\ \A r \in left, q \in PricesOf(book) \ left : q < r
  BY <1>5 DEF FoundBest
<1>7. Basis'
  <2>1. BookInv' /\ NoneEmpty'
    BY <1>1, <1>2 DEF BookInv, NoneEmpty
  <2>2. AuctionTypes'
    <3>1. rows' \in SUBSET Nat /\ total' \in Int /\ total' >= -1 /\ total' \in Nat /\ price' \in Nat
      BY <1>2, <1>6, <1>t, <1>b, <1>l DEF AuctionTypes
    <3> QED BY <1>1, <1>2, <3>1 DEF AuctionTypes
  <2>3. Quiet' /\ DividedSide'
    BY <1>1, <1>2 DEF Quiet, DividedSide, Trading
  <2> QED BY <2>1, <2>2, <2>3 DEF Basis
<1>8. Parts' /\ Enough' /\ Most'
  BY <1>1, <1>3 DEF Parts, Enough, Most, Announced, Trading
<1>9. Reported'
  <2>1. \A i \in 2..Len(reports') : FALSE
    BY <1>1, <1>3
  <2> QED BY <1>1, <1>3, <2>1 DEF Reported, Trading
<1>10. LedgerInv' /\ PublishedKnown' /\ MarketsHidden'
  BY <1>1 DEF Inv, LedgerInv, PublishedKnown, MarketsHidden
<1>11. Even' /\ Uncrossed'
  BY <1>1 DEF Even, Uncrossed
<1>12. PriceSoFar'
  <2>1. PricesOf(book') = PricesOf(book) /\ PricesOf(book) # {}
    BY <1>1, <1>2 DEF PriceSoFar
  <2>3. \A r \in PricesOf(book') \ rows' : NotBeaten(book', lastPrice', r, total', price')
    BY <1>1, <1>6, <1>t, <1>b, <1>l, <2>1, RowsOfBook DEF NotBeaten, NoBetter
  <2>4. total' = MatchedIn(book', price')
    BY <1>1, <1>6, <1>t, <1>b, RowsOfBook
  <2>5. rows \subseteq PricesOf(book) /\ total' # -1
    BY <1>1, <1>2, <1>6, <1>t DEF PriceSoFar
  <2> QED BY <1>6, <1>b, <1>l, <1>t, <2>1, <2>3, <2>4, <2>5 DEF PriceSoFar
<1> QED BY <1>7, <1>8, <1>9, <1>10, <1>11, <1>12 DEF Inv

(***************************************************************************)
(* The announcement of the price keeps the invariant: what is announced is  *)
(* offered on both sides, and no price matches more.                        *)
(***************************************************************************)
LEMMA AnnouncePriceInv == Inv /\ AnnouncePrice => Inv'
<1> SUFFICES ASSUME Inv, AnnouncePrice PROVE Inv'
  OBVIOUS
<1>1. /\ phase = "price" /\ phase' = "share" /\ rows = {} /\ lastPrice' = price
      /\ reports' = <<Report("5", price, total, 0, 0)>>
      /\ orders' = orders /\ book' = book /\ shares' = shares /\ rows' = rows /\ total' = total
      /\ price' = price /\ pos' = pos /\ published' = published /\ ledger' = ledger
      /\ division' = division /\ cancels' = cancels /\ auctions' = auctions
  BY DEF AnnouncePrice
<1>2. BookInv /\ NoneEmpty /\ AuctionTypes /\ Quiet /\ PriceSoFar
  BY DEF Inv, Basis
<1>3. /\ total # -1 /\ total = MatchedIn(book, price)
      /\ \A r \in PricesOf(book) : NotBeaten(book, lastPrice, r, total, price)
  BY <1>1, <1>2 DEF PriceSoFar
<1>b. PICK b : b = OfferedIn("bid", book["bid"], price)
  OBVIOUS
<1>a. PICK a : a = OfferedIn("ask", book["ask"], price)
  OBVIOUS
<1>4. /\ total = Least(b, a) /\ b \in Nat /\ a \in Nat /\ price \in Nat
  <2>1. b \in Nat /\ a \in Nat
    BY <1>2, <1>a, <1>b, OfferedType DEF BookInv, Standing, Sides
  <2> QED BY <1>2, <1>3, <1>a, <1>b, <2>1 DEF MatchedIn, AuctionTypes
<1>5. total \in Nat /\ total <= b /\ total <= a /\ (total = b \/ total = a)
  BY <1>4 DEF Least
<1>6. \A s \in Sides : shares[s] = <<>> /\ pos[s] = 1
  BY <1>1, <1>2 DEF Quiet, Trading
<1>r. PICK r : r = Report("5", price, total, 0, 0)
  OBVIOUS
<1>7. r \in ReportRec /\ r.price = price /\ r.size = total /\ reports' = <<r>>
  BY <1>1, <1>4, <1>5, <1>r DEF ReportRec, Report
<1>8. Basis'
  <2>1. BookInv' /\ NoneEmpty'
    BY <1>1, <1>2 DEF BookInv, NoneEmpty
  <2>2. AuctionTypes'
    <3>1. reports' \in Seq(ReportRec)
      BY <1>7
    <3>2. lastPrice' \in Nat /\ total' \in Int /\ total' >= -1 /\ total' \in Nat /\ price' \in Nat
      BY <1>1, <1>4, <1>5
    <3>3. phase' \in Phases
      BY <1>1 DEF Phases
    <3> QED BY <1>1, <1>2, <3>1, <3>2, <3>3 DEF AuctionTypes, ReportRec
  <2>3. Quiet' /\ DividedSide'
    BY <1>1 DEF Quiet, DividedSide, Trading
  <2> QED BY <2>1, <2>2, <2>3 DEF Basis
<1>9. Parts'
  <2>1. \A s \in Sides : shares'[s] = <<>> /\ pos'[s] = 1
    BY <1>1, <1>6
  <2> QED BY <1>1, <2>1 DEF Parts
<1>10. Enough'
  <2>1. \A s \in Sides : total' <= OfferedIn(s, book'[s], price')
    BY <1>1, <1>5, <1>a, <1>b DEF Sides
  <2>2. PICK t \in Sides : total = OfferedIn(t, book[t], price)
    BY <1>5, <1>a, <1>b DEF Sides
  <2>3. Tight(t)'
    BY <1>1, <1>6, <2>2 DEF Tight, IsDivided
  <2> QED BY <2>1, <2>3 DEF Enough
<1>11. Most'
  <2> SUFFICES ASSUME NEW p \in PricesOf(book) PROVE \E s \in Sides : OfferedIn(s, book[s], p) <= total
    BY <1>1 DEF Most
  <2>1. MatchedIn(book, p) <= total
    BY <1>3 DEF NotBeaten
  <2>2. MatchedIn(book, p) = OfferedIn("bid", book["bid"], p) \/ MatchedIn(book, p) = OfferedIn("ask", book["ask"], p)
    BY DEF MatchedIn, Least
  <2> QED BY <2>1, <2>2 DEF Sides
<1>12. Reported'
  <2>1. Later(reports') = 0
    <3>1. Len(reports') = 1
      BY <1>7
    <3>f. PICK f : f = [i \in 2..Len(reports') |-> reports'[i].size]
      OBVIOUS
    <3>D. PICK D : D = 2..Len(reports')
      OBVIOUS
    <3>2. D = {}
      BY <3>1, <3>D
    <3>3. IsFiniteSet(D) /\ f \in [D -> Int] /\ \A x \in D : f[x] = 0
      BY <3>2, <3>f, <3>D, FS_EmptySet
    <3>4. SumFunction(f) = 0
      BY <3>3, SumZero
    <3> QED BY <3>4, <3>f DEF Later
  <2>2. \A i \in 2..Len(reports') : FALSE
    BY <1>7
  <2>3. reports'[1] = r /\ reports' # <<>>
    BY <1>7
  <2>4. reports'[1].size = total' + Later(reports')
    BY <1>1, <1>5, <1>7, <2>1, <2>3
  <2>5. reports'[1].price = price'
    BY <1>1, <1>7, <2>3
  <2> QED BY <1>1, <2>2, <2>3, <2>4, <2>5 DEF Reported, Announced, Trading
<1>13. LedgerInv' /\ PublishedKnown' /\ MarketsHidden'
  BY <1>1 DEF Inv, LedgerInv, PublishedKnown, MarketsHidden
<1>14. PriceSoFar' /\ Even' /\ Uncrossed'
  BY <1>1 DEF PriceSoFar, Even, Uncrossed
<1> QED BY <1>8, <1>9, <1>10, <1>11, <1>12, <1>13, <1>14 DEF Inv

(***************************************************************************)
(* The price that is announced is the best of all, in the order of the      *)
(* three rules.                                                             *)
(***************************************************************************)
BestPrice ==
    \A r \in Rows :
        /\ Matched(r) <= total'
        /\ Matched(r) = total' => Excess(price') <= Excess(r)
        /\ Matched(r) = total' /\ Excess(price') = Excess(r)
              => Distance(price', lastPrice) <= Distance(r, lastPrice)

\* The price the reading ends with is the best of all rows.
LEMMA AnnouncedBest == Inv /\ AnnouncePrice => BestPrice
<1> SUFFICES ASSUME Inv, AnnouncePrice, NEW r \in Rows
             PROVE  /\ Matched(r) <= total'
                    /\ Matched(r) = total' => Excess(price') <= Excess(r)
                    /\ Matched(r) = total' /\ Excess(price') = Excess(r)
                          => Distance(price', lastPrice) <= Distance(r, lastPrice)
  BY DEF BestPrice
<1>1. phase = "price" /\ rows = {} /\ total' = total /\ price' = price
  BY DEF AnnouncePrice
<1>2. r \in PricesOf(book) \ rows
  BY <1>1 DEF Rows, PricesOf
<1>3. NotBeaten(book, lastPrice, r, total, price)
  BY <1>1, <1>2 DEF Inv, PriceSoFar
<1> QED BY <1>1, <1>3, RowsOfBook DEF NotBeaten

\* The sizes of the orders ids, as a sequence.
SizesInTurn(os, ids) == [i \in DOMAIN ids |-> os[ids[i]].size]

(***************************************************************************)
(* The orders of a level, as a sequence, add up to its size.                *)
(***************************************************************************)
LEMMA LevelSum ==
    ASSUME NEW os \in Seq(OrderRec), NEW s, NEW lv \in LevelRec, ExactLevel(os, s, lv),
           NEW sh, sh = SizesInTurn(os, lv.ids)
    PROVE  /\ sh \in Seq(Nat) /\ Len(sh) = Len(lv.ids) /\ DOMAIN sh = DOMAIN lv.ids
           /\ SumFunction(sh) = lv.size
<1>i. PICK ids : ids = lv.ids
  OBVIOUS
<1>B. PICK B : B = Belongs(os, s, lv.price)
  OBVIOUS
<1>g. PICK g : g = Sizes(os, B)
  OBVIOUS
<1>1. ids \in Seq(Nat) /\ DOMAIN ids = 1..Len(ids) /\ Len(ids) \in Nat
  <2>1. ids \in Seq(Nat)
    BY <1>i DEF LevelRec
  <2> QED BY <2>1, LenProperties
<1>2. IsInjective(ids) /\ Range(ids) = B /\ lv.size = SumFunction(g)
  BY <1>i, <1>B, <1>g DEF ExactLevel
<1>3. \A j \in DOMAIN ids : ids[j] \in B /\ ids[j] \in DOMAIN os /\ os[ids[j]].size \in Nat
  <2>1. \A j \in DOMAIN ids : ids[j] \in B /\ ids[j] \in DOMAIN os
    BY <1>2, <1>B DEF Range, Belongs
  <2>2. \A x \in DOMAIN os : os[x] \in OrderRec
    BY LenProperties, ElementOfSeq
  <2> QED BY <2>1, <2>2 DEF OrderRec
<1>4. sh \in Seq(Nat) /\ DOMAIN sh = 1..Len(ids) /\ \A j \in DOMAIN ids : sh[j] = os[ids[j]].size
  <2>1. sh = [j \in 1..Len(ids) |-> os[ids[j]].size]
    BY <1>1, <1>i DEF SizesInTurn
  <2>2. \A j \in 1..Len(ids) : os[ids[j]].size \in Nat
    BY <1>1, <1>3
  <2>3. sh \in [1..Len(ids) -> Nat]
    BY <2>1, <2>2
  <2>m. PICK m : m = Len(ids)
    OBVIOUS
  <2>6. m \in Nat /\ sh \in [1..m -> Nat]
    BY <1>1, <2>3, <2>m
  <2>4. sh \in Seq(Nat)
    BY <2>6
  <2>5. DOMAIN sh = 1..Len(ids) /\ \A j \in 1..Len(ids) : sh[j] = os[ids[j]].size
    BY <2>1
  <2> QED BY <1>1, <2>4, <2>5
<1>5. Len(sh) = Len(ids)
  <2>1. DOMAIN sh = 1..Len(sh) /\ Len(sh) \in Nat
    BY <1>4, LenProperties
  <2>2. 1..Len(sh) = 1..Len(ids)
    BY <1>4, <2>1
  <2> QED BY <1>1, <2>1, <2>2, SameLength
<1>D. PICK D : D = DOMAIN ids
  OBVIOUS
<1>6. IsFiniteSet(D) /\ D = DOMAIN sh
  BY <1>1, <1>4, <1>D, FS_Interval
<1>7. ids \in Bijection(D, B)
  <2>1. ids \in [D -> B]
    BY <1>1, <1>3, <1>D
  <2>2. \A x, y \in D : ids[x] = ids[y] => x = y
    BY <1>2, <1>D DEF IsInjective
  <2>3. \A y \in B : \E x \in D : ids[x] = y
    BY <1>2, <1>D DEF Range
  <2> QED BY <2>1, <2>2, <2>3 DEF Bijection, Injection, Surjection, IsInjective
<1>8. \A x \in D : sh[x] \in Int /\ sh[x] = g[ids[x]]
  <2> SUFFICES ASSUME NEW x \in D PROVE sh[x] \in Int /\ sh[x] = g[ids[x]]
    OBVIOUS
  <2>1. ids[x] \in B /\ os[ids[x]].size \in Nat /\ sh[x] = os[ids[x]].size
    BY <1>3, <1>4, <1>D
  <2>2. g[ids[x]] = os[ids[x]].size
    BY <1>g, <2>1 DEF Sizes
  <2> QED BY <2>1, <2>2
<1>9. SumFunctionOnSet(sh, D) = SumFunctionOnSet(g, B)
  <2>1. IsFiniteSet(D) /\ ids \in Bijection(D, B) /\ \A x \in D : sh[x] \in Int /\ sh[x] = g[ids[x]]
    BY <1>6, <1>7, <1>8
  <2> QED BY <2>1, SumRenamed
<1>10. SumFunction(sh) = SumFunctionOnSet(sh, D) /\ SumFunction(g) = SumFunctionOnSet(g, B)
  <2>1. DOMAIN g = B
    BY <1>g DEF Sizes
  <2> QED BY <1>6, <2>1 DEF SumFunction
<1> QED BY <1>1, <1>2, <1>4, <1>5, <1>9, <1>10, <1>i

\* The first level of the side that is divided next.
NextLevel(t, lv) ==
    /\ t \in Sides /\ shares[t] = <<>> /\ (t = "ask" => shares["bid"] # <<>>)
    /\ lv = book[t][1] /\ book[t] # <<>> /\ book[t] \in Seq(LevelRec) /\ 1 \in DOMAIN book[t]
    /\ Standing(orders, t, book[t]) /\ ExactLevel(orders, t, lv) /\ Aged(orders, lv.ids)
    /\ lv \in LevelRec /\ lv.ids \in Seq(Nat) /\ lv.ids # <<>> /\ lv.size \in Nat /\ lv.price \in Nat
    /\ pos[t] = 1 /\ total \in Nat /\ total > 0
    /\ \A j \in DOMAIN lv.ids : lv.ids[j] \in DOMAIN orders /\ orders[lv.ids[j]] \in OrderRec

\* The level a division starts with is exact, by age, and has orders.
LEMMA ToDivideNext ==
    ASSUME Inv, Dividing, NEW t, t = ToDivide, NEW lv, lv = First(t)
    PROVE  NextLevel(t, lv)
<1>1. t \in Sides /\ shares[t] = <<>> /\ (t = "ask" => shares["bid"] # <<>>)
  BY DEF Dividing, ToDivide, Sides
<1>2. phase = "share" /\ total \in Nat /\ total > 0 /\ price \in Nat
  BY DEF Dividing, Inv, Basis, AuctionTypes
<1>3. orders \in Seq(OrderRec) /\ Standing(orders, t, book[t]) /\ book[t] \in Seq(LevelRec)
  BY <1>1 DEF Inv, Basis, BookInv, Known, Standing
<1>4. book[t] # <<>>
  <2> SUFFICES ASSUME book[t] = <<>> PROVE FALSE
    OBVIOUS
  <2>1. total <= OfferedIn(t, book[t], price)
    BY <1>1, <1>2 DEF Inv, Enough, Trading
  <2>2. Ordered(t, book[t])
    BY <1>3 DEF Standing, ExactSide
  <2>3. OfferedIn(t, book[t], price) = 0
    BY <1>2, <1>3, <2>2, OfferedNothing
  <2> QED BY <1>2, <2>1, <2>3
<1>5. 1 \in DOMAIN book[t]
  <2>1. DOMAIN book[t] = 1..Len(book[t]) /\ Len(book[t]) \in Nat /\ Len(book[t]) # 0
    BY <1>3, <1>4, LenProperties, EmptySeq
  <2>2. 1 \in 1..Len(book[t])
    BY <2>1
  <2> QED BY <2>1, <2>2
<1>6. lv = book[t][1] /\ lv \in Range(book[t]) /\ lv \in LevelRec
  <2>1. lv = book[t][1]
    BY DEF First
  <2> QED BY <1>3, <1>5, <2>1, LenProperties, ElementOfSeq DEF Range
<1>7. lv.ids \in Seq(Nat) /\ lv.size \in Nat /\ lv.price \in Nat
  BY <1>6 DEF LevelRec
<1>8. lv.ids # <<>>
  BY <1>1, <1>2, <1>5, <1>6 DEF Inv, Basis, NoneEmpty
<1>9. ExactLevel(orders, t, lv) /\ Aged(orders, lv.ids)
  BY <1>3, <1>6 DEF Standing, ExactSide
<1>10. pos[t] = 1
  <2>1. pos[t] = 1 \/ total = 0
    BY <1>1, <1>2 DEF Inv, Parts, Trading
  <2> QED BY <1>2, <2>1
<1>11. \A j \in DOMAIN lv.ids : lv.ids[j] \in DOMAIN orders /\ orders[lv.ids[j]] \in OrderRec
  <2>1. \A j \in DOMAIN lv.ids : lv.ids[j] \in DOMAIN orders
    BY <1>9 DEF ExactLevel, Belongs, Range
  <2> QED BY <1>3, <2>1, LenProperties, ElementOfSeq
<1> QED BY <1>1, <1>2, <1>3, <1>4, <1>5, <1>6, <1>7, <1>8, <1>9, <1>10, <1>11 DEF NextLevel

(***************************************************************************)
(* A level that is used up as a whole is divided correctly.                 *)
(***************************************************************************)
LEMMA DivideWholeInv == Inv /\ DivideWhole => Inv'
<1> SUFFICES ASSUME Inv, DivideWhole PROVE Inv'
  OBVIOUS
<1>t. PICK t : t = ToDivide
  OBVIOUS
<1>v. PICK lv : lv = First(t)
  OBVIOUS
<1>s. PICK sh : sh = [i \in DOMAIN lv.ids |-> orders[lv.ids[i]].size]
  OBVIOUS
<1>1. /\ phase = "share" /\ phase' = phase /\ total >= lv.size
      /\ shares' = [shares EXCEPT ![t] = sh]
      /\ orders' = orders /\ book' = book /\ rows' = rows /\ total' = total
      /\ price' = price /\ pos' = pos /\ published' = published /\ ledger' = ledger /\ reports' = reports
      /\ division' = division /\ cancels' = cancels /\ auctions' = auctions /\ lastPrice' = lastPrice
  BY <1>t, <1>v, <1>s DEF DivideWhole, Dividing, WholeLevel, OrderAt
<1>2. BookInv /\ NoneEmpty /\ AuctionTypes /\ Quiet
  BY DEF Inv, Basis
<1>3. NextLevel(t, lv)
  <2>1. Dividing
    BY DEF DivideWhole
  <2> QED BY <1>t, <1>v, <2>1, ToDivideNext
<1>4. /\ t \in Sides /\ shares[t] = <<>> /\ lv = book[t][1] /\ book[t] # <<>> /\ lv \in LevelRec
      /\ lv.ids \in Seq(Nat) /\ lv.ids # <<>> /\ ExactLevel(orders, t, lv) /\ pos[t] = 1 /\ lv.size \in Nat
  BY <1>3 DEF NextLevel
<1>5. /\ sh \in Seq(Nat) /\ Len(sh) = Len(lv.ids) /\ DOMAIN sh = DOMAIN lv.ids /\ SumFunction(sh) = lv.size
  <2>1. sh = SizesInTurn(orders, lv.ids)
    BY <1>s DEF SizesInTurn
  <2> QED BY <1>2, <1>4, <2>1, LevelSum DEF BookInv, Known
<1>6. sh # <<>>
  <2>1. Len(lv.ids) # 0
    BY <1>4, EmptySeq
  <2> QED BY <1>5, <2>1
<1>7. /\ DOMAIN shares' = Sides /\ shares'[t] = sh /\ \A u \in Sides : u # t => shares'[u] = shares[u]
      /\ \A u \in Sides : shares'[u] \in Seq(Nat)
  <2>1. DOMAIN shares = Sides /\ \A u \in Sides : shares[u] \in Seq(Nat)
    BY <1>2 DEF AuctionTypes
  <2> QED BY <1>1, <1>4, <1>5, <2>1
<1>8. \A k \in DOMAIN sh : sh[k] = orders[lv.ids[k]].size /\ sh[k] \in Nat
  BY <1>5, <1>s, LenProperties, ElementOfSeq
<1>9. Fits(orders, lv.ids, 1, sh) /\ Whole(orders, lv.ids, 1, sh)
  <2>1. \A k \in DOMAIN sh : 1 - 1 + k = k /\ sh[k] <= orders[lv.ids[1 - 1 + k]].size
    <3> SUFFICES ASSUME NEW k \in DOMAIN sh PROVE 1 - 1 + k = k /\ sh[k] <= orders[lv.ids[1 - 1 + k]].size
      OBVIOUS
    <3>1. k \in Nat
      BY <1>5, LenProperties
    <3>2. 1 - 1 + k = k
      BY <3>1
    <3>3. sh[k] = orders[lv.ids[1 - 1 + k]].size /\ sh[k] \in Nat
      BY <1>8, <3>2
    <3> QED BY <3>2, <3>3
  <2>2. Len(sh) \in Nat
    BY <1>5, LenProperties
  <2>3. Len(lv.ids) = 1 - 1 + Len(sh)
    BY <1>5, <2>2
  <2> QED BY <1>8, <2>1, <2>3 DEF Fits, Whole
<1>10. Basis'
  <2>1. BookInv' /\ NoneEmpty'
    BY <1>1, <1>2 DEF BookInv, NoneEmpty
  <2>2. AuctionTypes'
    BY <1>1, <1>2, <1>7 DEF AuctionTypes
  <2>3. Quiet' /\ DividedSide'
    BY <1>1 DEF Quiet, DividedSide, Trading
  <2> QED BY <2>1, <2>2, <2>3 DEF Basis
<1>11. Parts'
  <2> SUFFICES ASSUME NEW s \in Sides
               PROVE  IF shares'[s] # <<>>
                      THEN /\ book[s] # <<>>
                           /\ Fits(orders, book[s][1].ids, pos[s], shares'[s])
                           /\ \/ /\ Whole(orders, book[s][1].ids, pos[s], shares'[s])
                                 /\ SumFunction(shares'[s]) <= total
                              \/ InTurn(shares'[s], total)
                      ELSE pos[s] = 1 \/ total = 0
    BY <1>1 DEF Parts, IsDivided
  <2>1. CASE s = t
    BY <1>1, <1>4, <1>5, <1>6, <1>7, <1>9, <2>1
  <2>2. CASE s # t
    <3>1. shares'[s] = shares[s]
      BY <1>7, <2>2
    <3> QED BY <1>1, <3>1 DEF Inv, Parts, Trading, IsDivided
  <2> QED BY <2>1, <2>2
<1>12. Enough'
  <2>1. PICK u \in Sides : Tight(u)
    BY <1>1 DEF Inv, Enough, Trading
  <2>2. shares'[u] = <<>> \/ Whole(orders, book[u][1].ids, pos[u], shares'[u])
    <3>1. CASE u = t
      BY <1>4, <1>7, <1>9, <3>1
    <3>2. CASE u # t
      BY <1>7, <2>1, <3>2 DEF Tight
    <3> QED BY <3>1, <3>2
  <2>3. Tight(u)'
    BY <1>1, <2>1, <2>2 DEF Tight, IsDivided
  <2>4. \A s \in Sides : total <= OfferedIn(s, book[s], price)
    BY <1>1 DEF Inv, Enough, Trading
  <2> QED BY <1>1, <2>3, <2>4 DEF Enough
<1>13. Most' /\ Reported'
  BY <1>1 DEF Inv, Most, Reported, Announced, Trading
<1>14. LedgerInv' /\ PublishedKnown' /\ MarketsHidden'
  BY <1>1 DEF Inv, LedgerInv, PublishedKnown, MarketsHidden
<1>15. PriceSoFar' /\ Even' /\ Uncrossed'
  BY <1>1 DEF PriceSoFar, Even, Uncrossed
<1> QED BY <1>10, <1>11, <1>12, <1>13, <1>14, <1>15 DEF Inv

(***************************************************************************)
(* The division of a level begins with nothing handed out; the other side   *)
(* is then used up level by level.                                          *)
(***************************************************************************)
LEMMA DivideInTurnInv == Inv /\ DivideInTurn => Inv'
<1> SUFFICES ASSUME Inv, DivideInTurn PROVE Inv'
  OBVIOUS
<1>t. PICK t : t = ToDivide
  OBVIOUS
<1>v. PICK lv : lv = First(t)
  OBVIOUS
<1>s. PICK sh : sh = [i \in DOMAIN lv.ids |-> 0]
  OBVIOUS
<1>c. PICK c : c = OldestCounter(t)
  OBVIOUS
<1>d. PICK d : d = [side |-> t, rest |-> total, counter |-> c]
  OBVIOUS
<1>1. /\ phase = "share" /\ phase' = "divide" /\ ~(total >= lv.size)
      /\ shares' = [shares EXCEPT ![t] = sh] /\ division' = d
      /\ orders' = orders /\ book' = book /\ rows' = rows /\ total' = total
      /\ price' = price /\ pos' = pos /\ published' = published /\ ledger' = ledger /\ reports' = reports
      /\ cancels' = cancels /\ auctions' = auctions /\ lastPrice' = lastPrice
  BY <1>t, <1>v, <1>s, <1>c, <1>d DEF DivideInTurn, Dividing, WholeLevel
<1>2. BookInv /\ NoneEmpty /\ AuctionTypes /\ Quiet
  BY DEF Inv, Basis
<1>3. NextLevel(t, lv)
  <2>1. Dividing
    BY DEF DivideInTurn
  <2> QED BY <1>t, <1>v, <2>1, ToDivideNext
<1>4. /\ t \in Sides /\ shares[t] = <<>> /\ lv = book[t][1] /\ book[t] # <<>> /\ lv \in LevelRec
      /\ lv.ids \in Seq(Nat) /\ lv.ids # <<>> /\ Aged(orders, lv.ids) /\ pos[t] = 1 /\ lv.size \in Nat
      /\ total \in Nat /\ total > 0
      /\ \A j \in DOMAIN lv.ids : lv.ids[j] \in DOMAIN orders /\ orders[lv.ids[j]] \in OrderRec
  BY <1>3 DEF NextLevel
<1>5. \A j \in DOMAIN lv.ids : orders[lv.ids[j]].size \in Nat /\ orders[lv.ids[j]].counter \in Nat
  BY <1>4 DEF OrderRec
<1>6. DOMAIN lv.ids = 1..Len(lv.ids) /\ Len(lv.ids) \in Nat /\ Len(lv.ids) # 0
  BY <1>4, LenProperties, EmptySeq
<1>7. 1 \in DOMAIN lv.ids
  <2>1. 1 \in 1..Len(lv.ids)
    BY <1>6
  <2> QED BY <1>6, <2>1
<1>8. c = orders[lv.ids[1]].counter /\ c \in Nat
  <2>1. c = orders[lv.ids[1]].counter
    BY <1>c, <1>v DEF OldestCounter, OrderAt
  <2> QED BY <1>5, <1>7, <2>1
<1>9. sh \in Seq(Nat) /\ DOMAIN sh = DOMAIN lv.ids /\ Len(sh) = Len(lv.ids) /\ \A k \in DOMAIN sh : sh[k] = 0
  <2>1. DOMAIN sh = DOMAIN lv.ids /\ \A k \in DOMAIN sh : sh[k] = 0
    BY <1>s
  <2>2. sh \in [1..Len(lv.ids) -> Nat]
    BY <1>6, <1>s
  <2>3. sh \in Seq(Nat)
    BY <1>6, <2>2
  <2>4. DOMAIN sh = 1..Len(sh) /\ Len(sh) \in Nat
    BY <2>3, LenProperties
  <2>5. 1..Len(sh) = 1..Len(lv.ids)
    BY <1>6, <2>1, <2>4
  <2>6. Len(sh) = Len(lv.ids)
    BY <1>6, <2>4, <2>5, SameLength
  <2> QED BY <2>1, <2>3, <2>6
<1>10. sh # <<>>
  BY <1>6, <1>9
<1>11. SumFunction(sh) = 0
  BY <1>9, SumOfParts
<1>12. /\ DOMAIN shares' = Sides /\ shares'[t] = sh /\ \A u \in Sides : u # t => shares'[u] = shares[u]
       /\ \A u \in Sides : shares'[u] \in Seq(Nat)
  <2>1. DOMAIN shares = Sides /\ \A u \in Sides : shares[u] \in Seq(Nat)
    BY <1>2 DEF AuctionTypes
  <2> QED BY <1>1, <1>4, <1>9, <2>1
<1>13. Fits(orders, lv.ids, 1, sh)
  <2>1. \A k \in DOMAIN sh : sh[k] <= orders[lv.ids[1 - 1 + k]].size
    <3> SUFFICES ASSUME NEW k \in DOMAIN sh PROVE sh[k] <= orders[lv.ids[1 - 1 + k]].size
      OBVIOUS
    <3>1. k \in Nat /\ k \in DOMAIN lv.ids
      BY <1>6, <1>9
    <3>2. 1 - 1 + k = k
      BY <3>1
    <3>3. orders[lv.ids[1 - 1 + k]].size \in Nat /\ sh[k] = 0
      BY <1>5, <1>9, <3>1, <3>2
    <3> QED BY <3>3
  <2>2. Len(sh) \in Nat
    BY <1>9, LenProperties
  <2>3. Len(lv.ids) = 1 - 1 + Len(sh)
    BY <1>9, <2>2
  <2> QED BY <2>1, <2>3 DEF Fits
<1>14. d.side = t /\ d.rest = total /\ d.counter = c
  BY <1>d
<1>15. \A i \in DOMAIN sh : orders[lv.ids[i]].counter \in Nat /\ orders[lv.ids[i]].counter <= c
  <2> SUFFICES ASSUME NEW i \in DOMAIN sh
               PROVE orders[lv.ids[i]].counter \in Nat /\ orders[lv.ids[i]].counter <= c
    OBVIOUS
  <2>1. i \in DOMAIN lv.ids /\ i \in Nat /\ (i = 1 \/ 1 < i)
    BY <1>6, <1>9
  <2>2. orders[lv.ids[i]].counter \in Nat
    BY <1>5, <2>1
  <2>3. 1 < i => orders[lv.ids[1]].counter >= orders[lv.ids[i]].counter
    BY <1>4, <1>7, <2>1 DEF Aged
  <2> QED BY <1>8, <2>1, <2>2, <2>3
<1>16. BeingDivided(orders, lv.ids, 1, sh, d, total)
  <2>1. SumFunction(sh) + d.rest = total /\ d.rest > 0
    BY <1>4, <1>11, <1>14
  <2>2. \A i \in DOMAIN sh : ~(orders[lv.ids[i]].counter > d.counter)
    BY <1>8, <1>14, <1>15
  <2> QED BY <1>9, <2>1, <2>2 DEF BeingDivided
<1>17. Basis'
  <2>1. BookInv' /\ NoneEmpty'
    BY <1>1, <1>2 DEF BookInv, NoneEmpty
  <2>2. AuctionTypes'
    <3>1. division' \in [side: Sides, rest: Nat, counter: Int]
      <4>1. c \in Int
        BY <1>8
      <4> QED BY <1>1, <1>4, <1>d, <4>1
    <3>2. phase' \in Phases /\ total' \in Nat /\ total' \in Int /\ total' >= -1
      BY <1>1, <1>4 DEF Phases
    <3> QED BY <1>1, <1>2, <1>12, <3>1, <3>2 DEF AuctionTypes
  <2>3. Quiet'
    BY <1>1 DEF Quiet, Trading
  <2>4. DividedSide'
    <3>1. shares'[t] # <<>>
      BY <1>10, <1>12
    <3>2. t = "ask" => shares["bid"] # <<>>
      BY <1>3 DEF NextLevel
    <3>3. t = "ask" => shares'["bid"] # <<>>
      BY <1>12, <3>2 DEF Sides
    <3> QED BY <1>1, <1>14, <3>1, <3>3 DEF DividedSide
  <2> QED BY <2>1, <2>2, <2>3, <2>4 DEF Basis
<1>18. Parts'
  <2> SUFFICES ASSUME NEW s \in Sides
               PROVE  IF shares'[s] # <<>>
                      THEN /\ book[s] # <<>>
                           /\ Fits(orders, book[s][1].ids, pos[s], shares'[s])
                           /\ IF d.side = s
                              THEN BeingDivided(orders, book[s][1].ids, pos[s], shares'[s], d, total)
                              ELSE \/ /\ Whole(orders, book[s][1].ids, pos[s], shares'[s])
                                      /\ SumFunction(shares'[s]) <= total
                                   \/ InTurn(shares'[s], total)
                      ELSE pos[s] = 1 \/ total = 0
    BY <1>1 DEF Parts, IsDivided
  <2>1. CASE s = t
    BY <1>4, <1>10, <1>12, <1>13, <1>14, <1>16, <2>1
  <2>2. CASE s # t
    <3>1. shares'[s] = shares[s]
      BY <1>12, <2>2
    <3> QED BY <1>1, <1>14, <2>2, <3>1 DEF Inv, Parts, Trading, IsDivided
  <2> QED BY <2>1, <2>2
<1>19. Enough'
  <2>1. PICK u \in Sides : Tight(u)
    BY <1>1 DEF Inv, Enough, Trading
  <2>2. u # t
    <3> SUFFICES ASSUME u = t PROVE FALSE
      OBVIOUS
    <3>1. total = OfferedIn(t, book[t], price) /\ price \in Nat
      BY <1>2, <2>1 DEF Tight, AuctionTypes
    <3>2. book[t] \in Seq(LevelRec) /\ Ordered(t, book[t]) /\ 1 \in DOMAIN book[t]
      BY <1>3 DEF NextLevel, Standing, ExactSide
    <3>3. CASE Better(t, price, book[t][1].price)
      <4>1. OfferedIn(t, book[t], price) = 0
        BY <3>1, <3>2, <3>3, OfferedNothing
      <4> QED BY <1>4, <3>1, <4>1
    <3>4. CASE ~Better(t, price, book[t][1].price)
      <4>1. /\ OfferedIn(t, book[t], price) \in Nat
            /\ \A i \in DOMAIN book[t] :
                  ~Better(t, price, book[t][i].price) => book[t][i].size <= OfferedIn(t, book[t], price)
        BY <3>2, OfferedType
      <4>2. lv.size <= total
        BY <1>4, <3>1, <3>2, <3>4, <4>1
      <4> QED BY <1>1, <1>4, <4>2
    <3> QED BY <3>3, <3>4
  <2>3. Tight(u)'
    <3>1. shares'[u] = shares[u]
      BY <1>12, <2>2
    <3>2. ~IsDivided(u)'
      BY <1>1, <1>14, <2>2 DEF IsDivided
    <3>3. total' = OfferedIn(u, book'[u], price')
      BY <1>1, <2>1 DEF Tight
    <3>4. shares'[u] = <<>> \/ Whole(orders', book'[u][1].ids, pos'[u], shares'[u])
      BY <1>1, <2>1, <3>1 DEF Tight
    <3> QED BY <3>2, <3>3, <3>4 DEF Tight
  <2>4. \A s \in Sides : total <= OfferedIn(s, book[s], price)
    BY <1>1 DEF Inv, Enough, Trading
  <2> QED BY <1>1, <2>3, <2>4 DEF Enough
<1>20. Most' /\ Reported'
  BY <1>1 DEF Inv, Most, Reported, Announced, Trading
<1>21. LedgerInv' /\ PublishedKnown' /\ MarketsHidden'
  BY <1>1 DEF Inv, LedgerInv, PublishedKnown, MarketsHidden
<1>22. PriceSoFar' /\ Uncrossed'
  BY <1>1 DEF PriceSoFar, Uncrossed
<1>23. Even'
  <2>1. EvenlyDivided(orders, lv.ids, sh, c)
    <3>1. \A i \in DOMAIN sh : ~(orders[lv.ids[i]].counter > c)
      BY <1>8, <1>15
    <3>2. \A i \in DOMAIN sh : sh[i] = Least(orders[lv.ids[i]].size, 0)
      <4> SUFFICES ASSUME NEW i \in DOMAIN sh PROVE sh[i] = Least(orders[lv.ids[i]].size, 0)
        OBVIOUS
      <4>1. orders[lv.ids[i]].size \in Nat /\ sh[i] = 0
        BY <1>5, <1>9
      <4> QED BY <4>1 DEF Least
    <3> QED BY <3>1, <3>2 DEF EvenlyDivided
  <2>2. EvenlyDivided(orders', book'[t][1].ids, shares'[t], c)
    BY <1>1, <1>4, <1>12, <2>1
  <2> QED BY <1>1, <1>14, <2>2 DEF Even
<1> QED BY <1>17, <1>18, <1>19, <1>20, <1>21, <1>22, <1>23 DEF Inv

(***************************************************************************)
(* A turn of a division, as numbers: n orders of the ages cn and the sizes  *)
(* sz, of which sh are handed out; the counter is at c and r shares are     *)
(* left. It serves the orders T.                                            *)
(***************************************************************************)
OpenOrders(n, cn, sz, sh, c) ==
    {i \in 1..n : cn[i] = c /\ \A j \in 1..i : ~(cn[j] = c /\ sz[j] <= sh[j]) /\ ~(cn[j] < c)}

IsTurn(n, cn, sz, sh, c, r, T) ==
    /\ n \in Nat /\ cn \in [1..n -> Nat] /\ sz \in [1..n -> Nat \ {0}] /\ sh \in [1..n -> Nat]
    /\ c \in Int /\ r \in Nat /\ r > 0
    /\ \A i, j \in 1..n : i < j => cn[i] >= cn[j]
    /\ \A i \in 1..n : sh[i] <= sz[i]
    /\ T = {i \in OpenOrders(n, cn, sz, sh, c) :
               Cardinality({j \in OpenOrders(n, cn, sz, sh, c) : j < i}) < r}

\* The orders of one age are served together.
AgeByAge(n, cn, sh, c) ==
    /\ \A i \in 1..n : (cn[i] > c => sh[i] > 0) /\ (cn[i] < c => sh[i] = 0)
    /\ \/ \A i \in 1..n : cn[i] = c => sh[i] = 0
       \/ \A i \in 1..n : cn[i] = c => sh[i] > 0

\* Those older than c are full, those of age c have the same, to the full.
EvenAt(n, cn, sz, sh, c, m) ==
    \A i \in 1..n : (cn[i] > c => sh[i] = sz[i]) /\ (cn[i] = c => sh[i] = Least(sz[i], m))

LargestFirst(n, cn, sz) == \A i, j \in 1..n : i < j /\ cn[i] = cn[j] => sz[i] >= sz[j]

NextCounter(c, T) == IF T = {} /\ c >= 0 THEN c - 1 ELSE c

TurnServes(n, cn, sz, sh, c, r, T) ==
    /\ IsFiniteSet(T) /\ T \subseteq 1..n /\ Cardinality(T) \in Nat /\ Cardinality(T) <= r
    /\ \A i \in T : cn[i] = c /\ sh[i] < sz[i]
    /\ \A i \in T, j \in 1..n : j < i /\ cn[j] = c => j \in T
    /\ Cardinality(T) < r => T = OpenOrders(n, cn, sz, sh, c)
    /\ (\A j \in 1..n : cn[j] = c => sh[j] = 0)
          => \A i \in 1..n : cn[i] = c => i \in OpenOrders(n, cn, sz, sh, c)

\* A turn serves the oldest, from the front, and all that wait if it can.
LEMMA TurnServesFirst ==
    ASSUME NEW n, NEW cn, NEW sz, NEW sh, NEW c, NEW r, NEW T, IsTurn(n, cn, sz, sh, c, r, T)
    PROVE  TurnServes(n, cn, sz, sh, c, r, T)
<1>1. /\ n \in Nat /\ cn \in [1..n -> Nat] /\ sz \in [1..n -> Nat \ {0}] /\ sh \in [1..n -> Nat]
      /\ c \in Int /\ r \in Nat /\ r > 0
      /\ \A i, j \in 1..n : i < j => cn[i] >= cn[j]
      /\ \A i \in 1..n : sh[i] <= sz[i]
  BY DEF IsTurn
<1>O. PICK O : O = OpenOrders(n, cn, sz, sh, c)
  OBVIOUS
<1>2. T = {i \in O : Cardinality({j \in O : j < i}) < r}
  BY <1>O DEF IsTurn
<1>3. O \subseteq 1..n /\ O \in SUBSET Nat /\ IsFiniteSet(O)
  <2>1. O \subseteq 1..n
    BY <1>O DEF OpenOrders
  <2>2. IsFiniteSet(1..n) /\ 1..n \subseteq Nat
    BY <1>1, FS_Interval
  <2> QED BY <2>1, <2>2, FS_Subset
<1>4. /\ IsFiniteSet(T) /\ Cardinality(T) \in 0..r
      /\ Cardinality(T) < r => T = O
      /\ \A i \in T, j \in O : j < i => j \in T
  <2>1. O \in SUBSET Nat /\ IsFiniteSet(O) /\ r \in Nat
    BY <1>1, <1>3
  <2>2. T = FirstOf(O, r)
    BY <1>2 DEF FirstOf
  <2> QED BY <2>1, <2>2, FirstElements
<1>5. \A i \in O : /\ cn[i] = c /\ i \in 1..n
                   /\ \A j \in 1..i : ~(cn[j] = c /\ sz[j] <= sh[j]) /\ ~(cn[j] < c)
  BY <1>O DEF OpenOrders
<1>6. \A i \in O, j \in 1..n : j < i /\ cn[j] = c => j \in O
  <2> SUFFICES ASSUME NEW i \in O, NEW j \in 1..n, j < i, cn[j] = c PROVE j \in O
    OBVIOUS
  <2>1. \A k \in 1..j : k \in 1..i
    BY <1>1, <1>5
  <2>2. \A k \in 1..j : ~(cn[k] = c /\ sz[k] <= sh[k]) /\ ~(cn[k] < c)
    BY <1>5, <2>1
  <2> QED BY <1>O, <2>2 DEF OpenOrders
<1>7. \A i \in T : cn[i] = c /\ sh[i] < sz[i]
  <2> SUFFICES ASSUME NEW i \in T PROVE cn[i] = c /\ sh[i] < sz[i]
    OBVIOUS
  <2>1. i \in O /\ i \in 1..n /\ i \in 1..i /\ cn[i] = c
    BY <1>1, <1>2, <1>5
  <2>2. ~(sz[i] <= sh[i])
    BY <1>5, <2>1
  <2>3. sz[i] \in Nat /\ sh[i] \in Nat
    BY <1>1, <2>1
  <2> QED BY <2>1, <2>2, <2>3
<1>8. \A i \in T, j \in 1..n : j < i /\ cn[j] = c => j \in T
  BY <1>2, <1>4, <1>6
<1>9. ASSUME \A j \in 1..n : cn[j] = c => sh[j] = 0, NEW i \in 1..n, cn[i] = c
      PROVE  i \in O
  <2>1. ASSUME NEW j \in 1..i PROVE ~(cn[j] = c /\ sz[j] <= sh[j]) /\ ~(cn[j] < c)
    <3>1. j \in 1..n /\ (j = i \/ j < i)
      BY <1>1
    <3>2. cn[j] \in Nat /\ cn[j] >= c
      BY <1>1, <1>9, <3>1
    <3>3. sz[j] \in Nat /\ sz[j] # 0
      BY <1>1, <3>1
    <3>4. cn[j] = c => ~(sz[j] <= sh[j])
      BY <1>9, <3>1, <3>3
    <3> QED BY <1>1, <3>2, <3>4
  <2> QED BY <1>O, <1>9, <2>1 DEF OpenOrders
<1>t. T \subseteq O
  BY <1>2
<1>10. T \subseteq 1..n /\ IsFiniteSet(T) /\ Cardinality(T) \in Nat /\ Cardinality(T) <= r
  <2>1. T \subseteq 1..n
    BY <1>3, <1>t
  <2>2. Cardinality(T) \in 0..r /\ r \in Nat
    BY <1>1, <1>4
  <2>3. Cardinality(T) \in Nat /\ Cardinality(T) <= r
    BY <2>2
  <2> QED BY <1>4, <2>1, <2>3
<1> QED BY <1>4, <1>7, <1>8, <1>9, <1>10, <1>O DEF TurnServes

(***************************************************************************)
(* What a turn leaves: parts that are still handed out age by age or, when  *)
(* nothing is left to hand out, parts that end in zeros if in any.          *)
(***************************************************************************)
TurnLeaves(n, cn, sz, sh, c, r, T, nx) ==
    /\ nx \in [1..n -> Nat] /\ \A i \in 1..n : nx[i] <= sz[i]
    /\ SumFunction(nx) = SumFunction(sh) + Cardinality(T)
    /\ Cardinality(T) < r => AgeByAge(n, cn, nx, NextCounter(c, T))
    /\ \A i, j \in 1..n : i < j /\ nx[i] = 0 => nx[j] = 0 \/ Cardinality(T) < r

\* A turn leaves the parts handed out age by age.
LEMMA TurnKeepsAges ==
    ASSUME NEW n, NEW cn, NEW sz, NEW sh, NEW c, NEW r, NEW T, IsTurn(n, cn, sz, sh, c, r, T),
           AgeByAge(n, cn, sh, c)
    PROVE  TurnLeaves(n, cn, sz, sh, c, r, T, OneMore(1..n, sh, T))
<1>1. /\ n \in Nat /\ cn \in [1..n -> Nat] /\ sz \in [1..n -> Nat \ {0}] /\ sh \in [1..n -> Nat]
      /\ c \in Int /\ r \in Nat /\ r > 0
      /\ \A i, j \in 1..n : i < j => cn[i] >= cn[j]
      /\ \A i \in 1..n : sh[i] <= sz[i]
  BY DEF IsTurn
<1>O. PICK O : O = OpenOrders(n, cn, sz, sh, c)
  OBVIOUS
<1>2. /\ IsFiniteSet(T) /\ T \subseteq 1..n /\ Cardinality(T) \in Nat /\ Cardinality(T) <= r
      /\ \A i \in T : cn[i] = c /\ sh[i] < sz[i]
      /\ \A i \in T, j \in 1..n : j < i /\ cn[j] = c => j \in T
      /\ Cardinality(T) < r => T = O
      /\ (\A j \in 1..n : cn[j] = c => sh[j] = 0) => \A i \in 1..n : cn[i] = c => i \in O
  BY <1>O, TurnServesFirst DEF TurnServes
<1>x. PICK nx : nx = OneMore(1..n, sh, T)
  OBVIOUS
<1>3. \A i \in 1..n : nx[i] = IF i \in T THEN sh[i] + 1 ELSE sh[i]
  BY <1>x DEF OneMore
<1>4. nx \in [1..n -> Nat]
  <2>1. \A i \in 1..n : (IF i \in T THEN sh[i] + 1 ELSE sh[i]) \in Nat
    BY <1>1
  <2> QED BY <1>x, <2>1 DEF OneMore
<1>v. \A i \in 1..n : /\ cn[i] \in Nat /\ sz[i] \in Nat /\ sh[i] \in Nat /\ sh[i] <= sz[i]
                      /\ i \in T => nx[i] = sh[i] + 1 /\ cn[i] = c /\ sh[i] < sz[i]
                      /\ i \notin T => nx[i] = sh[i]
  BY <1>1, <1>2, <1>3
<1>n. c \in Int
  BY <1>1
<1>5. \A i \in 1..n : nx[i] <= sz[i]
  BY <1>v
<1>6. SumFunction(nx) = SumFunction(sh) + Cardinality(T)
  <2>1. IsFiniteSet(1..n) /\ sh \in [1..n -> Int] /\ T \in SUBSET (1..n)
    <3>1. IsFiniteSet(1..n)
      BY <1>1, FS_Interval
    <3>2. sh \in [1..n -> Int]
      BY <1>1
    <3> QED BY <1>2, <3>1, <3>2
  <2> QED BY <1>x, <2>1, SumOneMore
<1>7. \A i \in 1..n : (cn[i] > c => sh[i] > 0) /\ (cn[i] < c => sh[i] = 0)
  BY DEF AgeByAge
<1>8. ASSUME NEW i \in 1..n, NEW j \in 1..n, i < j, nx[i] = 0 PROVE nx[j] = 0
  <2>1. sh[i] = 0 /\ i \notin T /\ cn[i] <= c /\ cn[j] <= cn[i] /\ cn[i] \in Nat /\ cn[j] \in Nat
    <3>1. i \notin T /\ sh[i] = 0
      BY <1>v, <1>8
    <3>2. cn[j] <= cn[i]
      BY <1>1, <1>v, <1>8
    <3>3. cn[i] \in Nat /\ cn[j] \in Nat
      BY <1>1
    <3>4. cn[i] <= c
      BY <1>n, <1>v, <1>7, <3>1, <3>3
    <3> QED BY <3>1, <3>2, <3>3, <3>4
  <2>2. CASE cn[j] < c
    BY <1>n, <1>v, <1>7, <2>2
  <2>3. CASE cn[j] = c
    <3>1. cn[i] = c
      BY <1>1, <2>1, <2>3
    <3>2. j \notin T
      BY <1>2, <1>8, <2>1, <3>1
    <3>3. sh[j] = 0
      BY <1>1, <2>1, <2>3, <3>1 DEF AgeByAge
    <3> QED BY <1>3, <3>2, <3>3
  <2> QED BY SMTT(60), <1>1, <2>1, <2>2, <2>3
<1>9. ASSUME Cardinality(T) < r PROVE AgeByAge(n, cn, nx, NextCounter(c, T))
  <2>0. T = O
    BY <1>2, <1>9
  <2>1. CASE T # {}
    <3>1. NextCounter(c, T) = c
      BY <2>1 DEF NextCounter
    <3>2. \A i \in 1..n : (cn[i] > c => nx[i] > 0) /\ (cn[i] < c => nx[i] = 0)
      BY <1>n, <1>v, <1>7
    <3>3. CASE \A i \in 1..n : cn[i] = c => sh[i] = 0
      <4>1. \A i \in 1..n : cn[i] = c => nx[i] > 0
        BY <1>v, <1>2, <2>0, <3>3
      <4> QED BY <3>1, <3>2, <4>1 DEF AgeByAge
    <3>4. CASE \A i \in 1..n : cn[i] = c => sh[i] > 0
      <4>1. \A i \in 1..n : cn[i] = c => nx[i] > 0
        BY <1>v, <3>4
      <4> QED BY <3>1, <3>2, <4>1 DEF AgeByAge
    <3> QED BY <3>3, <3>4 DEF AgeByAge
  <2>2. CASE T = {} /\ c >= 0
    <3>1. NextCounter(c, T) = c - 1
      BY <2>2 DEF NextCounter
    <3>2. \A i \in 1..n : nx[i] = sh[i] /\ cn[i] \in Nat
      BY <1>1, <1>3, <2>2
    <3>3. \A i \in 1..n : cn[i] = c => sh[i] > 0
      <4>1. CASE \A i \in 1..n : cn[i] = c => sh[i] = 0
        BY <1>2, <2>0, <2>2, <4>1
      <4>2. CASE \A i \in 1..n : cn[i] = c => sh[i] > 0
        BY <4>2
      <4> QED BY <4>1, <4>2 DEF AgeByAge
    <3>4. \A i \in 1..n : (cn[i] > c - 1 => nx[i] > 0) /\ (cn[i] < c - 1 => nx[i] = 0)
      BY SMTT(60), <1>1, <1>7, <3>2, <3>3
    <3>5. \A i \in 1..n : cn[i] = c - 1 => nx[i] = 0
      BY <1>1, <1>7, <3>2
    <3> QED BY <3>1, <3>4, <3>5 DEF AgeByAge
  <2>3. CASE T = {} /\ ~(c >= 0)
    <3>1. NextCounter(c, T) = c
      BY <2>3 DEF NextCounter
    <3>2. \A i \in 1..n : nx[i] = sh[i]
      BY <1>3, <2>3
    <3> QED BY <3>1, <3>2 DEF AgeByAge
  <2> QED BY <2>1, <2>2, <2>3
<1> QED BY <1>4, <1>5, <1>6, <1>8, <1>9, <1>x DEF TurnLeaves

(***************************************************************************)
(* A turn hands out evenly, if larger orders stand in front.                *)
(***************************************************************************)
FairParts(n, cn, sz, nx) ==
    \A i, j \in 1..n : nx[i] # sz[i] =>
        /\ cn[i] > cn[j] => nx[j] = 0
        /\ cn[i] = cn[j] => nx[j] <= nx[i] + 1

\* A turn hands the orders of an age at most one share more than their neighbours.
LEMMA TurnKeepsEven ==
    ASSUME NEW n, NEW cn, NEW sz, NEW sh, NEW c, NEW r, NEW T, IsTurn(n, cn, sz, sh, c, r, T),
           AgeByAge(n, cn, sh, c), LargestFirst(n, cn, sz), NEW m \in Nat, EvenAt(n, cn, sz, sh, c, m),
           NEW nx, nx = OneMore(1..n, sh, T)
    PROVE  /\ Cardinality(T) < r => \E k \in Nat : EvenAt(n, cn, sz, nx, NextCounter(c, T), k)
           /\ FairParts(n, cn, sz, nx)
<1>1. /\ n \in Nat /\ cn \in [1..n -> Nat] /\ sz \in [1..n -> Nat \ {0}] /\ sh \in [1..n -> Nat]
      /\ c \in Int /\ r \in Nat /\ r > 0
      /\ \A i, j \in 1..n : i < j => cn[i] >= cn[j]
      /\ \A i \in 1..n : sh[i] <= sz[i]
  BY DEF IsTurn
<1>O. PICK O : O = OpenOrders(n, cn, sz, sh, c)
  OBVIOUS
<1>2. /\ T \subseteq 1..n
      /\ \A i \in T : cn[i] = c /\ sh[i] < sz[i]
      /\ Cardinality(T) < r => T = O
  BY <1>O, TurnServesFirst DEF TurnServes
<1>3. \A i \in 1..n : nx[i] = IF i \in T THEN sh[i] + 1 ELSE sh[i]
  BY DEF OneMore
<1>4. \A i \in 1..n : (cn[i] > c => sh[i] = sz[i]) /\ (cn[i] < c => sh[i] = 0)
  BY DEF EvenAt, AgeByAge
<1>5. \A i \in 1..n : cn[i] = c => /\ sz[i] <= m => sh[i] = sz[i]
                                   /\ sz[i] > m => sh[i] = m
  BY <1>1 DEF EvenAt, Least
<1>6. ASSUME NEW i \in 1..n, cn[i] = c, sz[i] > m PROVE i \in O
  <2>1. ASSUME NEW j \in 1..i PROVE ~(cn[j] = c /\ sz[j] <= sh[j]) /\ ~(cn[j] < c)
    <3>1. j \in 1..n /\ (j = i \/ j < i)
      BY <1>1
    <3>2. cn[j] \in Nat /\ cn[j] >= c
      BY <1>1, <1>6, <3>1
    <3>3. cn[j] = c => sz[j] >= sz[i]
      BY <1>1, <1>6, <3>1 DEF LargestFirst
    <3>4. sz[i] \in Nat /\ sz[j] \in Nat
      BY <1>1, <3>1
    <3>5. cn[j] = c => ~(sz[j] <= sh[j])
      <4> SUFFICES ASSUME cn[j] = c PROVE ~(sz[j] <= sh[j])
        OBVIOUS
      <4>1. sz[j] > m
        BY <1>6, <3>3, <3>4
      <4>2. sh[j] = m
        BY <1>5, <3>1, <4>1
      <4> QED BY <3>4, <4>1, <4>2
    <3> QED BY <1>1, <3>2, <3>5
  <2> QED BY <1>O, <1>6, <2>1 DEF OpenOrders
<1>7. ASSUME Cardinality(T) < r PROVE \E k \in Nat : EvenAt(n, cn, sz, nx, NextCounter(c, T), k)
  <2>0. T = O
    BY <1>2, <1>7
  <2>1. CASE T # {}
    <3>1. NextCounter(c, T) = c
      BY <2>1 DEF NextCounter
    <3>2. ASSUME NEW i \in 1..n, cn[i] > c PROVE nx[i] = sz[i]
      <4>1. i \notin T
        BY <1>1, <1>2, <3>2
      <4> QED BY <1>3, <1>4, <3>2, <4>1
    <3>3. ASSUME NEW i \in 1..n, cn[i] = c PROVE nx[i] = Least(sz[i], m + 1)
      <4>1. sz[i] \in Nat /\ sh[i] \in Nat
        BY <1>1
      <4>2. CASE sz[i] <= m
        <5>1. sh[i] = sz[i]
          BY <1>5, <3>3, <4>2
        <5>2. i \notin T
          BY <1>2, <4>1, <5>1
        <5>3. nx[i] = sz[i]
          BY <1>3, <5>1, <5>2
        <5> QED BY <4>1, <4>2, <5>3 DEF Least
      <4>3. CASE sz[i] > m
        <5>1. sh[i] = m /\ i \in T
          BY <1>5, <1>6, <2>0, <3>3, <4>3
        <5>2. nx[i] = m + 1
          BY <1>3, <5>1
        <5> QED BY <4>1, <4>3, <5>2 DEF Least
      <4> QED BY <4>1, <4>2, <4>3
    <3>4. EvenAt(n, cn, sz, nx, c, m + 1) /\ m + 1 \in Nat
      BY <3>2, <3>3 DEF EvenAt
    <3> QED BY <3>1, <3>4
  <2>2. CASE T = {} /\ c >= 0
    <3>1. NextCounter(c, T) = c - 1
      BY <2>2 DEF NextCounter
    <3>2. \A i \in 1..n : nx[i] = sh[i] /\ cn[i] \in Nat /\ sz[i] \in Nat
      BY <1>1, <1>3, <2>2
    <3>3. ASSUME NEW i \in 1..n, cn[i] > c - 1 PROVE nx[i] = sz[i]
      <4>1. cn[i] > c \/ cn[i] = c
        BY <1>1, <3>2, <3>3
      <4>2. cn[i] = c => ~(sz[i] > m)
        BY <1>6, <2>0, <2>2
      <4>3. cn[i] = c => sz[i] <= m
        BY <3>2, <4>2
      <4> QED BY <1>4, <1>5, <3>2, <4>1, <4>3
    <3>4. ASSUME NEW i \in 1..n, cn[i] = c - 1 PROVE nx[i] = Least(sz[i], 0)
      <4>1. nx[i] = 0
        BY <1>1, <1>4, <3>2, <3>4
      <4>2. sz[i] \in Nat
        BY <3>2
      <4> QED BY <4>1, <4>2 DEF Least
    <3>5. EvenAt(n, cn, sz, nx, c - 1, 0)
      BY <3>3, <3>4 DEF EvenAt
    <3> QED BY <3>1, <3>5
  <2>3. CASE T = {} /\ ~(c >= 0)
    <3>1. NextCounter(c, T) = c
      BY <2>3 DEF NextCounter
    <3>2. \A i \in 1..n : nx[i] = sh[i]
      BY <1>3, <2>3
    <3>3. EvenAt(n, cn, sz, nx, c, m)
      BY <3>2 DEF EvenAt
    <3> QED BY <3>1, <3>3
  <2> QED BY <2>1, <2>2, <2>3
<1>8. ASSUME NEW i \in 1..n, NEW j \in 1..n, nx[i] # sz[i]
      PROVE  /\ cn[i] > cn[j] => nx[j] = 0
             /\ cn[i] = cn[j] => nx[j] <= nx[i] + 1
  <2>1. /\ cn[i] \in Nat /\ cn[j] \in Nat /\ sz[i] \in Nat /\ sz[j] \in Nat
        /\ sh[i] \in Nat /\ sh[j] \in Nat /\ sh[i] <= sz[i]
    BY <1>1
  <2>2. cn[i] <= c
    <3> SUFFICES ASSUME cn[i] > c PROVE FALSE
      BY <1>1, <2>1
    <3>1. i \notin T
      BY <1>1, <1>2
    <3> QED BY <1>3, <1>4, <1>8, <3>1
  <2>3. cn[j] < c => nx[j] = 0
    <3> SUFFICES ASSUME cn[j] < c PROVE nx[j] = 0
      OBVIOUS
    <3>1. j \notin T
      BY <1>1, <1>2
    <3> QED BY <1>3, <1>4, <3>1
  <2>4. nx[i] \in Nat /\ sh[i] <= nx[i]
    BY <1>3, <2>1
  <2>5. ASSUME cn[i] = cn[j], cn[j] = c PROVE nx[j] <= nx[i] + 1
    <3>1. sz[i] > m
      <4> SUFFICES ASSUME sz[i] <= m PROVE FALSE
        BY <2>1
      <4>1. sh[i] = sz[i]
        BY <1>5, <2>5
      <4>2. i \notin T
        BY <1>2, <2>1, <4>1
      <4> QED BY <1>3, <1>8, <4>1, <4>2
    <3>2. sh[i] = m
      BY <1>5, <2>5, <3>1
    <3>3. sh[j] <= m
      BY <1>5, <2>1, <2>5
    <3>4. nx[j] <= sh[j] + 1
      BY <1>3, <2>1
    <3>5. nx[j] \in Nat
      BY <1>3, <2>1
    <3> QED BY <2>1, <2>4, <3>2, <3>3, <3>4, <3>5
  <2>6. cn[j] < c => nx[j] <= nx[i] + 1
    BY <2>3, <2>4
  <2> QED BY SMTT(60), <1>1, <2>1, <2>2, <2>3, <2>5, <2>6
<1> QED BY <1>7, <1>8 DEF FairParts

--------------------------------------------------------------------------------
(* The division that the market is in, as numbers. *)

AgesInTurn(os, ids) == [i \in DOMAIN ids |-> os[ids[i]].counter]

InDivision(s, ids, n, T) ==
    /\ s = division.side /\ s \in Sides /\ book[s] # <<>>
    /\ ids = book[s][1].ids /\ n = Len(ids) /\ n = Len(shares[s])
    /\ n \in Nat /\ DOMAIN ids = 1..n /\ DOMAIN shares[s] = 1..n /\ shares[s] # <<>>
    /\ pos[s] = 1 /\ T = Served(s)
    /\ IsTurn(n, AgesInTurn(orders, ids), SizesInTurn(orders, ids), shares[s],
              division.counter, division.rest, T)
    /\ AgeByAge(n, AgesInTurn(orders, ids), shares[s], division.counter)
    /\ SumFunction(shares[s]) + division.rest = total

(***************************************************************************)
(* In the course of a division, its numbers are as the turns need them.     *)
(***************************************************************************)
LEMMA TurnOfDivision ==
    ASSUME Inv, phase = "divide", NEW s, s = division.side, NEW ids, ids = First(s).ids,
           NEW n, n = Len(ids), NEW T, T = Served(s)
    PROVE  InDivision(s, ids, n, T)
<1>1. /\ s \in Sides /\ shares[s] # <<>> /\ shares[s] \in Seq(Nat) /\ total \in Nat
      /\ division.rest \in Nat /\ division.counter \in Int
  <2>1. division \in [side: Sides, rest: Nat, counter: Int] /\ total \in Nat
    BY DEF Inv, Basis, AuctionTypes
  <2>2. PICK d : d = division
    OBVIOUS
  <2>3. d.side \in Sides /\ d.rest \in Nat /\ d.counter \in Int
    BY <2>1, <2>2
  <2>4. shares[s] # <<>>
    BY DEF Inv, Basis, DividedSide
  <2>5. shares[s] \in Seq(Nat)
    BY <2>2, <2>3 DEF Inv, Basis, AuctionTypes
  <2> QED BY <2>1, <2>2, <2>3, <2>4, <2>5
<1>2. /\ book[s] # <<>> /\ Fits(orders, book[s][1].ids, pos[s], shares[s])
      /\ BeingDivided(orders, book[s][1].ids, pos[s], shares[s], division, total)
  BY SMTT(60), <1>1 DEF Inv, Parts, Trading, IsDivided
<1>3. ids = book[s][1].ids
  BY DEF First
<1>4. pos[s] = 1 /\ division.rest > 0 /\ SumFunction(shares[s]) + division.rest = total
  BY Zenon, <1>2 DEF BeingDivided
<1>5. /\ orders \in Seq(OrderRec) /\ book[s] \in Seq(LevelRec)
      /\ \A lv \in Range(book[s]) : ExactLevel(orders, s, lv) /\ Aged(orders, lv.ids)
  BY <1>1 DEF Inv, Basis, BookInv, Known, Standing, ExactSide
<1>6. 1 \in DOMAIN book[s]
  <2>1. DOMAIN book[s] = 1..Len(book[s]) /\ Len(book[s]) \in Nat /\ Len(book[s]) # 0
    BY <1>2, <1>5, LenProperties, EmptySeq
  <2>2. 1 \in 1..Len(book[s])
    BY <2>1
  <2> QED BY <2>1, <2>2
<1>l. PICK lv : lv = book[s][1]
  OBVIOUS
<1>7. lv \in Range(book[s]) /\ lv \in LevelRec /\ lv.ids = ids
  BY <1>3, <1>5, <1>6, <1>l, LenProperties, ElementOfSeq DEF Range
<1>8. ids \in Seq(Nat) /\ ExactLevel(orders, s, lv) /\ Aged(orders, ids)
  BY <1>5, <1>7 DEF LevelRec
<1>9. \A i \in DOMAIN ids : /\ ids[i] \in DOMAIN orders /\ orders[ids[i]].size > 0
                            /\ orders[ids[i]].size \in Nat /\ orders[ids[i]].counter \in Nat
  <2>1. \A i \in DOMAIN ids : ids[i] \in DOMAIN orders /\ orders[ids[i]].size > 0
    BY <1>7, <1>8 DEF ExactLevel, Belongs, Range
  <2>2. \A i \in DOMAIN ids : orders[ids[i]] \in OrderRec
    BY <1>5, <2>1, LenProperties, ElementOfSeq
  <2> QED BY <2>1, <2>2 DEF OrderRec
<1>10. n \in Nat /\ DOMAIN ids = 1..n
  BY <1>8, LenProperties
<1>h. PICK sh : sh = shares[s]
  OBVIOUS
<1>11. n = Len(sh) /\ DOMAIN sh = 1..n /\ sh \in [1..n -> Nat]
  <2>1. Len(ids) = 1 - 1 + Len(sh)
    BY <1>2, <1>3, <1>4, <1>h DEF Fits
  <2>2. sh \in Seq(Nat) /\ Len(sh) \in Nat /\ DOMAIN sh = 1..Len(sh) /\ sh \in [1..Len(sh) -> Nat]
    BY <1>1, <1>h, LenProperties
  <2>3. n = Len(sh)
    BY <1>10, <2>1, <2>2
  <2> QED BY <2>2, <2>3
<1>12. \A i \in 1..n : sh[i] <= orders[ids[i]].size
  <2> SUFFICES ASSUME NEW i \in 1..n PROVE sh[i] <= orders[ids[i]].size
    OBVIOUS
  <2>1. i \in DOMAIN sh /\ 1 - 1 + i = i
    BY <1>10, <1>11
  <2>2. sh[i] <= orders[ids[1 - 1 + i]].size
    BY <1>2, <1>3, <1>4, <1>h, <2>1 DEF Fits
  <2> QED BY <2>1, <2>2
<1>c. PICK cn : cn = AgesInTurn(orders, ids)
  OBVIOUS
<1>z. PICK sz : sz = SizesInTurn(orders, ids)
  OBVIOUS
<1>13. /\ cn \in [1..n -> Nat] /\ \A i \in 1..n : cn[i] = orders[ids[i]].counter
       /\ sz \in [1..n -> Nat \ {0}] /\ \A i \in 1..n : sz[i] = orders[ids[i]].size
  <2>1. \A i \in 1..n : orders[ids[i]].counter \in Nat /\ orders[ids[i]].size \in Nat \ {0}
    BY <1>9, <1>10
  <2>2. cn = [i \in 1..n |-> orders[ids[i]].counter] /\ sz = [i \in 1..n |-> orders[ids[i]].size]
    BY <1>10, <1>c, <1>z DEF AgesInTurn, SizesInTurn
  <2> QED BY <2>1, <2>2
<1>14. /\ \A i, j \in 1..n : i < j => cn[i] >= cn[j]
       /\ \A i \in 1..n : sh[i] <= sz[i]
  <2>1. \A i, j \in 1..n : i < j => orders[ids[i]].counter >= orders[ids[j]].counter
    BY <1>8, <1>10 DEF Aged
  <2>2. \A i \in 1..n : cn[i] = orders[ids[i]].counter /\ sz[i] = orders[ids[i]].size
    BY <1>13
  <2>3. \A i, j \in 1..n : i < j => cn[i] >= cn[j]
    BY <2>1, <2>2
  <2> QED BY <1>12, <2>2, <2>3
<1>k. PICK c : c = division.counter
  OBVIOUS
<1>r. PICK r : r = division.rest
  OBVIOUS
<1>15. T = {i \in OpenOrders(n, cn, sz, sh, c) :
               Cardinality({j \in OpenOrders(n, cn, sz, sh, c) : j < i}) < r}
  <2>O. PICK O : O = OpenOrders(n, cn, sz, sh, c)
    OBVIOUS
  <2> DEFINE reached == {i \in DOMAIN shares[s] : \A j \in 1..i : ~StopsTurn(s, j)}
             open == {i \in reached : OrderAt(s, i).counter = division.counter}
  <2>1. \A i \in 1..n : OrderAt(s, i).counter = cn[i] /\ OrderAt(s, i).size = sz[i]
    BY <1>13 DEF OrderAt
  <2>2. \A i \in 1..n : StopsTurn(s, i) <=> (cn[i] = c /\ sz[i] <= sh[i]) \/ cn[i] < c
    BY <1>h, <1>k, <2>1 DEF StopsTurn
  <2>3. \A i \in 1..n : \A j \in 1..i : j \in 1..n
    BY <1>10
  <2>4. \A i \in open : i \in O
    BY <1>11, <1>h, <1>k, <2>O, <2>1, <2>2, <2>3 DEF OpenOrders
  <2>5. \A i \in O : i \in open
    BY <1>11, <1>h, <1>k, <2>O, <2>1, <2>2, <2>3 DEF OpenOrders
  <2>6. open = O
    BY <2>4, <2>5
  <2>7. T = {i \in open : Cardinality({j \in open : j < i}) < division.rest}
    BY DEF Served
  <2> HIDE DEF open
  <2> QED BY <1>r, <2>6, <2>7, <2>O
<1>16. IsTurn(n, cn, sz, sh, c, r, T)
  <2>1. c \in Int /\ r \in Nat /\ r > 0
    BY <1>1, <1>4, <1>k, <1>r
  <2> QED BY <1>10, <1>11, <1>13, <1>14, <1>15, <2>1 DEF IsTurn
<1>17. AgeByAge(n, cn, sh, c)
  <2>1. /\ \A i \in DOMAIN sh : /\ orders[ids[i]].counter > c => sh[i] > 0
                                /\ orders[ids[i]].counter < c => sh[i] = 0
        /\ \/ \A i \in DOMAIN sh : orders[ids[i]].counter = c => sh[i] = 0
           \/ \A i \in DOMAIN sh : orders[ids[i]].counter = c => sh[i] > 0
    BY ZenonT(60), <1>2, <1>3, <1>h, <1>k DEF BeingDivided
  <2> QED BY Zenon, <1>11, <1>13, <2>1 DEF AgeByAge
<1>18. s = division.side /\ T = Served(s)
  OBVIOUS
<1>19. IsTurn(n, AgesInTurn(orders, ids), SizesInTurn(orders, ids), shares[s],
              division.counter, division.rest, T)
  BY <1>16, <1>c, <1>z, <1>h, <1>k, <1>r
<1>20. AgeByAge(n, AgesInTurn(orders, ids), shares[s], division.counter)
  BY <1>17, <1>c, <1>h, <1>k
<1> QED BY <1>1, <1>2, <1>3, <1>4, <1>10, <1>11, <1>18, <1>19, <1>20, <1>h DEF InDivision

\* A turn of the division as numbers: the parts before and after it.
ATurn(s, ids, n, cn, sz, sh, d, T, nx, e) ==
    /\ s \in Sides /\ book[s] # <<>> /\ ids = book[s][1].ids /\ pos[s] = 1
    /\ n \in Nat /\ n = Len(ids) /\ n # 0 /\ DOMAIN ids = 1..n /\ d = division /\ d.side = s
    /\ cn = AgesInTurn(orders, ids) /\ sz = SizesInTurn(orders, ids) /\ sh = shares[s]
    /\ DOMAIN sh = 1..n /\ d.rest \in Nat /\ d.rest > 0 /\ d.counter \in Int
    /\ IsTurn(n, cn, sz, sh, d.counter, d.rest, T) /\ AgeByAge(n, cn, sh, d.counter)
    /\ T \subseteq 1..n /\ Cardinality(T) \in Nat /\ Cardinality(T) <= d.rest
    /\ SumFunction(sh) \in Nat /\ SumFunction(sh) + d.rest = total
    /\ nx = OneMore(1..n, sh, T) /\ shares' = [shares EXCEPT ![s] = nx]
    /\ division' = e /\ e = [side |-> s, rest |-> d.rest - Cardinality(T), counter |-> NextCounter(d.counter, T)]
    /\ phase' = IF e.rest = 0 THEN "share" ELSE "divide"

\* A DivideTurn of the market is such a turn.
LEMMA TurnIsOne ==
    ASSUME Inv, DivideTurn, NEW s, s = division.side, NEW ids, ids = First(s).ids,
           NEW n, n = Len(ids), NEW T, T = Served(s), NEW d, d = division
    PROVE  ATurn(s, ids, n, AgesInTurn(orders, ids), SizesInTurn(orders, ids), shares[s], d, T,
                 OneMore(1..n, shares[s], T),
                 [side |-> s, rest |-> d.rest - Cardinality(T), counter |-> NextCounter(d.counter, T)])
<1>1. phase = "divide"
  BY DEF DivideTurn
<1>2. InDivision(s, ids, n, T)
  BY <1>1, TurnOfDivision
<1>c. PICK cn : cn = AgesInTurn(orders, ids)
  OBVIOUS
<1>z. PICK sz : sz = SizesInTurn(orders, ids)
  OBVIOUS
<1>h. PICK sh : sh = shares[s]
  OBVIOUS
<1>x. PICK nx : nx = OneMore(1..n, sh, T)
  OBVIOUS
<1>e. PICK e : e = [side |-> s, rest |-> d.rest - Cardinality(T), counter |-> NextCounter(d.counter, T)]
  OBVIOUS
<1>3. /\ s \in Sides /\ book[s] # <<>> /\ ids = book[s][1].ids /\ pos[s] = 1
      /\ n \in Nat /\ DOMAIN ids = 1..n /\ d.side = s /\ DOMAIN sh = 1..n /\ sh # <<>> /\ n = Len(sh)
      /\ IsTurn(n, cn, sz, sh, d.counter, d.rest, T) /\ AgeByAge(n, cn, sh, d.counter)
      /\ SumFunction(sh) + d.rest = total
  BY <1>2, <1>c, <1>z, <1>h DEF InDivision
<1>4. T \subseteq 1..n /\ Cardinality(T) \in Nat /\ Cardinality(T) <= d.rest
  <2>1. TurnServes(n, cn, sz, sh, d.counter, d.rest, T)
    BY SMTT(60), <1>3, TurnServesFirst
  <2> QED BY <2>1 DEF TurnServes
<1>5. d.rest \in Nat /\ d.rest > 0 /\ d.counter \in Int
  BY <1>3 DEF IsTurn
<1>6. sh \in Seq(Nat) /\ DOMAIN shares = Sides
  BY <1>3, <1>h DEF Inv, Basis, AuctionTypes
<1>7. SumFunction(sh) \in Nat
  BY <1>6, SumOfParts
<1>8. n # 0
  BY <1>3, <1>6, EmptySeq
<1>9. nx = [i \in DOMAIN sh |-> IF i \in T THEN sh[i] + 1 ELSE sh[i]]
  BY <1>3, <1>x DEF OneMore
<1>10. shares' = [shares EXCEPT ![s] = nx]
  <2>1. shares' = [shares EXCEPT ![s] = [i \in DOMAIN @ |-> IF i \in Served(s) THEN @[i] + 1 ELSE @[i]]]
    BY DEF DivideTurn
  <2>2. shares' = [shares EXCEPT ![s] = [i \in DOMAIN sh |-> IF i \in T THEN sh[i] + 1 ELSE sh[i]]]
    BY <1>3, <1>6, <1>h, <2>1
  <2> QED BY <1>9, <2>2
<1>11. division' = e /\ phase' = IF e.rest = 0 THEN "share" ELSE "divide"
  <2>1. division' = [d EXCEPT !.rest = d.rest - Cardinality(T),
                              !.counter = IF T = {} /\ d.counter >= 0 THEN d.counter - 1 ELSE d.counter]
    BY DEF DivideTurn
  <2>2. phase' = IF division'.rest = 0 THEN "share" ELSE "divide"
    BY DEF DivideTurn
  <2>3. d \in [side: Sides, rest: Nat, counter: Int]
    BY DEF Inv, Basis, AuctionTypes
  <2>4. division' = [side |-> s, rest |-> d.rest - Cardinality(T),
                     counter |-> IF T = {} /\ d.counter >= 0 THEN d.counter - 1 ELSE d.counter]
    BY <1>3, <2>1, <2>3
  <2>5. division' = e
    BY <1>e, <2>4 DEF NextCounter
  <2> QED BY <2>2, <2>5
<1>12. d = division /\ n = Len(ids)
  OBVIOUS
<1>13. ATurn(s, ids, n, cn, sz, sh, d, T, nx, e)
  BY <1>3, <1>4, <1>5, <1>7, <1>8, <1>10, <1>11, <1>12, <1>c, <1>z, <1>h, <1>x, <1>e DEF ATurn
<1> QED BY <1>13, <1>c, <1>z, <1>h, <1>x, <1>e

\* The orders of a level that is sorted by counter and size, as numbers.
LEMMA SortedInTurn ==
    ASSUME NEW s, NEW ids, ids = First(s).ids, NEW n, DOMAIN ids = 1..n, BySize(s)
    PROVE  LargestFirst(n, AgesInTurn(orders, ids), SizesInTurn(orders, ids))
<1>1. \A i \in 1..n : OrderAt(s, i) = orders[ids[i]]
  BY DEF OrderAt
<1>2. \A i \in 1..n : /\ AgesInTurn(orders, ids)[i] = orders[ids[i]].counter
                      /\ SizesInTurn(orders, ids)[i] = orders[ids[i]].size
  BY DEF AgesInTurn, SizesInTurn
<1>3. \A i, j \in 1..n : i < j /\ orders[ids[i]].counter = orders[ids[j]].counter
                            => orders[ids[i]].size >= orders[ids[j]].size
  BY <1>1 DEF BySize
<1> QED BY <1>2, <1>3 DEF LargestFirst

\* An even division, as numbers and of the orders themselves.
LEMMA EvenInTurn ==
    ASSUME NEW os, NEW ids, NEW n, DOMAIN ids = 1..n, NEW sh, DOMAIN sh = 1..n, NEW c
    PROVE  EvenlyDivided(os, ids, sh, c)
             <=> \E m \in Nat : EvenAt(n, AgesInTurn(os, ids), SizesInTurn(os, ids), sh, c, m)
<1>c. PICK cn : cn = AgesInTurn(os, ids)
  OBVIOUS
<1>z. PICK sz : sz = SizesInTurn(os, ids)
  OBVIOUS
<1>1. \A i \in 1..n : cn[i] = os[ids[i]].counter /\ sz[i] = os[ids[i]].size
  BY <1>c, <1>z DEF AgesInTurn, SizesInTurn
<1>2. ASSUME EvenlyDivided(os, ids, sh, c) PROVE \E m \in Nat : EvenAt(n, cn, sz, sh, c, m)
  <2>1. PICK m \in Nat : \A i \in DOMAIN sh : os[ids[i]].counter = c => sh[i] = Least(os[ids[i]].size, m)
    BY <1>2 DEF EvenlyDivided
  <2>2. \A i \in DOMAIN sh : os[ids[i]].counter > c => sh[i] = os[ids[i]].size
    BY <1>2 DEF EvenlyDivided
  <2>3. EvenAt(n, cn, sz, sh, c, m)
    BY <1>1, <2>1, <2>2 DEF EvenAt
  <2> QED BY <2>3
<1>3. ASSUME NEW m \in Nat, EvenAt(n, cn, sz, sh, c, m) PROVE EvenlyDivided(os, ids, sh, c)
  <2>1. \A i \in 1..n : /\ os[ids[i]].counter > c => sh[i] = os[ids[i]].size
                        /\ os[ids[i]].counter = c => sh[i] = Least(os[ids[i]].size, m)
    BY <1>1, <1>3 DEF EvenAt
  <2> QED BY <2>1 DEF EvenlyDivided
<1> QED BY <1>2, <1>3, <1>c, <1>z

\* A division as numbers and of the orders themselves.
LEMMA DividedInTurn ==
    ASSUME NEW os, NEW ids, NEW n \in Nat, DOMAIN ids = 1..n, Len(ids) = n,
           NEW nx \in [1..n -> Nat], NEW d, NEW q
    PROVE  /\ Len(nx) = n /\ nx \in Seq(Nat)
           /\ (\A i \in 1..n : nx[i] <= SizesInTurn(os, ids)[i]) => Fits(os, ids, 1, nx)
           /\ AgeByAge(n, AgesInTurn(os, ids), nx, d.counter) /\ d.rest > 0 /\ SumFunction(nx) + d.rest = q
                 => BeingDivided(os, ids, 1, nx, d, q)
<1>c. PICK cn : cn = AgesInTurn(os, ids)
  OBVIOUS
<1>z. PICK sz : sz = SizesInTurn(os, ids)
  OBVIOUS
<1>1. \A i \in 1..n : cn[i] = os[ids[i]].counter /\ sz[i] = os[ids[i]].size
  BY <1>c, <1>z DEF AgesInTurn, SizesInTurn
<1>2. nx \in Seq(Nat) /\ DOMAIN nx = 1..n
  OBVIOUS
<1>3. Len(nx) = n
  <2>1. DOMAIN nx = 1..Len(nx) /\ Len(nx) \in Nat
    BY <1>2, LenProperties
  <2>2. 1..n = 1..Len(nx)
    BY <1>2, <2>1
  <2> QED BY <2>1, <2>2, SameLength
<1>4. ASSUME \A i \in 1..n : nx[i] <= sz[i] PROVE Fits(os, ids, 1, nx)
  <2>1. \A k \in DOMAIN nx : nx[k] <= os[ids[1 - 1 + k]].size
    <3> SUFFICES ASSUME NEW k \in DOMAIN nx PROVE nx[k] <= os[ids[1 - 1 + k]].size
      OBVIOUS
    <3>1. k \in 1..n /\ 1 - 1 + k = k
      BY <1>2
    <3>2. nx[k] <= os[ids[k]].size
      BY <1>1, <1>4, <3>1
    <3> QED BY <3>1, <3>2
  <2>2. Len(ids) = 1 - 1 + Len(nx)
    BY <1>3
  <2> QED BY <2>1, <2>2 DEF Fits
<1>5. ASSUME AgeByAge(n, cn, nx, d.counter), d.rest > 0, SumFunction(nx) + d.rest = q
      PROVE  BeingDivided(os, ids, 1, nx, d, q)
  <2>k. PICK c : c = d.counter
    OBVIOUS
  <2>1. /\ \A i \in 1..n : (cn[i] > c => nx[i] > 0) /\ (cn[i] < c => nx[i] = 0)
        /\ \/ \A i \in 1..n : cn[i] = c => nx[i] = 0
           \/ \A i \in 1..n : cn[i] = c => nx[i] > 0
    BY <1>5, <2>k DEF AgeByAge
  <2>2. \A i \in DOMAIN nx : /\ os[ids[i]].counter > c => nx[i] > 0
                             /\ os[ids[i]].counter < c => nx[i] = 0
    BY <1>1, <1>2, <2>1
  <2>3. \/ \A i \in DOMAIN nx : os[ids[i]].counter = c => nx[i] = 0
        \/ \A i \in DOMAIN nx : os[ids[i]].counter = c => nx[i] > 0
    BY <1>1, <1>2, <2>1
  <2> QED BY <1>5, <2>2, <2>3, <2>k DEF BeingDivided
<1> QED BY <1>2, <1>3, <1>4, <1>5, <1>c, <1>z

(***************************************************************************)
(* A turn of the division keeps the invariant, whether it is the last or    *)
(* not.                                                                      *)
(***************************************************************************)
LEMMA DivideTurnInv == Inv /\ DivideTurn => Inv'
<1> SUFFICES ASSUME Inv, DivideTurn PROVE Inv'
  OBVIOUS
<1>s. PICK s : s = division.side
  OBVIOUS
<1>i. PICK ids : ids = First(s).ids
  OBVIOUS
<1>n. PICK n : n = Len(ids)
  OBVIOUS
<1>t. PICK T : T = Served(s)
  OBVIOUS
<1>c. PICK cn : cn = AgesInTurn(orders, ids)
  OBVIOUS
<1>z. PICK sz : sz = SizesInTurn(orders, ids)
  OBVIOUS
<1>h. PICK sh : sh = shares[s]
  OBVIOUS
<1>d. PICK d : d = division
  OBVIOUS
<1>x. PICK nx : nx = OneMore(1..n, sh, T)
  OBVIOUS
<1>e. PICK e : e = [side |-> s, rest |-> d.rest - Cardinality(T), counter |-> NextCounter(d.counter, T)]
  OBVIOUS
<1>1. phase = "divide"
  BY DEF DivideTurn
<1>2. /\ orders' = orders /\ book' = book /\ rows' = rows /\ total' = total
      /\ price' = price /\ pos' = pos /\ published' = published /\ ledger' = ledger /\ reports' = reports
      /\ cancels' = cancels /\ auctions' = auctions /\ lastPrice' = lastPrice
  BY DEF DivideTurn
<1>3. ATurn(s, ids, n, cn, sz, sh, d, T, nx, e)
  BY <1>s, <1>i, <1>n, <1>t, <1>c, <1>z, <1>h, <1>d, <1>x, <1>e, TurnIsOne
<1>4. /\ s \in Sides /\ book[s] # <<>> /\ ids = book[s][1].ids /\ pos[s] = 1
      /\ n \in Nat /\ n # 0 /\ DOMAIN ids = 1..n /\ d.side = s
      /\ DOMAIN sh = 1..n /\ d.rest \in Nat /\ d.rest > 0 /\ d.counter \in Int
      /\ IsTurn(n, cn, sz, sh, d.counter, d.rest, T) /\ AgeByAge(n, cn, sh, d.counter)
      /\ T \subseteq 1..n /\ Cardinality(T) \in Nat /\ Cardinality(T) <= d.rest
      /\ SumFunction(sh) \in Nat /\ SumFunction(sh) + d.rest = total
      /\ shares' = [shares EXCEPT ![s] = nx] /\ division' = e
      /\ phase' = IF e.rest = 0 THEN "share" ELSE "divide"
  BY <1>3 DEF ATurn
<1>5. e.side = s /\ e.rest = d.rest - Cardinality(T) /\ e.counter = NextCounter(d.counter, T)
  BY <1>e
<1>6. e.rest \in Nat /\ e.counter \in Int
  <2>1. e.rest \in Nat
    BY <1>4, <1>5
  <2>2. e.counter \in Int
    BY <1>4, <1>5 DEF NextCounter
  <2> QED BY <2>1, <2>2
<1>7. /\ nx \in [1..n -> Nat] /\ \A i \in 1..n : nx[i] <= sz[i]
      /\ SumFunction(nx) = SumFunction(sh) + Cardinality(T)
      /\ Cardinality(T) < d.rest => AgeByAge(n, cn, nx, e.counter)
      /\ \A i, j \in 1..n : i < j /\ nx[i] = 0 => nx[j] = 0 \/ Cardinality(T) < d.rest
  <2>1. TurnLeaves(n, cn, sz, sh, d.counter, d.rest, T, nx)
    BY <1>4, <1>x, TurnKeepsAges
  <2> QED BY <1>5, <2>1 DEF TurnLeaves
<1>8. /\ SumFunction(nx) + e.rest = total /\ (e.rest > 0 => Cardinality(T) < d.rest)
      /\ (e.rest = 0 => ~(Cardinality(T) < d.rest) /\ SumFunction(nx) = total)
  BY <1>4, <1>5, <1>6, <1>7
<1>9. nx \in Seq(Nat) /\ Len(nx) = n /\ DOMAIN nx = 1..n /\ Fits(orders, ids, 1, nx)
  BY <1>4, <1>7, <1>n, <1>z, DividedInTurn
<1>10. nx # <<>>
  BY <1>4, <1>9
<1>11. e.rest > 0 => BeingDivided(orders, ids, 1, nx, e, total)
  <2> SUFFICES ASSUME e.rest > 0 PROVE BeingDivided(orders, ids, 1, nx, e, total)
    OBVIOUS
  <2>1. AgeByAge(n, AgesInTurn(orders, ids), nx, e.counter)
    BY <1>7, <1>8, <1>c
  <2> QED BY <1>4, <1>7, <1>8, <1>n, <2>1, DividedInTurn
<1>12. e.rest = 0 => InTurn(nx, total)
  BY <1>7, <1>8, <1>9 DEF InTurn
<1>13. /\ DOMAIN shares' = Sides /\ shares'[s] = nx /\ \A u \in Sides : u # s => shares'[u] = shares[u]
       /\ \A u \in Sides : shares'[u] \in Seq(Nat)
  <2>1. DOMAIN shares = Sides /\ \A u \in Sides : shares[u] \in Seq(Nat)
    BY DEF Inv, Basis, AuctionTypes
  <2> QED BY <1>4, <1>9, <2>1
<1>14. BookInv /\ NoneEmpty /\ AuctionTypes
  BY DEF Inv, Basis
<1>15. \/ phase' = "divide" /\ e.rest > 0
       \/ phase' = "share" /\ e.rest = 0
  BY <1>4, <1>6
<1>16. Basis'
  <2>1. BookInv' /\ NoneEmpty'
    BY <1>1, <1>2, <1>14, <1>15 DEF BookInv, NoneEmpty
  <2>2. AuctionTypes'
    <3>1. division' \in [side: Sides, rest: Nat, counter: Int]
      <4>1. d.rest - Cardinality(T) \in Nat /\ NextCounter(d.counter, T) \in Int
        BY <1>5, <1>6
      <4> QED BY <1>4, <1>e, <4>1
    <3>2. phase' \in Phases /\ total' \in Nat /\ total' \in Int /\ total' >= -1
      BY <1>1, <1>2, <1>14, <1>15 DEF Phases, AuctionTypes
    <3> QED BY <1>2, <1>13, <1>14, <3>1, <3>2 DEF AuctionTypes
  <2>3. Quiet'
    BY <1>15 DEF Quiet, Trading
  <2>4. DividedSide'
    <3>1. s = "ask" => shares["bid"] # <<>>
      BY <1>1, <1>s DEF Inv, Basis, DividedSide
    <3>2. shares'[s] # <<>> /\ (s = "ask" => shares'["bid"] # <<>>)
      BY <1>10, <1>13, <3>1 DEF Sides
    <3> QED BY <1>4, <1>5, <3>2 DEF DividedSide
  <2> QED BY <2>1, <2>2, <2>3, <2>4 DEF Basis
<1>17. Parts'
  <2>1. ASSUME NEW u \in Sides
        PROVE  IF shares'[u] # <<>>
               THEN /\ book[u] # <<>>
                    /\ Fits(orders, book[u][1].ids, pos[u], shares'[u])
                    /\ IF phase' = "divide" /\ e.side = u
                       THEN BeingDivided(orders, book[u][1].ids, pos[u], shares'[u], e, total)
                       ELSE \/ /\ Whole(orders, book[u][1].ids, pos[u], shares'[u])
                               /\ SumFunction(shares'[u]) <= total
                            \/ InTurn(shares'[u], total)
               ELSE pos[u] = 1 \/ total = 0
    <3>2. CASE u = s
      <4>1. IF phase' = "divide" THEN BeingDivided(orders, ids, 1, nx, e, total) ELSE InTurn(nx, total)
        BY <1>11, <1>12, <1>15
      <4> QED BY <1>4, <1>5, <1>9, <1>10, <1>13, <3>2, <4>1
    <3>3. CASE u # s
      <4>1. shares'[u] = shares[u] /\ ~IsDivided(u) /\ e.side # u
        BY <1>5, <1>13, <1>s, <3>3 DEF IsDivided
      <4> QED BY <1>1, <4>1 DEF Inv, Parts, Trading
    <3> QED BY <3>2, <3>3
  <2>4. phase' # "match"
    BY <1>15
  <2> QED BY <1>2, <1>4, <2>1, <2>4 DEF Parts, IsDivided
<1>18. Enough'
  <2>1. PICK u \in Sides : Tight(u)
    BY <1>1 DEF Inv, Enough, Trading
  <2>2. u # s
    BY <1>1, <1>s, <2>1 DEF Tight, IsDivided
  <2>3. Tight(u)'
    <3>1. shares'[u] = shares[u]
      BY <1>13, <2>2
    <3>2. ~IsDivided(u)'
      BY <1>4, <1>5, <2>2 DEF IsDivided
    <3>3. total' = OfferedIn(u, book'[u], price')
      BY <1>2, <2>1 DEF Tight
    <3>4. shares'[u] = <<>> \/ Whole(orders', book'[u][1].ids, pos'[u], shares'[u])
      BY <1>2, <2>1, <3>1 DEF Tight
    <3> QED BY <3>2, <3>3, <3>4 DEF Tight
  <2>4. \A v \in Sides : total <= OfferedIn(v, book[v], price)
    BY <1>1 DEF Inv, Enough, Trading
  <2> QED BY <1>2, <2>3, <2>4 DEF Enough
<1>19. Most' /\ Reported'
  BY <1>1, <1>2, <1>15 DEF Inv, Most, Reported, Announced, Trading
<1>20. LedgerInv' /\ PublishedKnown' /\ MarketsHidden'
  BY <1>2 DEF Inv, LedgerInv, PublishedKnown, MarketsHidden
<1>21. PriceSoFar' /\ Uncrossed'
  BY <1>15 DEF PriceSoFar, Uncrossed
<1>22. Even'
  <2> SUFFICES ASSUME phase' = "divide", BySize(s)
               PROVE  EvenlyDivided(orders, ids, nx, e.counter)
    <3>1. phase' = "divide" /\ BySize(e.side)' => phase' = "divide" /\ BySize(s)
      BY <1>2, <1>5 DEF BySize, OrderAt, First
    <3>2. book'[e.side][1].ids = ids /\ shares'[e.side] = nx
      BY <1>2, <1>4, <1>5, <1>13
    <3> QED BY <1>2, <1>4, <3>1, <3>2 DEF Even
  <2>1. Cardinality(T) < d.rest
    BY <1>8, <1>15
  <2>2. EvenlyDivided(orders, ids, sh, d.counter)
    BY <1>1, <1>4, <1>s, <1>d, <1>h DEF Inv, Even
  <2>3. PICK m \in Nat : EvenAt(n, cn, sz, sh, d.counter, m)
    BY <1>4, <1>c, <1>z, <2>2, EvenInTurn
  <2>4. LargestFirst(n, cn, sz)
    BY <1>4, <1>c, <1>z, <1>i, SortedInTurn
  <2>5. \E k \in Nat : EvenAt(n, cn, sz, nx, NextCounter(d.counter, T), k)
    BY <1>4, <1>x, <2>1, <2>3, <2>4, TurnKeepsEven
  <2>6. \E k \in Nat : EvenAt(n, cn, sz, nx, e.counter, k)
    BY <1>5, <2>5
  <2> QED BY <1>4, <1>9, <1>c, <1>z, <2>6, EvenInTurn
<1> QED BY <1>16, <1>17, <1>18, <1>19, <1>20, <1>21, <1>22 DEF Inv

--------------------------------------------------------------------------------
(* The invariant. *)

(***************************************************************************)
(* It holds before the first order.                                         *)
(***************************************************************************)
LEMMA InitInv == Init => Inv
<1> SUFFICES ASSUME Init PROVE Inv
  OBVIOUS
<1>1. /\ orders = <<>> /\ book = [s \in Sides |-> <<>>] /\ lastPrice = 0 /\ phase = "idle" /\ rows = {}
      /\ total = 0 /\ price = 0 /\ shares = [s \in Sides |-> <<>>] /\ pos = [s \in Sides |-> 1]
      /\ division = [side |-> "bid", rest |-> 0, counter |-> 0] /\ reports = <<>>
      /\ published = [s \in Sides |-> {}] /\ ledger = <<>> /\ cancels = 0 /\ auctions = 0
  BY DEF Init
<1>e. PICK none : none = <<>>
  OBVIOUS
<1>2. /\ \A S : none \in Seq(S)
      /\ Len(none) = 0 /\ DOMAIN none = {} /\ Range(none) = {}
  <2>1. \A S : <<>> \in Seq(S)
    BY EmptySeq
  <2>2. Len(<<>>) = 0 /\ DOMAIN <<>> = {}
    BY EmptySeq
  <2> QED BY <1>e, <2>1, <2>2 DEF Range
<1>3. BookInv
  <2>1. Known(none)
    BY <1>2 DEF Known
  <2>2. \A s \in Sides : Standing(none, s, none)
    BY <1>2 DEF Standing, ExactSide, Ordered, Covered
  <2> QED BY <1>1, <1>e, <2>1, <2>2 DEF BookInv
<1>4. NoneEmpty
  BY <1>1, <1>2, <1>e DEF NoneEmpty
<1>5. AuctionTypes
  <2>1. division \in [side: Sides, rest: Nat, counter: Int]
    BY <1>1 DEF Sides
  <2>2. phase \in Phases /\ lastPrice \in Nat /\ rows \in SUBSET Nat /\ total \in Nat /\ price \in Nat
    BY <1>1 DEF Phases
  <2>3. DOMAIN shares = Sides /\ DOMAIN pos = Sides /\ \A s \in Sides : pos[s] \in Nat \ {0}
    BY <1>1
  <2>4. \A s \in Sides : shares[s] \in Seq(Nat)
    BY <1>1, <1>2, <1>e
  <2>5. reports \in Seq([decision: {"2", "5"}, price: Nat, size: Nat, bid: Nat, ask: Nat])
    BY <1>1, <1>2, <1>e
  <2>6. cancels \in Nat /\ auctions \in Nat /\ total \in Int /\ total >= -1
    BY <1>1
  <2> QED BY <2>1, <2>2, <2>3, <2>4, <2>5, <2>6 DEF AuctionTypes
<1>6. Basis
  BY <1>1, <1>3, <1>4, <1>5 DEF Basis, Quiet, DividedSide
<1>7. LedgerInv
  BY <1>1, <1>2, <1>e DEF LedgerInv
<1>8. Parts /\ Enough /\ Most
  BY <1>1 DEF Parts, Enough, Most, Announced, Trading
<1>9. Reported
  <2>1. Len(reports) = 0 /\ 2..0 = {}
    BY <1>1, <1>2, <1>e
  <2> QED BY <1>1, <2>1 DEF Reported, Trading
<1>10. PriceSoFar /\ Even /\ Uncrossed
  BY <1>1 DEF PriceSoFar, Even, Uncrossed
<1>11. PublishedKnown
  <2>1. \A s \in Sides : {} \in SUBSET [price: Nat, size: Nat]
    OBVIOUS
  <2> QED BY <1>1, <2>1 DEF PublishedKnown
<1>12. MarketsHidden
  BY <1>1 DEF MarketsHidden, Sides
<1> QED BY <1>6, <1>7, <1>8, <1>9, <1>10, <1>11, <1>12 DEF Inv

(***************************************************************************)
(* Every step keeps it.                                                     *)
(***************************************************************************)
LEMMA NextInv == Inv /\ [Next]_vars => Inv'
<1> SUFFICES ASSUME Inv, [Next]_vars PROVE Inv'
  OBVIOUS
<1>1. ASSUME NEW o \in Submissions, InsertLocal(o) PROVE Inv'
  BY <1>1, InsertLocalInv
<1>2. ASSUME NEW id \in DOMAIN orders, NEW q \in CancelSizes, DoLocalCancel(id, q) PROVE Inv'
  BY <1>2, DoLocalCancelInv
<1>3. CASE StartAuction
  BY <1>3, StartAuctionInv
<1>4. CASE ReadRow
  BY <1>4, ReadRowInv
<1>5. CASE AnnouncePrice
  BY <1>5, AnnouncePriceInv
<1>6. CASE DivideWhole
  BY <1>6, DivideWholeInv
<1>7. CASE DivideInTurn
  BY <1>7, DivideInTurnInv
<1>8. CASE DivideTurn
  BY <1>8, DivideTurnInv
<1>9. CASE StartMatching
  BY <1>9, StartMatchingInv
<1>10. CASE MatchPair
  BY <1>10, MatchPairInv
<1>11. CASE EndLevel
  BY <1>11, EndLevelInv
<1>12. CASE EndMatching
  BY <1>12, EndMatchingInv
<1>13. CASE CloseAuction
  BY <1>13, CloseAuctionInv
<1>14. CASE Publish
  BY <1>14, PublishInv
<1>16. CASE OnLogon
  BY <1>16, OnLogonInv
<1>15. CASE UNCHANGED vars
  <2>1. /\ orders' = orders /\ book' = book /\ lastPrice' = lastPrice /\ phase' = phase /\ rows' = rows
        /\ total' = total /\ price' = price /\ shares' = shares /\ pos' = pos /\ division' = division
        /\ reports' = reports /\ published' = published /\ ledger' = ledger
        /\ cancels' = cancels /\ auctions' = auctions
    BY <1>15 DEF vars
  <2>2. Basis'
    BY <2>1 DEF Inv, Basis, BookInv, NoneEmpty, AuctionTypes, Quiet, DividedSide, Trading
  <2>3. LedgerInv' /\ PublishedKnown' /\ MarketsHidden'
    BY <2>1 DEF Inv, LedgerInv, PublishedKnown, MarketsHidden
  <2>4. Parts' /\ Enough'
    BY <2>1 DEF Inv, Parts, Enough, Tight, Trading, IsDivided
  <2>5. Most' /\ Reported' /\ Uncrossed' /\ PriceSoFar'
    BY <2>1 DEF Inv, Most, Reported, Announced, Trading, Uncrossed, PriceSoFar
  <2>6. Even'
    BY <2>1 DEF Inv, Even, BySize, OrderAt, First
  <2> QED BY <2>2, <2>3, <2>4, <2>5, <2>6 DEF Inv
<1> QED BY <1>1, <1>2, <1>3, <1>4, <1>5, <1>6, <1>7, <1>8, <1>9, <1>10, <1>11, <1>12, <1>13, <1>14, <1>15,
            <1>16
        DEF Next, Auction

(***************************************************************************)
(* The inductive invariant of the auction market, for all orders, prices,   *)
(* bounds and lengths of a run.                                             *)
(***************************************************************************)
THEOREM AuctionInvariant == Spec => []Inv
<1> QED BY InitInv, NextInv, PTL DEF Spec

\* A sequence of more is a sequence of less.
LEMMA WiderSeq ==
    ASSUME NEW S, NEW T, NEW q \in Seq(S), \A i \in DOMAIN q : q[i] \in T
    PROVE  q \in Seq(T)
<1>m. PICK m : m = Len(q)
  OBVIOUS
<1>1. m \in Nat /\ DOMAIN q = 1..m /\ q = [i \in 1..m |-> q[i]]
  BY <1>m, LenProperties
<1>2. q \in [1..m -> T]
  BY <1>1
<1> QED BY <1>1, <1>2

\* The book, the parts and the cursors are functions on the sides.
Sided(f) == f = [s \in Sides |-> f[s]]
AllSided == Sided(book) /\ Sided(shares) /\ Sided(pos)

\* No action adds a side to the book.
LEMMA StaysSided == AllSided /\ [Next]_vars => AllSided'
<1> SUFFICES ASSUME AllSided, [Next]_vars PROVE AllSided'
  OBVIOUS
<1>0. Sided(book) /\ Sided(shares) /\ Sided(pos)
  BY DEF AllSided
<1>1. ASSUME NEW f, NEW s, NEW e, Sided(f) PROVE Sided([f EXCEPT ![s] = e])
  <2>1. DOMAIN f = Sides
    BY <1>1 DEF Sided
  <2>g. PICK g : g = [f EXCEPT ![s] = e]
    OBVIOUS
  <2>2. g = [x \in Sides |-> IF x = s THEN e ELSE f[x]]
    BY <2>1, <2>g
  <2>3. g = [x \in Sides |-> g[x]]
    BY <2>2
  <2> QED BY <2>3, <2>g DEF Sided
<1>2. ASSUME NEW o \in Submissions, InsertLocal(o) PROVE AllSided'
  <2>1. PICK e : book' = [book EXCEPT ![o.side] = e]
    BY <1>2 DEF InsertLocal
  <2>2. Sided(book')
    BY <1>0, <1>1, <2>1
  <2>3. shares' = shares /\ pos' = pos
    BY <1>2 DEF InsertLocal, auction
  <2> QED BY <1>0, <2>2, <2>3 DEF AllSided, Sided
<1>3. ASSUME NEW id \in DOMAIN orders, NEW q \in CancelSizes, DoLocalCancel(id, q) PROVE AllSided'
  <2>s. PICK s : s = orders[id].side
    OBVIOUS
  <2>p. PICK p : p = IF orders[id].kind = "MARKET" THEN 0 ELSE orders[id].price
    OBVIOUS
  <2>l. PICK l : l = CancelLevel(s, p)
    OBVIOUS
  <2>i. PICK i : i = IF l = 0 THEN 0 ELSE SelectInSeq(book[s][l].ids, LAMBDA x : x = id)
    OBVIOUS
  <2>1. IF i = 0 THEN UNCHANGED <<orders, book, ledger>> ELSE Cancels(s, id, q, l, i)
    BY <1>3, <2>s, <2>p, <2>l, <2>i DEF DoLocalCancel, Cancels
  <2>2. Sided(book')
    <3>1. CASE i = 0
      BY <1>0, <2>1, <3>1 DEF Sided
    <3>2. CASE i # 0
      <4>1. PICK e : book' = [book EXCEPT ![s] = e]
        BY <2>1, <3>2 DEF Cancels
      <4> QED BY <1>0, <1>1, <4>1
    <3> QED BY <3>1, <3>2
  <2>3. shares' = shares /\ pos' = pos
    BY <1>3 DEF DoLocalCancel, auction
  <2> QED BY <1>0, <2>2, <2>3 DEF AllSided, Sided
<1>4. CASE DivideWhole \/ DivideInTurn \/ DivideTurn
  <2>1. book' = book /\ pos' = pos
    BY <1>4 DEF DivideWhole, DivideInTurn, DivideTurn
  <2>2. \E s, e : shares' = [shares EXCEPT ![s] = e]
    BY <1>4 DEF DivideWhole, DivideInTurn, DivideTurn
  <2>3. PICK s, e : shares' = [shares EXCEPT ![s] = e]
    BY <2>2
  <2>4. Sided(shares')
    BY <1>0, <1>1, <2>3
  <2> QED BY <1>0, <2>1, <2>4 DEF AllSided, Sided
<1>5. CASE MatchPair
  <2>q. PICK q : q = Least(shares["bid"][1], shares["ask"][1])
    OBVIOUS
  <2>1. /\ book' = [s \in Sides |-> ReplaceAt(book[s], 1, LevelAfter(s, q))]
        /\ shares' = [s \in Sides |-> IF PartDone(s, q) THEN Tail(shares[s])
                                      ELSE ReplaceAt(shares[s], 1, shares[s][1] - q)]
        /\ pos' = [s \in Sides |-> IF PartDone(s, q) /\ ~OrderDone(s, q) THEN pos[s] + 1 ELSE pos[s]]
    BY <1>5, <2>q DEF MatchPair
  <2>2. Sided(book')
    BY <2>1 DEF Sided
  <2>3. Sided(shares')
    BY <2>1 DEF Sided
  <2>4. Sided(pos')
    BY <2>1 DEF Sided
  <2> QED BY <2>2, <2>3, <2>4 DEF AllSided, Sided
<1>6. CASE EndLevel
  <2>e. PICK empty : empty = {s \in Sides : First(s).ids = <<>>}
    OBVIOUS
  <2>1. /\ book' = [s \in Sides |-> IF s \in empty THEN Tail(book[s]) ELSE book[s]]
        /\ pos' = [s \in Sides |-> IF s \in empty THEN 1 ELSE pos[s]]
        /\ shares' = shares
    BY <1>6, <2>e DEF EndLevel
  <2>2. Sided(book')
    BY <2>1 DEF Sided
  <2>3. Sided(pos')
    BY <2>1 DEF Sided
  <2> QED BY <1>0, <2>1, <2>2, <2>3 DEF AllSided, Sided
<1>7. CASE EndMatching
  <2>1. shares' = [s \in Sides |-> <<>>] /\ pos' = [s \in Sides |-> 1] /\ book' = book
    BY <1>7 DEF EndMatching
  <2>2. Sided(shares') /\ Sided(pos')
    BY <2>1 DEF Sided
  <2> QED BY <1>0, <2>1, <2>2 DEF AllSided, Sided
<1>8. CASE UNCHANGED <<book, shares, pos>>
  BY <1>0, <1>8 DEF AllSided, Sided
<1>9. StartAuction \/ ReadRow \/ AnnouncePrice \/ StartMatching \/ CloseAuction \/ Publish \/ OnLogon
          \/ UNCHANGED vars
        => UNCHANGED <<book, shares, pos>>
  BY DEF StartAuction, ReadRow, AnnouncePrice, StartMatching, CloseAuction, Publish, OnLogon, vars, auction
<1> QED BY <1>2, <1>3, <1>4, <1>5, <1>6, <1>7, <1>8, <1>9 DEF Next, Auction

(***************************************************************************)
(* The state of the market keeps its type.                                  *)
(***************************************************************************)
THEOREM AuctionTypesKept == Spec => []TypeOK
<1>1. Inv /\ AllSided => TypeOK
  <2> SUFFICES ASSUME Inv, AllSided PROVE TypeOK
    OBVIOUS
  <2>1. /\ orders \in Seq(OrderRec) /\ DOMAIN book = Sides
        /\ \A s \in Sides : /\ book[s] \in Seq(LevelRec)
                            /\ \A lv \in Range(book[s]) : ExactLevel(orders, s, lv)
    BY DEF Inv, Basis, BookInv, Known, Standing, ExactSide
  <2>2. orders \in Seq([kind: Kinds, side: Sides, price: Nat, size: Nat, counter: Nat])
    BY <2>1 DEF OrderRec
  <2>3. ASSUME NEW s \in Sides PROVE book[s] \in Seq([price: Nat, size: Nat, ids: Seq(DOMAIN orders)])
    <3>R. PICK R : R = [price: Nat, size: Nat, ids: Seq(DOMAIN orders)]
      OBVIOUS
    <3>1. ASSUME NEW l \in DOMAIN book[s] PROVE book[s][l] \in R
      <4>v. PICK lv : lv = book[s][l]
        OBVIOUS
      <4>1. lv \in LevelRec /\ lv \in Range(book[s])
        BY <2>1, <4>v, LenProperties, ElementOfSeq DEF Range
      <4>2. ExactLevel(orders, s, lv)
        BY <2>1, <4>1
      <4>3. lv.ids \in Seq(Nat) /\ lv.price \in Nat /\ lv.size \in Nat
            /\ lv = [price |-> lv.price, size |-> lv.size, ids |-> lv.ids]
        BY <4>1 DEF LevelRec
      <4>4. \A i \in DOMAIN lv.ids : lv.ids[i] \in DOMAIN orders
        BY <4>2 DEF ExactLevel, Belongs, Range
      <4>5. lv.ids \in Seq(DOMAIN orders)
        BY <4>3, <4>4, WiderSeq
      <4> QED BY <3>R, <4>3, <4>5, <4>v
    <3>2. book[s] \in Seq(R)
      BY <2>1, <3>1, WiderSeq
    <3> QED BY <3>2, <3>R
  <2>4. book \in [Sides -> Seq([price: Nat, size: Nat, ids: Seq(DOMAIN orders)])]
    <3>B. PICK B : B = Seq([price: Nat, size: Nat, ids: Seq(DOMAIN orders)])
      OBVIOUS
    <3>1. book = [s \in Sides |-> book[s]]
      BY DEF AllSided, Sided
    <3>2. \A s \in Sides : book[s] \in B
      BY <2>3, <3>B
    <3>3. book \in [Sides -> B]
      BY <3>1, <3>2
    <3> QED BY <3>3, <3>B
  <2>5. AuctionTypes
    BY DEF Inv, Basis
  <2>6. total \in Nat \cup {-1}
    BY <2>5 DEF AuctionTypes
  <2>7. shares \in [Sides -> Seq(Nat)] /\ pos \in [Sides -> Nat \ {0}]
    <3>1. shares = [s \in Sides |-> shares[s]] /\ pos = [s \in Sides |-> pos[s]]
      BY DEF AllSided, Sided
    <3>2. \A s \in Sides : shares[s] \in Seq(Nat) /\ pos[s] \in Nat \ {0}
      BY <2>5 DEF AuctionTypes
    <3> QED BY <3>1, <3>2
  <2>8. ledger \in Seq([trader: Nat, submitted: Nat, filled: Nat, cancelled: Nat])
    <3>R. PICK R : R = [trader: Nat, submitted: Nat, filled: Nat, cancelled: Nat]
      OBVIOUS
    <3>1. ledger \in Seq(LedgerRec)
      BY DEF Inv, LedgerInv
    <3>2. {o.size : o \in Submissions} \subseteq Nat
      BY AuctionAssumption
    <3>3. 1..MaxOrders \subseteq Nat
      OBVIOUS
    <3>4. \A i \in DOMAIN ledger : ledger[i] \in LedgerRec
      BY <3>1, LenProperties, ElementOfSeq
    <3>5. LedgerRec \subseteq R
      BY <3>2, <3>3, <3>R DEF LedgerRec
    <3>7. \A i \in DOMAIN ledger : ledger[i] \in R
      BY <3>4, <3>5
    <3>6. ledger \in Seq(R)
      BY <3>1, <3>7, WiderSeq
    <3> QED BY <3>6, <3>R
  <2>9. published \in [Sides -> SUBSET [price: Nat, size: Nat]]
    BY DEF Inv, PublishedKnown
  <2>10. phase \in {"idle", "price", "share", "divide", "match", "close", "publish"}
    BY <2>5 DEF AuctionTypes, Phases
  <2>11. /\ lastPrice \in Nat /\ rows \subseteq Nat /\ price \in Nat /\ cancels \in Nat /\ auctions \in Nat
         /\ division \in [side: Sides, rest: Nat, counter: Int]
         /\ reports \in Seq([decision: {"2", "5"}, price: Nat, size: Nat, bid: Nat, ask: Nat])
    BY <2>5 DEF AuctionTypes
  <2> QED BY <2>2, <2>4, <2>6, <2>7, <2>8, <2>9, <2>10, <2>11 DEF TypeOK
<1>2. Init => AllSided
  BY DEF Init, AllSided, Sided
<1> QED BY <1>1, <1>2, StaysSided, AuctionInvariant, PTL DEF Spec

--------------------------------------------------------------------------------
(* What follows from the invariant. *)

(***************************************************************************)
(* The book is exact at every time: each order with shares left stands in    *)
(* it once, at its price, and levels are strictly best first and of the      *)
(* size of their orders.                                                     *)
(***************************************************************************)
THEOREM LevelsAlwaysExact == Spec => []LevelsExact
<1>1. Inv => LevelsExact
  <2> SUFFICES ASSUME Inv, NEW s \in Sides
               PROVE  /\ \A l \in DOMAIN book[s] :
                            /\ IsInjective(book[s][l].ids) /\ Range(book[s][l].ids) = Members(s, book[s][l].price)
                            /\ book[s][l].size = SharesOf(Members(s, book[s][l].price))
                            /\ \A m \in 1..(l - 1) : Better(s, book[s][m].price, book[s][l].price)
                      /\ \A id \in DOMAIN orders :
                            orders[id].size > 0 /\ orders[id].side = s
                                => \E lv \in Range(book[s]) : lv.price = orders[id].price
    BY DEF LevelsExact
  <2>1. book[s] \in Seq(LevelRec) /\ ExactSide(orders, s, book[s])
    BY DEF Inv, Basis, BookInv, Standing
  <2>2. DOMAIN book[s] = 1..Len(book[s]) /\ Len(book[s]) \in Nat
    BY <2>1, LenProperties
  <2>3. ASSUME NEW l \in DOMAIN book[s]
        PROVE  /\ IsInjective(book[s][l].ids) /\ Range(book[s][l].ids) = Members(s, book[s][l].price)
               /\ book[s][l].size = SharesOf(Members(s, book[s][l].price))
    <3>1. ExactLevel(orders, s, book[s][l])
      BY <2>1 DEF ExactSide, Range
    <3> QED BY <3>1 DEF ExactLevel, Members, Belongs, SharesOf, Sizes
  <2>4. ASSUME NEW l \in DOMAIN book[s], NEW m \in 1..(l - 1)
        PROVE  Better(s, book[s][m].price, book[s][l].price)
    <3>1. m \in DOMAIN book[s] /\ m < l
      BY <2>2
    <3> QED BY <2>1, <3>1 DEF ExactSide, Ordered
  <2>5. \A id \in DOMAIN orders :
           orders[id].size > 0 /\ orders[id].side = s => \E lv \in Range(book[s]) : lv.price = orders[id].price
    BY <2>1 DEF ExactSide, Covered
  <2> QED BY <2>3, <2>4, <2>5
<1> QED BY <1>1, AuctionInvariant, PTL

(***************************************************************************)
(* No share is lost or made up.                                             *)
(***************************************************************************)
THEOREM SharesAlwaysAccounted == Spec => []SharesAccounted
<1>1. Inv => SharesAccounted
  BY DEF Inv, LedgerInv, SharesAccounted
<1> QED BY <1>1, AuctionInvariant, PTL

(***************************************************************************)
(* In every level the orders that have seen more auctions stand in front.   *)
(***************************************************************************)
THEOREM LevelsStayByAge == Spec => []LevelsByAge
<1>1. Inv => LevelsByAge
  <2> SUFFICES ASSUME Inv, NEW s \in Sides, NEW l \in DOMAIN book[s] PROVE Aged(orders, book[s][l].ids)
    BY DEF LevelsByAge, Aged
  <2> QED BY DEF Inv, Basis, BookInv, Standing, Range
<1> QED BY <1>1, AuctionInvariant, PTL

(***************************************************************************)
(* Every trade is of at least one share, at the price announced and within  *)
(* the limits of both orders, and an auction trades what it announced: the   *)
(* parts of the two sides never end in zeros at once, as one side is always *)
(* used up level by level.                                                  *)
(***************************************************************************)
THEOREM TradesAlwaysSound == Spec => []TradesSound
<1>1. Inv => TradesSound
  <2> SUFFICES ASSUME Inv PROVE TradesSound
    OBVIOUS
  <2>1. ASSUME NEW i \in 2..Len(reports)
        PROVE  /\ reports[i].size > 0 /\ reports[i].price = reports[1].price
               /\ orders[reports[i].bid].price >= reports[i].price
               /\ orders[reports[i].ask].price <= reports[i].price
    <3>1. reports # <<>>
      <4>1. Len(reports) # 0
        <5>1. Len(reports) \in Nat
          BY LenProperties DEF Inv, Basis, AuctionTypes
        <5> QED BY <5>1
      <4> QED BY <4>1, EmptySeq
    <3>2. SoundReport(orders, price, reports[i]) /\ reports[1].price = price
      BY <3>1 DEF Inv, Reported
    <3> QED BY <3>2 DEF SoundReport
  <2>2. ASSUME phase = "close", reports # <<>>
        PROVE  reports[1].size = SumFunction([i \in 2..Len(reports) |-> reports[i].size])
    <3>1. total = 0 /\ reports[1].size = total + Later(reports)
      BY <2>2 DEF Inv, Reported
    <3>2. Later(reports) \in Int
      BY LaterType DEF Inv, Basis, AuctionTypes, ReportRec
    <3>3. reports[1].size = Later(reports)
      BY <3>1, <3>2
    <3> QED BY <3>3 DEF Later
  <2> QED BY <2>1, <2>2 DEF TradesSound
<1> QED BY <1>1, AuctionInvariant, PTL

(***************************************************************************)
(* An auction that trades leaves no bid and ask that cross.                 *)
(***************************************************************************)
THEOREM AuctionsClear == Spec => []AuctionClears
<1>1. Inv => AuctionClears
  <2> SUFFICES ASSUME Inv, phase = "close", reports # <<>>, NEW b \in DOMAIN orders, NEW a \in DOMAIN orders,
                      orders[b].side = "bid", orders[b].size > 0, orders[a].side = "ask", orders[a].size > 0,
                      orders[b].price >= orders[a].price
               PROVE  FALSE
    BY DEF AuctionClears
  <2>1. BookInv
    BY DEF Inv, Basis
  <2>2. \A p \in PricesOf(book) : \E s \in Sides : OfferedIn(s, book[s], p) <= 0
    <3>1. total = 0
      BY DEF Inv, Reported
    <3> QED BY <3>1 DEF Inv, Most, Announced
  <2>3. \A id \in DOMAIN orders, s \in Sides : orders[id].size > 0 /\ orders[id].side = s
           => \E lv \in Range(book[s]) : lv.price = orders[id].price /\ lv.ids # <<>>
    <3> SUFFICES ASSUME NEW id \in DOMAIN orders, NEW s \in Sides, orders[id].size > 0, orders[id].side = s
                 PROVE  \E lv \in Range(book[s]) : lv.price = orders[id].price /\ lv.ids # <<>>
      OBVIOUS
    <3>1. ExactSide(orders, s, book[s])
      BY <2>1 DEF BookInv, Standing
    <3>2. PICK lv \in Range(book[s]) : lv.price = orders[id].price
      BY <3>1 DEF ExactSide, Covered
    <3>3. ExactLevel(orders, s, lv)
      BY <3>1, <3>2 DEF ExactSide
    <3>4. id \in Range(lv.ids)
      BY <3>2, <3>3 DEF ExactLevel, Belongs
    <3>5. lv.ids # <<>>
      <4>1. DOMAIN <<>> = {}
        BY EmptySeq
      <4> QED BY <3>4, <4>1 DEF Range
    <3> QED BY <3>2, <3>5
  <2>4. PICK lb \in Range(book["bid"]) : lb.price = orders[b].price /\ lb.ids # <<>>
    BY <2>3 DEF Sides
  <2>5. PICK la \in Range(book["ask"]) : la.price = orders[a].price /\ la.ids # <<>>
    BY <2>3 DEF Sides
  <2>6. lb.price < la.price
    BY <2>1, <2>2, <2>4, <2>5, NothingLeft
  <2>7. orders[b].price \in Nat /\ orders[a].price \in Nat
    <3>1. orders \in Seq(OrderRec)
      BY <2>1 DEF BookInv, Known
    <3>2. orders[b] \in OrderRec /\ orders[a] \in OrderRec
      BY <3>1, LenProperties, ElementOfSeq
    <3> QED BY <3>2 DEF OrderRec
  <2> QED BY <2>4, <2>5, <2>6, <2>7
<1> QED BY <1>1, AuctionInvariant, PTL

(***************************************************************************)
(* What is broadcast after an auction is never crossed, whatever brokers    *)
(* were sent at a logon in between; and nobody is sent a sentinel price.    *)
(***************************************************************************)
THEOREM PublishedNeverCrossed == Spec => PublishedUncrossed
<1>1. Inv /\ [Next]_vars /\ phase = "publish" /\ phase' = "idle"
        => \A b \in published'["bid"], a \in published'["ask"] : b.price < a.price
  <2> SUFFICES ASSUME Inv, [Next]_vars, phase = "publish", phase' = "idle" PROVE Publish
    BY BroadcastUncrossed
  <2>1. \A o \in Submissions : ~InsertLocal(o)
    BY DEF InsertLocal
  <2>2. \A id \in DOMAIN orders, q \in CancelSizes : ~DoLocalCancel(id, q)
    BY DEF DoLocalCancel
  <2>3. ~(DivideTurn \/ CloseAuction \/ MatchPair \/ EndLevel \/ StartAuction)
    BY DEF DivideTurn, CloseAuction, MatchPair, EndLevel, StartAuction
  <2>4. ~(DivideWhole \/ DivideInTurn \/ StartMatching \/ EndMatching)
    BY DEF DivideWhole, DivideInTurn, Dividing, StartMatching, EndMatching
  <2>5. ~ReadRow /\ ~AnnouncePrice /\ ~OnLogon /\ ~UNCHANGED vars
    BY DEF ReadRow, AnnouncePrice, OnLogon, vars
  <2> QED BY <2>1, <2>2, <2>3, <2>4, <2>5 DEF Next, Auction
<1>2. Inv' => MarketsHidden'
  BY DEF Inv
<1>3. Inv /\ Inv' /\ [Next]_vars
        => [/\ MarketsHidden'
            /\ phase = "publish" /\ phase' = "idle" =>
                  \A b \in published'["bid"], a \in published'["ask"] : b.price < a.price]_vars
  BY <1>1, <1>2
<1> QED BY <1>3, AuctionInvariant, PTL DEF Spec, PublishedUncrossed

(***************************************************************************)
(* The price of an auction is the one that the three rules prescribe, though *)
(* the table of demand and supply is read only until fewer shares match.     *)
(***************************************************************************)
THEOREM PriceFollowsRules == Spec => PriceRules
<1>1. Inv /\ [Next]_vars /\ phase = "price" /\ phase' = "share" => BestPrice
  <2> SUFFICES ASSUME Inv, [Next]_vars, phase = "price", phase' = "share" PROVE AnnouncePrice
    BY AnnouncedBest
  <2>1. \A o \in Submissions : ~InsertLocal(o)
    BY DEF InsertLocal
  <2>2. \A id \in DOMAIN orders, q \in CancelSizes : ~DoLocalCancel(id, q)
    BY DEF DoLocalCancel
  <2>3. ~(DivideTurn \/ CloseAuction \/ Publish \/ OnLogon \/ MatchPair \/ EndLevel \/ StartAuction)
    BY DEF DivideTurn, CloseAuction, Publish, OnLogon, MatchPair, EndLevel, StartAuction
  <2>4. ~(DivideWhole \/ DivideInTurn \/ StartMatching \/ EndMatching)
    BY DEF DivideWhole, DivideInTurn, Dividing, StartMatching, EndMatching
  <2>5. ~ReadRow /\ ~UNCHANGED vars
    BY DEF ReadRow, vars
  <2> QED BY <2>1, <2>2, <2>3, <2>4, <2>5 DEF Next, Auction
<1>2. Inv /\ [Next]_vars
        => [phase = "price" /\ phase' = "share" =>
              \A r \in Rows :
                  /\ Matched(r) <= total'
                  /\ Matched(r) = total' => Excess(price') <= Excess(r)
                  /\ Matched(r) = total' /\ Excess(price') = Excess(r)
                        => Distance(price', lastPrice) <= Distance(r, lastPrice)]_vars
  BY <1>1 DEF BestPrice
<1> QED BY <1>2, AuctionInvariant, PTL DEF Spec, PriceRules

--------------------------------------------------------------------------------
(* The division. *)

FairParted ==
    LET s    == division.side
        part == shares'[s]
        full == {i \in DOMAIN part : part[i] = OrderAt(s, i).size}
    IN  /\ SumFunction(part) = total
        /\ \A i \in DOMAIN part \ full, j \in DOMAIN part :
              /\ OrderAt(s, i).counter > OrderAt(s, j).counter => part[j] = 0
              /\ OrderAt(s, i).counter = OrderAt(s, j).counter => part[j] <= part[i] + 1

(***************************************************************************)
(* The last turn of a division leaves it complete and fair.                 *)
(***************************************************************************)
LEMMA LastTurnFair ==
    ASSUME Inv, DivideTurn, phase' = "share", BySize(division.side) PROVE FairParted
<1>s. PICK s : s = division.side
  OBVIOUS
<1>i. PICK ids : ids = First(s).ids
  OBVIOUS
<1>n. PICK n : n = Len(ids)
  OBVIOUS
<1>t. PICK T : T = Served(s)
  OBVIOUS
<1>c. PICK cn : cn = AgesInTurn(orders, ids)
  OBVIOUS
<1>z. PICK sz : sz = SizesInTurn(orders, ids)
  OBVIOUS
<1>h. PICK sh : sh = shares[s]
  OBVIOUS
<1>d. PICK d : d = division
  OBVIOUS
<1>x. PICK nx : nx = OneMore(1..n, sh, T)
  OBVIOUS
<1>e. PICK e : e = [side |-> s, rest |-> d.rest - Cardinality(T), counter |-> NextCounter(d.counter, T)]
  OBVIOUS
<1>1. phase = "divide"
  BY DEF DivideTurn
<1>3. ATurn(s, ids, n, cn, sz, sh, d, T, nx, e)
  BY <1>s, <1>i, <1>n, <1>t, <1>c, <1>z, <1>h, <1>d, <1>x, <1>e, TurnIsOne
<1>4. /\ s \in Sides /\ ids = book[s][1].ids
      /\ n \in Nat /\ DOMAIN ids = 1..n /\ DOMAIN sh = 1..n /\ d.rest \in Nat
      /\ IsTurn(n, cn, sz, sh, d.counter, d.rest, T) /\ AgeByAge(n, cn, sh, d.counter)
      /\ Cardinality(T) \in Nat /\ SumFunction(sh) \in Nat /\ SumFunction(sh) + d.rest = total
      /\ shares' = [shares EXCEPT ![s] = nx]
      /\ phase' = IF e.rest = 0 THEN "share" ELSE "divide"
  BY <1>3 DEF ATurn
<1>5. /\ nx \in [1..n -> Nat] /\ SumFunction(nx) = SumFunction(sh) + Cardinality(T)
  <2>1. TurnLeaves(n, cn, sz, sh, d.counter, d.rest, T, nx)
    BY <1>4, <1>x, TurnKeepsAges
  <2> QED BY <2>1 DEF TurnLeaves
<1>6. SumFunction(nx) = total
  <2>1. e.rest = d.rest - Cardinality(T) /\ e.rest = 0
    BY <1>4, <1>e
  <2> QED BY <1>4, <1>5, <2>1
<1>7. FairParts(n, cn, sz, nx)
  <2>2. EvenlyDivided(orders, ids, sh, d.counter)
    BY <1>1, <1>4, <1>s, <1>d, <1>h DEF Inv, Even
  <2>3. PICK m \in Nat : EvenAt(n, cn, sz, sh, d.counter, m)
    BY <1>4, <1>c, <1>z, <2>2, EvenInTurn
  <2>4. LargestFirst(n, cn, sz)
    BY <1>4, <1>c, <1>z, <1>i, <1>s, SortedInTurn
  <2> QED BY <1>4, <1>x, <2>3, <2>4, TurnKeepsEven
<1>8. shares'[s] = nx
  BY <1>4 DEF Inv, Basis, AuctionTypes
<1>9. \A i \in 1..n : OrderAt(s, i).counter = cn[i] /\ OrderAt(s, i).size = sz[i]
  BY <1>4, <1>c, <1>z, <1>i DEF OrderAt, AgesInTurn, SizesInTurn
<1>10. ASSUME NEW i \in 1..n, NEW j \in 1..n, nx[i] # OrderAt(s, i).size
       PROVE  /\ OrderAt(s, i).counter > OrderAt(s, j).counter => nx[j] = 0
              /\ OrderAt(s, i).counter = OrderAt(s, j).counter => nx[j] <= nx[i] + 1
  <2>1. nx[i] # sz[i]
    BY <1>9, <1>10
  <2>2. /\ cn[i] > cn[j] => nx[j] = 0
        /\ cn[i] = cn[j] => nx[j] <= nx[i] + 1
    BY <1>7, <2>1 DEF FairParts
  <2> QED BY <1>9, <2>2
<1>11. DOMAIN nx = 1..n
  BY <1>5
<1> QED BY <1>6, <1>8, <1>10, <1>11, <1>s DEF FairParted

(***************************************************************************)
(* Every division of a sorted level is complete and fair when it ends.      *)
(***************************************************************************)
THEOREM DivisionsFair == Spec => FairDivision
<1>1. Inv /\ [Next]_vars /\ phase = "divide" /\ phase' = "share" /\ BySize(division.side) => FairParted
  <2> SUFFICES ASSUME Inv, [Next]_vars, phase = "divide", phase' = "share" PROVE DivideTurn
    BY LastTurnFair
  <2>1. \A o \in Submissions : ~InsertLocal(o)
    BY DEF InsertLocal
  <2>2. \A id \in DOMAIN orders, q \in CancelSizes : ~DoLocalCancel(id, q)
    BY DEF DoLocalCancel
  <2>3. ~(CloseAuction \/ Publish \/ OnLogon \/ MatchPair \/ EndLevel \/ StartAuction)
    BY DEF CloseAuction, Publish, OnLogon, MatchPair, EndLevel, StartAuction
  <2>4. ~(DivideWhole \/ DivideInTurn \/ StartMatching \/ EndMatching)
    BY DEF DivideWhole, DivideInTurn, Dividing, StartMatching, EndMatching
  <2>5. ~ReadRow /\ ~AnnouncePrice /\ ~UNCHANGED vars
    BY DEF ReadRow, AnnouncePrice, vars
  <2> QED BY <2>1, <2>2, <2>3, <2>4, <2>5 DEF Next, Auction
<1>2. Inv /\ [Next]_vars
        => [phase = "divide" /\ phase' = "share" /\ BySize(division.side) =>
              LET s    == division.side
                  part == shares'[s]
                  full == {i \in DOMAIN part : part[i] = OrderAt(s, i).size}
              IN  /\ SumFunction(part) = total
                  /\ \A i \in DOMAIN part \ full, j \in DOMAIN part :
                        /\ OrderAt(s, i).counter > OrderAt(s, j).counter => part[j] = 0
                        /\ OrderAt(s, i).counter = OrderAt(s, j).counter => part[j] <= part[i] + 1]_vars
  BY <1>1 DEF FairParted
<1> QED BY <1>2, AuctionInvariant, PTL DEF Spec, FairDivision

--------------------------------------------------------------------------------
(* The promise of OrderLedger. *)

\* What the ledger says is open of an order is what rests in the book.
LEMMA OpenIsLeft ==
    ASSUME Inv, NEW id \in DOMAIN orders
    PROVE  Ledger!Open(id) = orders[id].size /\ orders[id].size \in Nat /\ id \in DOMAIN ledger
<1>1. /\ ledger \in Seq(LedgerRec) /\ Len(ledger) = Len(orders) /\ orders \in Seq(OrderRec)
      /\ ledger[id].submitted = ledger[id].filled + ledger[id].cancelled + orders[id].size
  BY DEF Inv, Basis, BookInv, Known, LedgerInv
<1>2. id \in DOMAIN ledger
  BY <1>1, LenProperties
<1>3. ledger[id] \in LedgerRec /\ orders[id] \in OrderRec
  BY <1>1, <1>2, LenProperties, ElementOfSeq
<1>4. ledger[id].filled \in Nat /\ ledger[id].cancelled \in Nat /\ orders[id].size \in Nat
  BY <1>3 DEF LedgerRec, OrderRec
<1> QED BY <1>1, <1>2, <1>4 DEF Ledger!Open

\* A submission is one of the ledger.
LEMMA SubmitsToLedger ==
    ASSUME Inv, NEW o \in Submissions, InsertLocal(o) PROVE Ledger!Next
<1>n. PICK n : n = Len(orders')
  OBVIOUS
<1>1. /\ Len(orders) < MaxOrders
      /\ ledger' = Append(ledger, [trader |-> n, submitted |-> o.size, filled |-> 0, cancelled |-> 0])
  BY <1>n DEF InsertLocal
<1>2. orders \in Seq(OrderRec) /\ orders' \in Seq(OrderRec)
  BY InsertLocalInv DEF Inv, Basis, BookInv, Known
<1>3. n = Len(orders) + 1 /\ Len(orders) \in Nat
  <2>1. PICK r : orders' = Append(orders, r)
    BY DEF InsertLocal
  <2> QED BY <1>2, <1>n, <2>1, LenProperties
<1>4. n \in 1..MaxOrders
  BY <1>1, <1>3, AuctionAssumption
<1>5. Ledger!Submit(n, o.size)
  BY <1>1 DEF Ledger!Submit
<1> QED BY <1>4, <1>5 DEF Ledger!Next

\* The execution of a pair is one of the ledger, of two orders with that many shares open.
LEMMA PairsInLedger == ASSUME Inv, MatchPair PROVE Ledger!Next
<1>q. PICK q : q = Least(shares["bid"][1], shares["ask"][1])
  OBVIOUS
<1>b. PICK b : b = Current("bid")
  OBVIOUS
<1>a. PICK a : a = Current("ask")
  OBVIOUS
<1>0. PairTraded(q)
  BY <1>q, MatchPairTrades DEF Inv
<1>1. q \in Nat /\ q > 0 /\ b \in DOMAIN orders /\ a \in DOMAIN orders
  BY <1>0, <1>b, <1>a DEF PairTraded, Suits, Cursor, Sides
<1>2. a # b
  <2>1. orders[b].side = "bid" /\ orders[a].side = "ask"
    BY <1>0, <1>b, <1>a DEF PairTraded, Cursor, Sides
  <2> QED BY <2>1
<1>3. q <= orders[b].size /\ q <= orders[a].size
  <2>1. /\ shares["bid"][1] \in Nat /\ shares["ask"][1] \in Nat
        /\ shares["bid"][1] <= orders[b].size /\ shares["ask"][1] <= orders[a].size
        /\ orders[b].size \in Nat /\ orders[a].size \in Nat
    BY <1>0, <1>b, <1>a DEF PairTraded, Cursor, Sides
  <2> QED BY <1>q, <2>1 DEF Least
<1>4. ledger' = [i \in DOMAIN ledger |-> IF i \in {b, a} THEN [ledger[i] EXCEPT !.filled = @ + q] ELSE ledger[i]]
  BY <1>q, <1>b, <1>a DEF MatchPair, Current, First, Sides
<1>5. /\ Ledger!Open(b) = orders[b].size /\ Ledger!Open(a) = orders[a].size
      /\ b \in DOMAIN ledger /\ a \in DOMAIN ledger /\ orders[b].size \in Nat /\ orders[a].size \in Nat
  BY <1>1, OpenIsLeft
<1>6. ledger[b].trader # ledger[a].trader
  BY <1>1, <1>2 DEF Inv, LedgerInv
<1>7. ledger' = [ledger EXCEPT ![b].filled = @ + q, ![a].filled = @ + q]
  <2>L. PICK L : L = LedgerRec
    OBVIOUS
  <2>1. ledger \in Seq(L)
    BY <2>L DEF Inv, LedgerInv
  <2>2. ledger = [i \in DOMAIN ledger |-> ledger[i]]
    BY <2>1, LenProperties
  <2> QED BY <1>2, <1>4, <1>5, <2>2
<1>8. Ledger!TradePair(b, a, q)
  BY <1>3, <1>5, <1>6, <1>7 DEF Ledger!TradePair
<1>9. q \in 1..Ledger!Open(b)
  BY <1>1, <1>3, <1>5
<1> QED BY <1>5, <1>8, <1>9 DEF Ledger!Next

\* A cancellation that finds its order is one of the ledger.
LEMMA CancelsInLedger ==
    ASSUME Inv, NEW id \in DOMAIN orders, NEW q \in CancelSizes, DoLocalCancel(id, q)
    PROVE  [Ledger!Next]_ledger
<1>s. PICK s : s = orders[id].side
  OBVIOUS
<1>p. PICK p : p = IF orders[id].kind = "MARKET" THEN 0 ELSE orders[id].price
  OBVIOUS
<1>l. PICK l : l = CancelLevel(s, p)
  OBVIOUS
<1>i. PICK i : i = IF l = 0 THEN 0 ELSE SelectInSeq(book[s][l].ids, LAMBDA x : x = id)
  OBVIOUS
<1>1. IF i = 0 THEN UNCHANGED <<orders, book, ledger>> ELSE Cancels(s, id, q, l, i)
  BY <1>s, <1>p, <1>l, <1>i DEF DoLocalCancel, Cancels
<1>2. CASE i = 0
  BY <1>1, <1>2
<1>3. CASE i # 0
  <2>1. orders[id] \in OrderRec /\ orders[id].size \in Nat /\ s \in Sides
    <3>1. orders \in Seq(OrderRec)
      BY DEF Inv, Basis, BookInv, Known
    <3>2. orders[id] \in OrderRec
      BY <3>1, LenProperties, ElementOfSeq
    <3> QED BY <1>s, <3>2 DEF OrderRec
  <2>2. book[s] \in Seq(LevelRec) /\ ExactSide(orders, s, book[s])
    BY <2>1 DEF Inv, Basis, BookInv, Standing
  <2>3. Found(s, id, l, i)
    BY <1>3, <1>i, <1>l, <2>2, CancelFinds
  <2>4. orders[id].size > 0
    <3>1. ExactLevel(orders, s, book[s][l])
      BY <2>2, <2>3 DEF Found, ExactSide, Range
    <3> QED BY <2>3, <3>1 DEF Found, ExactLevel, Belongs, Range
  <2>x. PICK x : x = Least(orders[id].size, q)
    OBVIOUS
  <2>5. q \in Nat /\ q > 0
    BY AuctionAssumption
  <2>6. x \in Nat /\ x > 0 /\ x <= orders[id].size
    BY <2>1, <2>4, <2>5, <2>x DEF Least
  <2>7. ledger' = [ledger EXCEPT ![id].cancelled = @ + x]
    BY <1>1, <1>3, <2>x DEF Cancels
  <2>8. Ledger!Open(id) = orders[id].size /\ id \in DOMAIN ledger
    BY OpenIsLeft
  <2>9. x \in 1..Ledger!Open(id)
    BY <2>1, <2>6, <2>8
  <2>10. Ledger!Cancel(id, x)
    BY <2>7 DEF Ledger!Cancel
  <2> QED BY <2>8, <2>9, <2>10 DEF Ledger!Next
<1> QED BY <1>2, <1>3

(***************************************************************************)
(* The auction market keeps the promise of OrderLedger: shares move only    *)
(* from open to executed or cancelled, and no order gives up more than it   *)
(* has.                                                                      *)
(***************************************************************************)
THEOREM AuctionImplementsLedger == Spec => LedgerSpec
<1>1. Init => Ledger!Init
  BY DEF Init, Ledger!Init
<1>2. Inv /\ [Next]_vars => [Ledger!Next]_ledger
  <2> SUFFICES ASSUME Inv, [Next]_vars PROVE [Ledger!Next]_ledger
    OBVIOUS
  <2>1. ASSUME NEW o \in Submissions, InsertLocal(o) PROVE [Ledger!Next]_ledger
    BY <2>1, SubmitsToLedger
  <2>2. ASSUME NEW id \in DOMAIN orders, NEW q \in CancelSizes, DoLocalCancel(id, q)
        PROVE  [Ledger!Next]_ledger
    BY <2>2, CancelsInLedger
  <2>3. CASE MatchPair
    BY <2>3, PairsInLedger
  <2>4. CASE StartAuction \/ ReadRow \/ AnnouncePrice \/ DivideWhole \/ DivideInTurn \/ DivideTurn
             \/ StartMatching \/ EndLevel \/ EndMatching \/ CloseAuction \/ Publish
             \/ OnLogon \/ UNCHANGED vars
    BY <2>4 DEF StartAuction, ReadRow, AnnouncePrice, DivideWhole, DivideInTurn, DivideTurn,
                StartMatching, EndLevel, EndMatching, CloseAuction, Publish, OnLogon, vars
  <2> QED BY <2>1, <2>2, <2>3, <2>4 DEF Next, Auction
<1> QED BY <1>1, <1>2, AuctionInvariant, PTL DEF Spec, LedgerSpec, Ledger!Spec
================================================================================
