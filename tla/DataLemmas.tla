------------------------------ MODULE DataLemmas ------------------------------
(***************************************************************************)
(* Lemmas about the operators of the community modules that the models are *)
(* built with: those on sequences, which the order books and the queues    *)
(* are, and SumFunction, with which the money, the shares and the sizes of *)
(* levels are added up.                                                    *)
(***************************************************************************)
EXTENDS SequencesExt, SequenceTheorems, FiniteSetTheorems, WellFoundedInduction, TLAPS

--------------------------------------------------------------------------------
(* Sequences. *)

(***************************************************************************)
(* A set of numbers that is not empty has a least element, the value of    *)
(* Min.                                                                    *)
(***************************************************************************)
LEMMA MinNat ==
    ASSUME NEW S \in SUBSET Nat, S # {}
    PROVE  Min(S) \in S /\ \A y \in S : Min(S) <= y
<1> DEFINE R == {ss \in Nat \X Nat : ss[1] < ss[2]}
<1>1. IsWellFoundedOn(R, Nat)
  BY NatLessThanWellFounded DEF OpToRel
<1>2. \E x \in S : \A y \in S : ~(<<y, x>> \in R)
  <2> HIDE DEF R
  <2> QED BY <1>1, WFMin
<1>3. PICK x \in S : \A y \in S : ~(<<y, x>> \in R)
  BY <1>2
<1>4. ASSUME NEW y \in S
      PROVE  x <= y
  <2>1. y < x => <<y, x>> \in R
    OBVIOUS
  <2> QED BY <2>1, <1>3
<1> QED BY <1>4 DEF Min

(***************************************************************************)
(* Erasing an element keeps the others, in their order.                    *)
(***************************************************************************)
LEMMA RemoveAtProperties ==
    ASSUME NEW S, NEW seq \in Seq(S), NEW i \in 1..Len(seq)
    PROVE  /\ RemoveAt(seq, i) \in Seq(S)
           /\ Len(RemoveAt(seq, i)) = Len(seq) - 1
           /\ \A j \in 1..Len(seq) - 1 :
                 RemoveAt(seq, i)[j] = IF j < i THEN seq[j] ELSE seq[j + 1]
<1> DEFINE a == SubSeq(seq, 1, i - 1)
           b == SubSeq(seq, i + 1, Len(seq))
<1>1. /\ a \in Seq(S) /\ Len(a) = i - 1
      /\ \A j \in 1..i - 1 : a[j] = seq[j]
  BY SubSeqProperties, ElementOfSeq
<1>2. /\ b \in Seq(S) /\ Len(b) = Len(seq) - i
      /\ \A j \in 1..Len(seq) - i : b[j] = seq[j + i]
  BY SubSeqProperties, ElementOfSeq
<1>3. RemoveAt(seq, i) = a \o b
  BY DEF RemoveAt
<1> HIDE DEF a, b
<1>4. /\ a \o b \in Seq(S) /\ Len(a \o b) = Len(a) + Len(b)
      /\ \A j \in 1..Len(a) + Len(b) :
            (a \o b)[j] = IF j <= Len(a) THEN a[j] ELSE b[j - Len(a)]
  BY <1>1, <1>2, ConcatProperties
<1>5. \A j \in 1..Len(seq) - 1 : (a \o b)[j] = IF j < i THEN seq[j] ELSE seq[j + 1]
  BY <1>1, <1>2, <1>4
<1> QED BY <1>1, <1>2, <1>3, <1>4, <1>5

(***************************************************************************)
(* Inserting an element keeps the others, in their order.                  *)
(***************************************************************************)
LEMMA InsertAtProperties ==
    ASSUME NEW S, NEW seq \in Seq(S), NEW i \in 1..Len(seq), NEW e \in S
    PROVE  /\ InsertAt(seq, i, e) \in Seq(S)
           /\ Len(InsertAt(seq, i, e)) = Len(seq) + 1
           /\ \A j \in 1..Len(seq) + 1 :
                 InsertAt(seq, i, e)[j] = IF j < i THEN seq[j]
                                          ELSE IF j = i THEN e ELSE seq[j - 1]
<1> DEFINE a == SubSeq(seq, 1, i - 1)
           b == SubSeq(seq, i, Len(seq))
           c == a \o <<e>>
<1>1. /\ a \in Seq(S) /\ Len(a) = i - 1
      /\ \A j \in 1..i - 1 : a[j] = seq[j]
  BY SubSeqProperties, ElementOfSeq
<1>2. /\ b \in Seq(S) /\ Len(b) = Len(seq) - i + 1
      /\ \A j \in 1..Len(seq) - i + 1 : b[j] = seq[j + i - 1]
  BY SubSeqProperties, ElementOfSeq
<1>3. InsertAt(seq, i, e) = c \o b
  BY DEF InsertAt
<1>4. <<e>> \in Seq(S) /\ Len(<<e>>) = 1 /\ <<e>>[1] = e
  OBVIOUS
<1> HIDE DEF a, b
<1>5. /\ c \in Seq(S) /\ Len(c) = Len(a) + Len(<<e>>)
      /\ \A j \in 1..Len(a) + Len(<<e>>) :
            c[j] = IF j <= Len(a) THEN a[j] ELSE <<e>>[j - Len(a)]
  BY <1>1, <1>4, ConcatProperties
<1>6. Len(c) = i /\ \A j \in 1..i : c[j] = IF j < i THEN seq[j] ELSE e
  BY <1>1, <1>4, <1>5
<1> HIDE DEF c
<1>7. /\ c \o b \in Seq(S) /\ Len(c \o b) = Len(c) + Len(b)
      /\ \A j \in 1..Len(c) + Len(b) :
            (c \o b)[j] = IF j <= Len(c) THEN c[j] ELSE b[j - Len(c)]
  <2>1. b \in Seq(S) /\ c \in Seq(S)
    BY <1>2, <1>5
  <2> QED BY <2>1, ConcatProperties
<1>8. \A j \in 1..Len(seq) + 1 :
         (c \o b)[j] = IF j < i THEN seq[j] ELSE IF j = i THEN e ELSE seq[j - 1]
  BY <1>2, <1>6, <1>7
<1> QED BY <1>2, <1>3, <1>6, <1>7, <1>8

--------------------------------------------------------------------------------
(***************************************************************************)
(* Sums. The community modules define a sum by a recursive function; that  *)
(* it exists for a finite set, and every law of sums, is proved by         *)
(* induction on the subsets of the set.                                    *)
(***************************************************************************)

\* Induction on the natural numbers, for a set of numbers: the least number outside
\* of it would have a predecessor in it.
LEMMA NatInductionBySet ==
    ASSUME NEW P \in SUBSET Nat, 0 \in P, \A n \in P : n + 1 \in P
    PROVE  P = Nat
<1>1. SUFFICES ASSUME P # Nat PROVE FALSE
  OBVIOUS
<1> DEFINE Q == Nat \ P
<1>2. Q \in SUBSET Nat /\ Q # {}
  BY <1>1
<1> DEFINE m == Min(Q)
<1>3. m \in Q /\ \A y \in Q : m <= y
  <2> HIDE DEF Q
  <2> QED BY <1>2, MinNat
<1> HIDE DEF m
<1>4. m # 0 /\ m \in Nat
  BY <1>3
<1>5. m - 1 \in Nat /\ m - 1 \notin Q
  BY <1>3, <1>4
<1>6. m - 1 \in P
  BY <1>5
<1> QED BY <1>3, <1>4, <1>6

\* Induction on the subsets of a finite set: a set of them that holds every set whose
\* subsets with one element less it holds is the set of them all.
LEMMA SubsetInduction ==
    ASSUME NEW U, IsFiniteSet(U), NEW P \in SUBSET SUBSET U,
           \A T \in SUBSET U : (\A x \in T : T \ {x} \in P) => T \in P
    PROVE  P = SUBSET U
<1> DEFINE N == {n \in Nat : \A T \in SUBSET U : Cardinality(T) = n => T \in P}
<1>1. \A T \in SUBSET U : IsFiniteSet(T) /\ Cardinality(T) \in Nat
  BY FS_Subset, FS_CardinalityType
<1>2. 0 \in N
  <2> SUFFICES ASSUME NEW T \in SUBSET U, Cardinality(T) = 0 PROVE T \in P
    OBVIOUS
  <2>1. T = {}
    BY <1>1, FS_EmptySet
  <2> QED BY <2>1
<1>3. ASSUME NEW n \in N PROVE n + 1 \in N
  <2> SUFFICES ASSUME NEW T \in SUBSET U, Cardinality(T) = n + 1 PROVE T \in P
    OBVIOUS
  <2>1. ASSUME NEW x \in T PROVE T \ {x} \in P
    <3>1. n \in Nat /\ IsFiniteSet(T)
      BY <1>1
    <3>2. Cardinality(T \ {x}) = Cardinality(T) - 1
      BY <3>1, FS_RemoveElement
    <3> QED BY <3>1, <3>2
  <2> QED BY <2>1
<1>4. N = Nat
  <2> N \in SUBSET Nat
    OBVIOUS
  <2> HIDE DEF N
  <2> QED BY <1>2, <1>3, NatInductionBySet
<1> QED BY <1>1, <1>4

\* The recursion of MapThenFoldSet when it sums: an element of the set is split off,
\* and g is the sum on the others.
Part(s) == CHOOSE x \in s : TRUE
SumStep(fun, S, g) == [s \in SUBSET S |-> IF s = {} THEN 0 ELSE fun[Part(s)] + g[s \ {Part(s)}]]
Sums(fun, S) == CHOOSE g : g = SumStep(fun, S, g)

\* The sum of a function on a set is the value of the recursive function Sums.
LEMMA SumUnfold ==
    ASSUME NEW fun, NEW S
    PROVE  SumFunctionOnSet(fun, S) = Sums(fun, S)[S]
BY DEF SumFunctionOnSet, FoldFunctionOnSet, MapThenFoldSet, Sums, SumStep, Part

\* The recursive function Sums exists: it obeys its defining equation.
LEMMA SumsExists ==
    ASSUME NEW fun, NEW S, IsFiniteSet(S)
    PROVE  Sums(fun, S) = SumStep(fun, S, Sums(fun, S))
<1> DEFINE Good(g, n) == \A s \in SUBSET S : Cardinality(s) <= n =>
                  g[s] = IF s = {} THEN 0 ELSE fun[Part(s)] + g[s \ {Part(s)}]
           N == {n \in Nat : \E g : Good(g, n)}
<1>1. \A T \in SUBSET S : IsFiniteSet(T) /\ Cardinality(T) \in Nat
  BY FS_Subset, FS_CardinalityType
<1>2. 0 \in N
  <2> DEFINE g == [s \in SUBSET S |-> 0]
  <2>1. \A s \in SUBSET S : Cardinality(s) <= 0 => s = {}
    BY <1>1, FS_EmptySet
  <2>2. Good(g, 0)
    BY <2>1
  <2> QED BY <2>2
<1>3. ASSUME NEW n \in N PROVE n + 1 \in N
  <2>1. PICK g : Good(g, n)
    OBVIOUS
  <2> DEFINE h == SumStep(fun, S, g)
  <2>2. ASSUME NEW s \in SUBSET S, Cardinality(s) <= n + 1, s # {}
        PROVE  h[s \ {Part(s)}] = g[s \ {Part(s)}]
    <3>1. Part(s) \in s
      BY <2>2 DEF Part
    <3> DEFINE t == s \ {Part(s)}
    <3>2. t \in SUBSET S /\ Cardinality(t) <= n
      BY SMTT(60), <1>1, <2>2, <3>1, FS_RemoveElement
    <3>3. h[t] = IF t = {} THEN 0 ELSE fun[Part(t)] + g[t \ {Part(t)}]
      BY <3>2 DEF SumStep
    <3> QED BY <2>1, <3>2, <3>3
  <2>3. \A s \in SUBSET S : h[s] = IF s = {} THEN 0 ELSE fun[Part(s)] + g[s \ {Part(s)}]
    BY DEF SumStep
  <2>4. Good(h, n + 1)
    <3> HIDE DEF h
    <3> QED BY <2>2, <2>3
  <2> HIDE DEF Good
  <2>5. n + 1 \in Nat /\ \E f : Good(f, n + 1)
    BY <2>4
  <2> QED BY <2>5
<1>4. Cardinality(S) \in N
  <2>1. N = Nat
    <3> N \in SUBSET Nat
      OBVIOUS
    <3> HIDE DEF N
    <3> QED BY <1>2, <1>3, NatInductionBySet
  <2> QED BY <1>1, <2>1
<1>5. PICK g : Good(g, Cardinality(S))
  BY <1>4
<1>6. \A s \in SUBSET S : g[s] = IF s = {} THEN 0 ELSE fun[Part(s)] + g[s \ {Part(s)}]
  BY <1>5, FS_Subset
<1> DEFINE h == [s \in SUBSET S |-> g[s]]
<1>7. \A s \in SUBSET S : s # {} => s \ {Part(s)} \in SUBSET S
  OBVIOUS
<1>8. h = SumStep(fun, S, h)
  BY <1>6, <1>7 DEF SumStep
<1>9. \E f : f = SumStep(fun, S, f)
  BY <1>8
<1> QED BY <1>9 DEF Sums

\* The partial sums do not depend on the set they were begun for.
LEMMA SumsOfSubset ==
    ASSUME NEW fun, NEW S, IsFiniteSet(S), NEW T \in SUBSET S
    PROVE  Sums(fun, S)[T] = SumFunctionOnSet(fun, T)
<1> DEFINE g == Sums(fun, S)
           h == Sums(fun, T)
           P == {s \in SUBSET T : g[s] = h[s]}
<1>0. IsFiniteSet(T)
  BY FS_Subset
<1>1. \A s \in SUBSET S : g[s] = IF s = {} THEN 0 ELSE fun[Part(s)] + g[s \ {Part(s)}]
  <2>1. g = SumStep(fun, S, g)
    BY SumsExists
  <2> HIDE DEF g
  <2> QED BY <2>1 DEF SumStep
<1>2. \A s \in SUBSET T : h[s] = IF s = {} THEN 0 ELSE fun[Part(s)] + h[s \ {Part(s)}]
  <2>1. h = SumStep(fun, T, h)
    BY <1>0, SumsExists
  <2> HIDE DEF h
  <2> QED BY <2>1 DEF SumStep
<1> HIDE DEF g, h
<1>3. ASSUME NEW s \in SUBSET T, \A x \in s : s \ {x} \in P
      PROVE  s \in P
  <2>1. s # {} => Part(s) \in s
    BY DEF Part
  <2>2. s # {} => g[s \ {Part(s)}] = h[s \ {Part(s)}]
    BY <1>3, <2>1
  <2>3. s \in SUBSET S
    OBVIOUS
  <2> QED BY <1>1, <1>2, <2>2, <2>3
<1>4. P = SUBSET T
  <2> P \in SUBSET SUBSET T
    OBVIOUS
  <2> HIDE DEF P
  <2> QED BY <1>0, <1>3, SubsetInduction
<1>5. g[T] = h[T]
  BY <1>4
<1> QED BY <1>5, SumUnfold DEF g, h

\* The sum on the empty set is 0.
LEMMA SumEmpty ==
    ASSUME NEW fun PROVE SumFunctionOnSet(fun, {}) = 0
<1>1. IsFiniteSet({})
  BY FS_EmptySet
<1> DEFINE g == Sums(fun, {})
<1>2. g = SumStep(fun, {}, g)
  BY <1>1, SumsExists
<1> HIDE DEF g
<1>3. g[{}] = 0
  BY <1>2 DEF SumStep
<1> QED BY <1>3, SumUnfold DEF g

\* A sum is the value at the element Part chooses and the sum on the others.
LEMMA SumPart ==
    ASSUME NEW fun, NEW S, IsFiniteSet(S), S # {}
    PROVE  SumFunctionOnSet(fun, S) = fun[Part(S)] + SumFunctionOnSet(fun, S \ {Part(S)})
<1> DEFINE g == Sums(fun, S)
<1>1. g = SumStep(fun, S, g)
  BY SumsExists
<1>2. g[S \ {Part(S)}] = SumFunctionOnSet(fun, S \ {Part(S)})
  BY SumsOfSubset
<1>3. SumFunctionOnSet(fun, S) = g[S]
  BY SumUnfold
<1> HIDE DEF g
<1>4. g[S] = fun[Part(S)] + g[S \ {Part(S)}]
  BY <1>1 DEF SumStep
<1> QED BY <1>2, <1>3, <1>4

\* A sum of integers is an integer.
LEMMA SumInt ==
    ASSUME NEW fun, NEW S, IsFiniteSet(S), \A x \in S : fun[x] \in Int
    PROVE  SumFunctionOnSet(fun, S) \in Int
<1> DEFINE P == {s \in SUBSET S : SumFunctionOnSet(fun, s) \in Int}
<1>1. ASSUME NEW s \in SUBSET S, \A x \in s : s \ {x} \in P
      PROVE  SumFunctionOnSet(fun, s) \in Int
  <2>1. CASE s = {}
    BY <2>1, SumEmpty
  <2>2. CASE s # {}
    <3>1. Part(s) \in s /\ IsFiniteSet(s)
      BY <2>2, FS_Subset DEF Part
    <3>2. SumFunctionOnSet(fun, s) = fun[Part(s)] + SumFunctionOnSet(fun, s \ {Part(s)})
      BY <2>2, <3>1, SumPart
    <3>3. SumFunctionOnSet(fun, s \ {Part(s)}) \in Int /\ fun[Part(s)] \in Int
      BY <1>1, <3>1
    <3> QED BY <3>2, <3>3
  <2> QED BY <2>1, <2>2
<1>2. P = SUBSET S
  <2> P \in SUBSET SUBSET S
    OBVIOUS
  <2>1. \A s \in SUBSET S : (\A x \in s : s \ {x} \in P) => s \in P
    BY <1>1
  <2> HIDE DEF P
  <2> QED BY <2>1, SubsetInduction
<1> QED BY <1>2

\* Any element can be the one to be split off: the order of adding does not matter.
LEMMA SumRemove ==
    ASSUME NEW fun, NEW S, IsFiniteSet(S), \A x \in S : fun[x] \in Int, NEW x \in S
    PROVE  SumFunctionOnSet(fun, S) = fun[x] + SumFunctionOnSet(fun, S \ {x})
<1> DEFINE Sum(s) == SumFunctionOnSet(fun, s)
           P == {s \in SUBSET S : \A y \in s : Sum(s) = fun[y] + Sum(s \ {y})}
<1>0. \A s \in SUBSET S : IsFiniteSet(s) /\ Sum(s) \in Int
  BY FS_Subset, SumInt
<1>1. ASSUME NEW s \in SUBSET S, \A y \in s : s \ {y} \in P, NEW y \in s
      PROVE  Sum(s) = fun[y] + Sum(s \ {y})
  <2> DEFINE c == Part(s)
  <2>1. c \in s
    BY DEF Part
  <2>2. Sum(s) = fun[c] + Sum(s \ {c})
    BY <1>0, SumPart
  <2> HIDE DEF c
  <2>3. CASE y # c
    <3>1. Sum(s \ {c}) = fun[y] + Sum((s \ {c}) \ {y})
      BY <1>1, <2>1, <2>3
    <3>2. Sum(s \ {y}) = fun[c] + Sum((s \ {y}) \ {c})
      BY <1>1, <2>1, <2>3
    <3>3. Sum((s \ {c}) \ {y}) = Sum((s \ {y}) \ {c})
      <4>1. (s \ {c}) \ {y} = (s \ {y}) \ {c}
        OBVIOUS
      <4> QED BY <4>1
    <3>4. /\ Sum((s \ {c}) \ {y}) \in Int /\ fun[y] \in Int /\ fun[c] \in Int
      BY <1>0, <2>1
    <3> HIDE DEF Sum
    <3> QED BY <2>2, <3>1, <3>2, <3>3, <3>4
  <2> QED BY <2>2, <2>3
<1>2. P = SUBSET S
  <2> P \in SUBSET SUBSET S
    OBVIOUS
  <2>1. \A s \in SUBSET S : (\A y \in s : s \ {y} \in P) => s \in P
    BY <1>1
  <2> HIDE DEF P
  <2> QED BY <2>1, SubsetInduction
<1> QED BY <1>2

\* A sum on a set with one element more.
LEMMA SumAdd ==
    ASSUME NEW fun, NEW S, IsFiniteSet(S), NEW x, x \notin S,
           \A y \in S \cup {x} : fun[y] \in Int
    PROVE  SumFunctionOnSet(fun, S \cup {x}) = fun[x] + SumFunctionOnSet(fun, S)
<1>1. IsFiniteSet(S \cup {x}) /\ (S \cup {x}) \ {x} = S
  BY FS_AddElement
<1>2. SumFunctionOnSet(fun, S \cup {x}) = fun[x] + SumFunctionOnSet(fun, (S \cup {x}) \ {x})
  BY <1>1, SumRemove
<1> QED BY <1>1, <1>2

\* Functions that agree on a set have the same sum on it.
LEMMA SumSame ==
    ASSUME NEW f, NEW g, NEW S, IsFiniteSet(S), \A x \in S : f[x] = g[x]
    PROVE  SumFunctionOnSet(f, S) = SumFunctionOnSet(g, S)
<1> DEFINE P == {s \in SUBSET S : SumFunctionOnSet(f, s) = SumFunctionOnSet(g, s)}
<1>1. ASSUME NEW s \in SUBSET S, \A x \in s : s \ {x} \in P
      PROVE  SumFunctionOnSet(f, s) = SumFunctionOnSet(g, s)
  <2>1. CASE s = {}
    BY <2>1, SumEmpty
  <2>2. CASE s # {}
    <3>1. Part(s) \in s /\ IsFiniteSet(s)
      BY <2>2, FS_Subset DEF Part
    <3>2. /\ SumFunctionOnSet(f, s) = f[Part(s)] + SumFunctionOnSet(f, s \ {Part(s)})
          /\ SumFunctionOnSet(g, s) = g[Part(s)] + SumFunctionOnSet(g, s \ {Part(s)})
      BY <2>2, <3>1, SumPart
    <3>3. SumFunctionOnSet(f, s \ {Part(s)}) = SumFunctionOnSet(g, s \ {Part(s)}) /\ f[Part(s)] = g[Part(s)]
      BY <1>1, <3>1
    <3> QED BY <3>2, <3>3
  <2> QED BY <2>1, <2>2
<1>2. P = SUBSET S
  <2> P \in SUBSET SUBSET S
    OBVIOUS
  <2>1. \A s \in SUBSET S : (\A x \in s : s \ {x} \in P) => s \in P
    BY <1>1
  <2> HIDE DEF P
  <2> QED BY <2>1, SubsetInduction
<1> QED BY <1>2

\* A sum stays the same when its indices are renamed one to one.
LEMMA SumRenamed ==
    ASSUME NEW f, NEW g, NEW S, IsFiniteSet(S), NEW T, NEW h \in Bijection(S, T),
           \A x \in S : f[x] \in Int /\ f[x] = g[h[x]]
    PROVE  SumFunctionOnSet(f, S) = SumFunctionOnSet(g, T)
<1> DEFINE Image(s) == {h[x] : x \in s}
           P == {s \in SUBSET S : SumFunctionOnSet(f, s) = SumFunctionOnSet(g, Image(s))}
<1>1. h \in [S -> T] /\ (\A x, y \in S : h[x] = h[y] => x = y) /\ \A y \in T : \E x \in S : h[x] = y
  BY DEF Bijection, Injection, Surjection, IsInjective
<1>2. Image(S) = T /\ IsFiniteSet(T)
  <2>1. Image(S) = T
    BY <1>1
  <2>2. ExistsBijection(S, T)
    BY DEF ExistsBijection
  <2> QED BY <2>1, <2>2, FS_Bijection
<1>3. ASSUME NEW s \in SUBSET S, \A x \in s : s \ {x} \in P
      PROVE  SumFunctionOnSet(f, s) = SumFunctionOnSet(g, Image(s))
  <2>1. CASE s = {}
    <3>1. Image(s) = {}
      BY <2>1
    <3> QED BY <2>1, <3>1, SumEmpty
  <2>2. CASE s # {}
    <3> PICK c \in s : TRUE
      BY <2>2
    <3>1. IsFiniteSet(s) /\ IsFiniteSet(Image(s))
      <4>1. Image(s) \in SUBSET T
        BY <1>1
      <4> QED BY <1>2, <4>1, FS_Subset
    <3>2. /\ SumFunctionOnSet(f, s) = f[c] + SumFunctionOnSet(f, s \ {c})
      BY <3>1, SumRemove
    <3>3. Image(s \ {c}) = Image(s) \ {h[c]} /\ h[c] \in Image(s)
      BY <1>1
    <3>4. \A y \in Image(s) : g[y] \in Int
      OBVIOUS
    <3>5. SumFunctionOnSet(g, Image(s)) = g[h[c]] + SumFunctionOnSet(g, Image(s) \ {h[c]})
      <4> HIDE DEF Image
      <4> QED BY <3>1, <3>3, <3>4, SumRemove
    <3>6. SumFunctionOnSet(f, s \ {c}) = SumFunctionOnSet(g, Image(s \ {c}))
      BY <1>3
    <3>7. f[c] = g[h[c]]
      OBVIOUS
    <3> HIDE DEF Image
    <3> QED BY <3>2, <3>3, <3>5, <3>6, <3>7
  <2> QED BY <2>1, <2>2
<1>4. P = SUBSET S
  <2> P \in SUBSET SUBSET S
    OBVIOUS
  <2>1. \A s \in SUBSET S : (\A x \in s : s \ {x} \in P) => s \in P
    BY <1>3
  <2> HIDE DEF P
  <2> QED BY <2>1, SubsetInduction
<1>5. SumFunctionOnSet(f, S) = SumFunctionOnSet(g, Image(S))
  BY <1>4
<1> QED BY <1>2, <1>5

\* The sum of an integer function is an integer.
LEMMA SumType ==
    ASSUME NEW D, IsFiniteSet(D), NEW f \in [D -> Int]
    PROVE  SumFunction(f) \in Int
BY SumInt DEF SumFunction

\* A sum of numbers that are not negative is not negative, and none of them exceeds it.
LEMMA SumNat ==
    ASSUME NEW D, IsFiniteSet(D), NEW f \in [D -> Int], \A x \in D : f[x] >= 0
    PROVE  /\ SumFunction(f) \in Nat
           /\ \A x \in D : f[x] <= SumFunction(f)
<1> DEFINE P == {s \in SUBSET D : SumFunctionOnSet(f, s) \in Nat}
<1>1. ASSUME NEW s \in SUBSET D, \A x \in s : s \ {x} \in P
      PROVE  SumFunctionOnSet(f, s) \in Nat
  <2>1. CASE s = {}
    BY <2>1, SumEmpty
  <2>2. CASE s # {}
    <3> PICK c \in s : TRUE
      BY <2>2
    <3>1. IsFiniteSet(s) /\ \A x \in s : f[x] \in Int
      BY FS_Subset
    <3>2. SumFunctionOnSet(f, s) = f[c] + SumFunctionOnSet(f, s \ {c})
      BY <3>1, SumRemove
    <3>3. SumFunctionOnSet(f, s \ {c}) \in Nat /\ f[c] \in Nat
      BY <1>1
    <3> QED BY <3>2, <3>3
  <2> QED BY <2>1, <2>2
<1>2. P = SUBSET D
  <2> P \in SUBSET SUBSET D
    OBVIOUS
  <2>1. \A s \in SUBSET D : (\A x \in s : s \ {x} \in P) => s \in P
    BY <1>1
  <2> HIDE DEF P
  <2> QED BY <2>1, SubsetInduction
<1>3. \A s \in SUBSET D : SumFunctionOnSet(f, s) \in Nat
  BY <1>2
<1>4. ASSUME NEW x \in D PROVE f[x] <= SumFunctionOnSet(f, D)
  <2>1. SumFunctionOnSet(f, D) = f[x] + SumFunctionOnSet(f, D \ {x})
    BY SumRemove
  <2>2. SumFunctionOnSet(f, D \ {x}) \in Nat
    BY <1>3
  <2> QED BY <2>1, <2>2
<1> QED BY <1>3, <1>4 DEF SumFunction

\* A sum of zeros is 0.
LEMMA SumZero ==
    ASSUME NEW D, IsFiniteSet(D), NEW f \in [D -> Int], \A x \in D : f[x] = 0
    PROVE  SumFunction(f) = 0
<1> DEFINE P == {s \in SUBSET D : SumFunctionOnSet(f, s) = 0}
<1>1. ASSUME NEW s \in SUBSET D, \A x \in s : s \ {x} \in P
      PROVE  SumFunctionOnSet(f, s) = 0
  <2>1. CASE s = {}
    BY <2>1, SumEmpty
  <2>2. CASE s # {}
    <3> PICK c \in s : TRUE
      BY <2>2
    <3>1. IsFiniteSet(s) /\ \A x \in s : f[x] \in Int
      BY FS_Subset
    <3>2. SumFunctionOnSet(f, s) = f[c] + SumFunctionOnSet(f, s \ {c})
      BY <3>1, SumRemove
    <3>3. SumFunctionOnSet(f, s \ {c}) = 0 /\ f[c] = 0
      BY <1>1
    <3> QED BY <3>2, <3>3
  <2> QED BY <2>1, <2>2
<1>2. P = SUBSET D
  <2> P \in SUBSET SUBSET D
    OBVIOUS
  <2>1. \A s \in SUBSET D : (\A x \in s : s \ {x} \in P) => s \in P
    BY <1>1
  <2> HIDE DEF P
  <2> QED BY <2>1, SubsetInduction
<1> QED BY <1>2 DEF SumFunction

\* Functions that differ in one place only have sums that differ by their values there:
\* an entry of a map is added, changed or erased.
LEMMA SumDiffer ==
    ASSUME NEW D, IsFiniteSet(D), NEW f \in [D -> Int],
           NEW E, NEW g \in [E -> Int], NEW x, D \ {x} = E \ {x},
           \A y \in D \ {x} : f[y] = g[y]
    PROVE  /\ SumFunction(f) \in Int /\ SumFunction(g) \in Int
           /\ SumFunction(g) - (IF x \in E THEN g[x] ELSE 0)
                = SumFunction(f) - (IF x \in D THEN f[x] ELSE 0)
<1> DEFINE R == D \ {x}
<1>1. IsFiniteSet(R) /\ SumFunctionOnSet(f, R) \in Int
  BY FS_Subset, SumInt
<1>2. SumFunctionOnSet(f, R) = SumFunctionOnSet(g, R)
  BY <1>1, SumSame
<1>3. SumFunction(f) = (IF x \in D THEN f[x] ELSE 0) + SumFunctionOnSet(f, R)
  <2>1. CASE x \in D
    BY <2>1, SumRemove DEF SumFunction
  <2>2. CASE x \notin D
    <3>1. R = D
      BY <2>2
    <3>2. SumFunction(f) = SumFunctionOnSet(f, R)
      BY <3>1 DEF SumFunction
    <3> HIDE DEF R
    <3> QED BY <1>1, <2>2, <3>2
  <2> QED BY <2>1, <2>2
<1>4. SumFunction(g) = (IF x \in E THEN g[x] ELSE 0) + SumFunctionOnSet(g, R)
  <2>1. CASE x \in E
    <3>1. E = R \cup {x} /\ x \notin R
      BY <2>1
    <3>2. SumFunctionOnSet(g, R \cup {x}) = g[x] + SumFunctionOnSet(g, R)
      BY <1>1, <3>1, SumAdd
    <3> QED BY <2>1, <3>1, <3>2 DEF SumFunction
  <2>2. CASE x \notin E
    <3>1. R = E
      BY <2>2
    <3>2. SumFunction(g) = SumFunctionOnSet(g, R)
      BY <3>1 DEF SumFunction
    <3> HIDE DEF R
    <3> QED BY <1>1, <1>2, <2>2, <3>2
  <2> QED BY <2>1, <2>2
<1>5. (x \in D => f[x] \in Int) /\ (x \in E => g[x] \in Int)
  OBVIOUS
<1> HIDE DEF R
<1> QED BY <1>1, <1>2, <1>3, <1>4, <1>5

\* The sum of a sequence of numbers with one more at its end.
LEMMA SumAppend ==
    ASSUME NEW n \in Nat, NEW f \in [1..n -> Int], NEW g \in [1..(n + 1) -> Int],
           \A i \in 1..n : g[i] = f[i]
    PROVE  SumFunction(g) = SumFunction(f) + g[n + 1]
<1>1. IsFiniteSet(1..n)
  BY FS_Interval
<1>2. SumFunctionOnSet(f, 1..n) = SumFunctionOnSet(g, 1..n) /\ SumFunctionOnSet(g, 1..n) \in Int
  BY <1>1, SumSame, SumInt
<1>3. 1..(n + 1) = (1..n) \cup {n + 1} /\ n + 1 \notin 1..n
  OBVIOUS
<1>4. SumFunctionOnSet(g, (1..n) \cup {n + 1}) = g[n + 1] + SumFunctionOnSet(g, 1..n)
  BY <1>1, <1>3, SumAdd
<1>5. g[n + 1] \in Int
  BY <1>3
<1>6. SumFunction(f) = SumFunctionOnSet(f, 1..n)
  BY DEF SumFunction
<1>7. SumFunction(g) = SumFunctionOnSet(g, (1..n) \cup {n + 1})
  BY <1>3 DEF SumFunction
<1> QED BY <1>2, <1>4, <1>5, <1>6, <1>7

\* The sum of a sequence of numbers is its first and the sum of its tail.
LEMMA SumTail ==
    ASSUME NEW n \in Nat, NEW f \in [1..(n + 1) -> Int], NEW g \in [1..n -> Int],
           \A i \in 1..n : g[i] = f[i + 1]
    PROVE  SumFunction(f) = f[1] + SumFunction(g) /\ SumFunction(g) \in Int
<1> DEFINE R == 2..(n + 1)
           h == [i \in 1..n |-> i + 1]
<1>1. IsFiniteSet(1..n) /\ IsFiniteSet(R)
  BY FS_Interval
<1>2. h \in Bijection(1..n, R)
  <2>1. h \in [1..n -> R]
    OBVIOUS
  <2>2. \A i, j \in 1..n : h[i] = h[j] => i = j
    OBVIOUS
  <2>3. \A j \in R : j - 1 \in 1..n /\ h[j - 1] = j
    OBVIOUS
  <2> HIDE DEF R, h
  <2> QED BY <2>1, <2>2, <2>3 DEF Bijection, Injection, Surjection, IsInjective
<1>3. \A i \in 1..n : g[i] \in Int /\ g[i] = f[h[i]]
  OBVIOUS
<1>4. SumFunctionOnSet(g, 1..n) = SumFunctionOnSet(f, R)
  <2> DEFINE D == 1..n
  <2>1. IsFiniteSet(D) /\ h \in Bijection(D, R) /\ \A i \in D : g[i] \in Int /\ g[i] = f[h[i]]
    BY <1>1, <1>2, <1>3
  <2> HIDE DEF D, R, h
  <2>2. SumFunctionOnSet(g, D) = SumFunctionOnSet(f, R)
    BY SMTT(60), <2>1, SumRenamed
  <2> QED BY <2>2 DEF D
<1>5. 1..(n + 1) = R \cup {1} /\ 1 \notin R /\ \A i \in R \cup {1} : f[i] \in Int
  OBVIOUS
<1>6. SumFunctionOnSet(f, R \cup {1}) = f[1] + SumFunctionOnSet(f, R)
  <2> HIDE DEF R
  <2> QED BY <1>1, <1>5, SumAdd
<1>7. SumFunction(f) = SumFunctionOnSet(f, R \cup {1})
  BY <1>5 DEF SumFunction
<1>8. SumFunction(g) = SumFunctionOnSet(g, 1..n)
  BY DEF SumFunction
<1>9. SumFunction(g) \in Int
  BY <1>1, SumType
<1> QED BY <1>4, <1>6, <1>7, <1>8, <1>9

\* What a queue adds up to when an element is put at its end.
LEMMA SumOfAppended ==
    ASSUME NEW S, NEW q \in Seq(S), NEW r \in S, NEW v \in [S -> Int]
    PROVE  SumFunction([k \in DOMAIN Append(q, r) |-> v[Append(q, r)[k]]])
             = SumFunction([k \in DOMAIN q |-> v[q[k]]]) + v[r]
<1> DEFINE n == Len(q)
           f == [k \in DOMAIN q |-> v[q[k]]]
           g == [k \in DOMAIN Append(q, r) |-> v[Append(q, r)[k]]]
<1>1. n \in Nat /\ f \in [1..n -> Int] /\ g \in [1..(n + 1) -> Int]
  OBVIOUS
<1>2. g[n + 1] = v[r] /\ \A k \in 1..n : g[k] = f[k]
  OBVIOUS
<1> HIDE DEF n, f, g
<1> QED BY <1>1, <1>2, SumAppend DEF f, g

\* What a queue adds up to when its first element is taken.
LEMMA SumOfTail ==
    ASSUME NEW S, NEW q \in Seq(S), q # <<>>, NEW v \in [S -> Int]
    PROVE  /\ SumFunction([k \in DOMAIN q |-> v[q[k]]])
                = v[q[1]] + SumFunction([k \in DOMAIN Tail(q) |-> v[Tail(q)[k]]])
           /\ SumFunction([k \in DOMAIN Tail(q) |-> v[Tail(q)[k]]]) \in Int
<1> DEFINE n == Len(q) - 1
           f == [k \in DOMAIN q |-> v[q[k]]]
           g == [k \in DOMAIN Tail(q) |-> v[Tail(q)[k]]]
<1>1. n \in Nat /\ f \in [1..(n + 1) -> Int] /\ g \in [1..n -> Int]
  OBVIOUS
<1>2. f[1] = v[q[1]] /\ \A k \in 1..n : g[k] = f[k + 1]
  OBVIOUS
<1> HIDE DEF n, f, g
<1> QED BY <1>1, <1>2, SumTail DEF f, g

==================================================================================
