-------------------------- MODULE CollectionLemmas --------------------------
(***************************************************************************)
(* What Append, FlattenSeq and SumFunctionOnSet of the libraries compute,  *)
(* for the proofs about records that are only appended, about what they    *)
(* tell when put end to end, and about books that are added up.            *)
(***************************************************************************)
EXTENDS SequencesExt, FiniteSetTheorems, TLAPS

-----------------------------------------------------------------------------
(* Sequences.  A sequence is said to be one of what it holds,              *)
(* s \in Seq(Range(s)): the set of all possible records is never needed.   *)

LEMMA Appended ==
  ASSUME NEW s, s \in Seq(Range(s)), NEW r
  PROVE  /\ Append(s, r) \in Seq(Range(Append(s, r)))
         /\ Range(Append(s, r)) = Range(s) \cup {r}
         /\ DOMAIN s = 1..Len(s) /\ Len(s) \in Nat
         /\ DOMAIN Append(s, r) = 1..(Len(s) + 1) /\ Len(Append(s, r)) = Len(s) + 1
         /\ Append(s, r)[Len(s) + 1] = r
         /\ \A i \in 1..Len(s) : Append(s, r)[i] = s[i]
<1> DEFINE n == Len(s)
           a == Append(s, r)
<1>1. s \in Seq(Range(s) \cup {r}) /\ n \in Nat /\ DOMAIN s = 1..n
  OBVIOUS
<1>2. /\ a \in Seq(Range(s) \cup {r}) /\ DOMAIN a = 1..(n + 1) /\ Len(a) = n + 1 /\ a[n + 1] = r
      /\ \A i \in 1..n : a[i] = s[i]
  BY <1>1
<1>3. Range(a) = Range(s) \cup {r}
  BY <1>1, <1>2 DEF Range
<1> QED
  BY <1>1, <1>2, <1>3

LEMMA EmptyListed == <<>> \in Seq(Range(<<>>)) /\ Range(<<>>) = {} /\ Len(<<>>) = 0
<1>1. DOMAIN <<>> = {} /\ Len(<<>>) = 0
  OBVIOUS
<1>2. Range(<<>>) = {}
  BY <1>1 DEF Range
<1> QED
  BY <1>1, <1>2

(* Counting up to N: a set that holds 0 and the next of each holds all.    *)
LEMMA Counted ==
  ASSUME NEW N \in Nat, NEW Q, 0 \in Q, \A n \in 0..(N - 1) : n \in Q => n + 1 \in Q
  PROVE  0..N \subseteq Q
<1> SUFFICES ASSUME ~(0..N \subseteq Q) PROVE FALSE
  OBVIOUS
<1> DEFINE Bad == (0..N) \ Q
           R == OpToRel(<, Nat)
<1>1. Bad \subseteq Nat /\ Bad # {}
  OBVIOUS
<1>2. \A m, n \in Nat : m < n => <<m, n>> \in R
  BY DEF OpToRel
<1>3. IsWellFoundedOn(R, Nat)
  BY NatLessThanWellFounded
<1> HIDE DEF R, Bad
<1>4. PICK n \in Bad : \A m \in Bad : ~ <<m, n>> \in R
  BY <1>1, <1>3, WFMin
<1>5. n \in 0..N /\ n \notin Q /\ n # 0
  BY <1>4 DEF Bad
<1>6. n - 1 \in 0..(N - 1) /\ n - 1 + 1 = n /\ n - 1 < n
  BY <1>5
<1>7. n - 1 \in Bad
  BY <1>5, <1>6 DEF Bad
<1>8. <<n - 1, n>> \in R
  <2>1. n - 1 \in Nat /\ n \in Nat
    BY <1>5, <1>6
  <2> QED
    BY <1>2, <1>6, <2>1
<1> QED
  BY <1>4, <1>7, <1>8

(* Whoever holds what the first sequences make when put end to end holds   *)
(* what FlattenSeq makes of all of them.                                   *)
LEMMA Flattened ==
  ASSUME NEW seqs, Len(seqs) \in Nat \ {0}, NEW g,
         g = [i \in 1..Len(seqs) |-> IF i = 1 THEN seqs[i] ELSE g[i - 1] \o seqs[i]]
  PROVE  FlattenSeq(seqs) = g[Len(seqs)]
<1> DEFINE n == Len(seqs)
           Step(h) == [i \in 1..n |-> IF i = 1 THEN seqs[i] ELSE h[i - 1] \o seqs[i]]
           h == CHOOSE f : f = Step(f)
<1>1. FlattenSeq(seqs) = h[n]
  BY DEF FlattenSeq
<1>2. h = Step(h)
  BY Zenon
<1> HIDE DEF h
<1> DEFINE Q == {k \in 0..n : k > 0 => h[k] = g[k]}
<1>3. ASSUME NEW k \in 0..(n - 1), k \in Q PROVE k + 1 \in Q
  <2>1. k + 1 \in 1..n /\ (k + 1) - 1 = k
    OBVIOUS
  <2>2. /\ h[k + 1] = IF k + 1 = 1 THEN seqs[k + 1] ELSE h[k] \o seqs[k + 1]
        /\ g[k + 1] = IF k + 1 = 1 THEN seqs[k + 1] ELSE g[k] \o seqs[k + 1]
    BY <1>2, <2>1
  <2>3. k + 1 = 1 \/ h[k] = g[k]
    BY <1>3
  <2> QED
    BY <2>1, <2>2, <2>3
<1>4. 0 \in Q
  OBVIOUS
<1>5. n \in Q
  <2> HIDE DEF Q
  <2>1. 0..n \subseteq Q
    BY <1>3, <1>4, Counted
  <2> QED
    BY <2>1
<1> QED
  BY <1>1, <1>5

-----------------------------------------------------------------------------
(* Sums                                                                    *)

(* Induction on the subsets of a finite set, over the set Q of those that  *)
(* have the property.                                                      *)
LEMMA SubsetInduction ==
  ASSUME NEW S, IsFiniteSet(S), NEW Q, {} \in Q,
         \A T \in SUBSET S : T # {} /\ (\A x \in T : T \ {x} \in Q) => T \in Q
  PROVE  SUBSET S \subseteq Q
<1> SUFFICES ASSUME ~(SUBSET S \subseteq Q) PROVE FALSE
  OBVIOUS
<1> DEFINE Bad == (SUBSET S) \ Q
           R == StrictSubsetOrdering(S)
<1>1. IsWellFoundedOn(StrictSubsetOrdering(S), SUBSET S)
  <2>1. FiniteSubsetsOf(S) = SUBSET S
    BY FS_FiniteSubsetsOfFinite
  <2>2. IsWellFoundedOn(StrictSubsetOrdering(S), FiniteSubsetsOf(S))
    BY FS_StrictSubsetOrderingWellFounded
  <2> QED BY <2>1, <2>2
<1>2. Bad \subseteq SUBSET S /\ Bad # {}
  OBVIOUS
<1> HIDE DEF R, Bad
<1>3. PICK T \in Bad : \A U \in Bad : ~ <<U, T>> \in R
  BY <1>1, <1>2, WFMin DEF R
<1>4. T \in SUBSET S /\ T \notin Q /\ T # {}
  BY <1>3 DEF Bad
<1>5. PICK x \in T : T \ {x} \notin Q
  BY <1>4
<1>6. T \ {x} \in SUBSET S /\ T \ {x} \notin Q
  BY <1>4, <1>5
<1>7. <<T \ {x}, T>> \in R
  BY <1>4, <1>5, <1>6 DEF R, StrictSubsetOrdering
<1> QED
  BY <1>3, <1>6, <1>7 DEF Bad

(* g holds the sum of f over every subset of S.                            *)
Sums(g, f, S) ==
  /\ g \in [SUBSET S -> Int] /\ g[{}] = 0
  /\ \A T \in SUBSET S : \A x \in T : g[T] = f[x] + g[T \ {x}]

LEMMA SumsExist ==
  ASSUME NEW S, IsFiniteSet(S), NEW f \in [S -> Int]
  PROVE  \E g : Sums(g, f, S)
<1> DEFINE Q == {T \in SUBSET S : \E g : Sums(g, f, T)}
<1>1. {} \in Q
  <2> DEFINE g == [T \in SUBSET {} |-> 0]
  <2>1. Sums(g, f, {})
    BY DEF Sums
  <2> QED BY <2>1
<1>2. ASSUME NEW T \in SUBSET S, T # {}, \A x \in T : T \ {x} \in Q PROVE T \in Q
  <2> PICK x \in T : TRUE
    BY <1>2
  <2>1. PICK h : Sums(h, f, T \ {x})
    BY <1>2
  <2> DEFINE g == [U \in SUBSET T |-> IF x \in U THEN f[x] + h[U \ {x}] ELSE h[U]]
  <2>2. g \in [SUBSET T -> Int]
    <3>1. ASSUME NEW U \in SUBSET T PROVE (IF x \in U THEN f[x] + h[U \ {x}] ELSE h[U]) \in Int
      <4>1. f[x] \in Int
        OBVIOUS
      <4>2. CASE x \in U
        <5>1. U \ {x} \in SUBSET (T \ {x})
          OBVIOUS
        <5>2. h[U \ {x}] \in Int
          BY <2>1, <5>1 DEF Sums
        <5> QED BY <4>1, <4>2, <5>2
      <4>3. CASE x \notin U
        <5>1. U \in SUBSET (T \ {x})
          BY <4>3
        <5> QED BY <2>1, <4>3, <5>1 DEF Sums
      <4> QED BY <4>2, <4>3
    <3> QED BY <3>1
  <2>3. g[{}] = 0
    BY <2>1 DEF Sums
  <2>4. ASSUME NEW U \in SUBSET T, NEW y \in U PROVE g[U] = f[y] + g[U \ {y}]
    <3>1. f[x] \in Int /\ f[y] \in Int /\ U \ {y} \in SUBSET T
      OBVIOUS
    <3>2. CASE x \notin U
      <4>1. U \in SUBSET (T \ {x}) /\ x \notin U \ {y}
        BY <3>2
      <4> QED BY <2>1, <3>1, <3>2, <4>1 DEF Sums
    <3>3. CASE x \in U /\ y = x
      <4> QED BY <3>1, <3>3
    <3>4. CASE x \in U /\ y # x
      <4> DEFINE V == U \ {x}
      <4>1. V \in SUBSET (T \ {x}) /\ y \in V /\ V \ {y} = (U \ {y}) \ {x} /\ V \ {y} \in SUBSET (T \ {x})
        BY <3>4
      <4>2. h[V] = f[y] + h[V \ {y}] /\ h[V \ {y}] \in Int
        BY <2>1, <4>1 DEF Sums
      <4>3. g[U] = f[x] + h[V] /\ g[U \ {y}] = f[x] + h[V \ {y}]
        BY <3>1, <3>4, <4>1
      <4> HIDE DEF V, g
      <4> QED BY <3>1, <4>2, <4>3
    <3> QED BY <3>2, <3>3, <3>4
  <2>5. Sums(g, f, T)
    <3> HIDE DEF g
    <3> QED BY <2>2, <2>3, <2>4 DEF Sums
  <2> QED BY <2>5
<1>3. SUBSET S \subseteq Q
  <2> HIDE DEF Q
  <2> QED BY <1>1, <1>2, SubsetInduction
<1> QED BY <1>3

(* Whoever holds the sums over the subsets holds what SumFunctionOnSet is. *)
LEMMA SumIs ==
  ASSUME NEW S, IsFiniteSet(S), NEW f, NEW g, Sums(g, f, S)
  PROVE  SumFunctionOnSet(f, S) = g[S]
<1> DEFINE Step(h) == [s \in SUBSET S |-> IF s = {} THEN 0
                          ELSE f[CHOOSE x \in s : TRUE] + h[s \ {CHOOSE x \in s : TRUE}]]
           h == CHOOSE i : i = Step(i)
<1>1. SumFunctionOnSet(f, S) = h[S]
  BY DEF SumFunctionOnSet, FoldFunctionOnSet, MapThenFoldSet
<1>2. ASSUME NEW s \in SUBSET S, s # {} PROVE (CHOOSE x \in s : TRUE) \in s
  BY <1>2
<1>3. g = Step(g)
  <2>1. ASSUME NEW s \in SUBSET S PROVE g[s] = Step(g)[s]
    BY <1>2 DEF Sums
  <2>2. g = [s \in SUBSET S |-> g[s]]
    BY DEF Sums
  <2> QED BY <2>1, <2>2
<1> HIDE DEF Step
<1>4. h = Step(h)
  BY <1>3
<1> DEFINE Q == {T \in SUBSET S : h[T] = g[T]}
<1> HIDE DEF h
<1>5. {} \in Q
  BY <1>4 DEF Sums, Step
<1>6. ASSUME NEW T \in SUBSET S, T # {}, \A x \in T : T \ {x} \in Q PROVE T \in Q
  <2> DEFINE x == CHOOSE z \in T : TRUE
  <2>1. x \in T /\ T \ {x} \in SUBSET S
    BY <1>2, <1>6
  <2>2. h[T] = f[x] + h[T \ {x}]
    BY <1>4, <1>6 DEF Step
  <2>3. g[T] = f[x] + g[T \ {x}]
    BY <2>1 DEF Sums
  <2> HIDE DEF x
  <2>4. h[T \ {x}] = g[T \ {x}]
    BY <1>6, <2>1
  <2> QED BY <2>2, <2>3, <2>4
<1>7. SUBSET S \subseteq Q
  <2> HIDE DEF Q
  <2> QED BY <1>5, <1>6, SubsetInduction
<1>8. S \in Q
  BY <1>7
<1> QED BY <1>1, <1>8

(* The sum of integers is one, and an element may be taken out of it.      *)
LEMMA SumTaken ==
  ASSUME NEW S, IsFiniteSet(S), NEW f \in [S -> Int], NEW T \in SUBSET S
  PROVE  /\ SumFunctionOnSet(f, T) \in Int
         /\ T = {} => SumFunctionOnSet(f, T) = 0
         /\ \A x \in T : SumFunctionOnSet(f, T) = f[x] + SumFunctionOnSet(f, T \ {x})
<1>1. PICK g : Sums(g, f, S)
  BY SumsExist
<1>2. ASSUME NEW U \in SUBSET S PROVE SumFunctionOnSet(f, U) = g[U]
  <2> DEFINE gU == [V \in SUBSET U |-> g[V]]
  <2>1. Sums(gU, f, U)
    <3>1. gU \in [SUBSET U -> Int] /\ gU[{}] = 0
      BY <1>1 DEF Sums
    <3>2. ASSUME NEW V \in SUBSET U, NEW x \in V PROVE gU[V] = f[x] + gU[V \ {x}]
      BY <1>1 DEF Sums
    <3> HIDE DEF gU
    <3> QED BY <3>1, <3>2 DEF Sums
  <2>2. IsFiniteSet(U) /\ gU[U] = g[U]
    BY FS_Subset
  <2> HIDE DEF gU
  <2> QED BY <2>1, <2>2, SumIs
<1>3. ASSUME NEW x \in T PROVE SumFunctionOnSet(f, T) = f[x] + SumFunctionOnSet(f, T \ {x})
  <2>1. g[T] = f[x] + g[T \ {x}]
    BY <1>1 DEF Sums
  <2>2. T \ {x} \in SUBSET S
    OBVIOUS
  <2> QED BY <1>2, <2>1, <2>2
<1> QED BY <1>1, <1>2, <1>3 DEF Sums

(* Only the values on the summed elements count.                           *)
LEMMA SumSame ==
  ASSUME NEW S, IsFiniteSet(S), NEW f \in [S -> Int], NEW A, NEW h \in [A -> Int],
         NEW T \in SUBSET S, T \subseteq A, \A x \in T : f[x] = h[x]
  PROVE  SumFunctionOnSet(f, T) = SumFunctionOnSet(h, T)
<1> DEFINE fT == [x \in T |-> f[x]]
<1>1. IsFiniteSet(T)
  BY FS_Subset
<1>2. fT \in [T -> Int]
  OBVIOUS
<1> HIDE DEF fT
<1>3. PICK g : Sums(g, fT, T)
  BY <1>1, <1>2, SumsExist
<1>4. Sums(g, f, T) /\ Sums(g, h, T)
  <2>1. ASSUME NEW U \in SUBSET T, NEW x \in U
        PROVE  g[U] = f[x] + g[U \ {x}] /\ g[U] = h[x] + g[U \ {x}]
    BY <1>3 DEF Sums, fT
  <2> QED BY <1>3, <2>1 DEF Sums
<1> QED BY <1>1, <1>4, SumIs

(* What a change of one element makes of a sum.                            *)
LEMMA SumChanged ==
  ASSUME NEW S, IsFiniteSet(S), NEW f \in [S -> Int], NEW h \in [S -> Int],
         NEW T \in SUBSET S, NEW x \in T, \A y \in T \ {x} : h[y] = f[y]
  PROVE  SumFunctionOnSet(h, T) = SumFunctionOnSet(f, T) - f[x] + h[x]
<1>1. T \ {x} \in SUBSET S /\ f[x] \in Int /\ h[x] \in Int
  OBVIOUS
<1>2. SumFunctionOnSet(f, T \ {x}) \in Int
  BY <1>1, SumTaken
<1>3. SumFunctionOnSet(h, T \ {x}) = SumFunctionOnSet(f, T \ {x})
  BY <1>1, SumSame
<1>4. /\ SumFunctionOnSet(f, T) = f[x] + SumFunctionOnSet(f, T \ {x})
      /\ SumFunctionOnSet(h, T) = h[x] + SumFunctionOnSet(h, T \ {x})
  BY SumTaken
<1> QED BY <1>1, <1>2, <1>3, <1>4

(* A sum of zeros is zero.                                                 *)
LEMMA SumOfZeros ==
  ASSUME NEW S, IsFiniteSet(S), NEW f \in [S -> Int], \A x \in S : f[x] = 0
  PROVE  SumFunctionOnSet(f, S) = 0
<1> DEFINE g == [T \in SUBSET S |-> 0]
<1>1. Sums(g, f, S)
  BY DEF Sums
<1>2. g[S] = 0
  OBVIOUS
<1> HIDE DEF g
<1> QED BY <1>1, <1>2, SumIs

(* A sum does not depend on what its terms are filed under.                *)
LEMMA SumMoved ==
  ASSUME NEW S, IsFiniteSet(S), NEW f \in [S -> Int], NEW R, NEW h \in [R -> Int],
         NEW b \in [S -> R], \A x, y \in S : b[x] = b[y] => x = y,
         \A r \in R : \E x \in S : b[x] = r, \A x \in S : h[b[x]] = f[x]
  PROVE  /\ IsFiniteSet(R) /\ Cardinality(R) = Cardinality(S)
         /\ SumFunctionOnSet(h, R) = SumFunctionOnSet(f, S)
<1>1. b \in Bijection(S, R)
  BY DEF Bijection, Injection, Surjection, IsInjective
<1>2. IsFiniteSet(R) /\ Cardinality(R) = Cardinality(S)
  BY <1>1, FS_Bijection DEF ExistsBijection
<1> DEFINE Moved(T) == {b[x] : x \in T}
           Q == {T \in SUBSET S : SumFunctionOnSet(h, Moved(T)) = SumFunctionOnSet(f, T)}
<1>3. {} \in Q
  <2>1. Moved({}) = {}
    OBVIOUS
  <2>2. SumFunctionOnSet(h, {}) = 0 /\ SumFunctionOnSet(f, {}) = 0
    BY <1>2, SumTaken
  <2> QED
    BY <2>1, <2>2
<1>4. ASSUME NEW T \in SUBSET S, T # {}, \A x \in T : T \ {x} \in Q PROVE T \in Q
  <2>1. PICK x \in T : TRUE
    BY <1>4
  <2>2. Moved(T) \in SUBSET R /\ b[x] \in Moved(T) /\ Moved(T) \ {b[x]} = Moved(T \ {x})
    OBVIOUS
  <2>3. SumFunctionOnSet(h, Moved(T \ {x})) = SumFunctionOnSet(f, T \ {x})
    BY <1>4
  <2> HIDE DEF Moved
  <2>4. SumFunctionOnSet(h, Moved(T)) = h[b[x]] + SumFunctionOnSet(h, Moved(T \ {x}))
    <3>1. \A y \in Moved(T) : SumFunctionOnSet(h, Moved(T)) = h[y] + SumFunctionOnSet(h, Moved(T) \ {y})
      BY <1>2, <2>2, SumTaken
    <3> QED
      BY <2>2, <3>1
  <2>5. SumFunctionOnSet(f, T) = f[x] + SumFunctionOnSet(f, T \ {x})
    BY SumTaken
  <2> QED
    BY <2>3, <2>4, <2>5
<1>5. S \in Q
  <2> HIDE DEF Q
  <2> QED
    BY <1>3, <1>4, SubsetInduction
<1>6. Moved(S) = R
  OBVIOUS
<1> QED
  BY <1>2, <1>5, <1>6

(* What MapThenSumSet adds up.                                             *)
LEMMA ValuesAdded ==
  ASSUME NEW M, IsFiniteSet(M), NEW f \in [M -> Int], \A r \in M : f[r] = r.value
  PROVE  MapThenSumSet(LAMBDA r : r.value, M) = SumFunctionOnSet(f, M)
<1> DEFINE ByValue(h) == [s \in SUBSET M |-> IF s = {} THEN 0
                            ELSE LET x == CHOOSE x \in s : TRUE IN x.value + h[s \ {x}]]
           ByName(h) == [s \in SUBSET M |-> IF s = {} THEN 0
                            ELSE LET x == CHOOSE x \in s : TRUE IN f[x] + h[s \ {x}]]
<1>1. MapThenSumSet(LAMBDA r : r.value, M) = (CHOOSE h : h = ByValue(h))[M]
  BY DEF MapThenSumSet, MapThenFoldSet
<1>2. SumFunctionOnSet(f, M) = (CHOOSE h : h = ByName(h))[M]
  BY DEF SumFunctionOnSet, FoldFunctionOnSet, MapThenFoldSet
<1>3. ASSUME NEW h PROVE ByValue(h) = ByName(h)
  <2>1. ASSUME NEW s \in SUBSET M, s # {} PROVE (CHOOSE x \in s : TRUE) \in M
    BY <2>1
  <2>2. ASSUME NEW s \in SUBSET M PROVE ByValue(h)[s] = ByName(h)[s]
    BY <2>1
  <2> QED
    BY <2>2
<1> HIDE DEF ByValue, ByName
<1>4. (CHOOSE h : h = ByValue(h)) = (CHOOSE h : h = ByName(h))
  BY <1>3
<1> QED
  BY <1>1, <1>2, <1>4

LEMMA NamedAdded ==
  ASSUME NEW f, NEW T
  PROVE  MapThenSumSet(LAMBDA d : f[d], T) = SumFunctionOnSet(f, T)
BY DEF MapThenSumSet, SumFunctionOnSet, FoldFunctionOnSet

(* A set of naturals with an element has a first.                          *)
LEMMA SmallestOf ==
  ASSUME NEW S, S \subseteq Nat, S # {}
  PROVE  \E d \in S : \A x \in S : d <= x
<1> DEFINE R == OpToRel(<, Nat)
<1>1. \A m, n \in Nat : m < n => <<m, n>> \in R
  BY DEF OpToRel
<1>2. IsWellFoundedOn(R, Nat)
  BY NatLessThanWellFounded
<1> HIDE DEF R
<1>3. PICK d \in S : \A x \in S : ~ <<x, d>> \in R
  BY <1>2, WFMin
<1>4. ASSUME NEW x \in S PROVE d <= x
  <2>1. d \in Nat /\ x \in Nat /\ ~ x < d
    BY <1>1, <1>3
  <2> QED
    BY <2>1
<1> QED
  BY <1>4
=============================================================================
