----------------------------- MODULE ProofBasics -----------------------------
(***************************************************************************)
(* Facts the proofs share: least and greatest members, images of finite    *)
(* sets, functions defined by recursion on an interval, and sums over      *)
(* finite sets.  The principle behind all of them is the least member,     *)
(* which stands for induction: a least counterexample cannot exist.        *)
(***************************************************************************)
EXTENDS Integers, FiniteSets, Functions, FiniteSetTheorems, FunctionTheorems, TLAPS

\* A nonempty set of naturals has a least element: the intervals below its
\* members are well ordered by strict inclusion.
LEMMA LeastMember ==
  ASSUME NEW S \in SUBSET Nat, S # {}
  PROVE  \E i \in S : \A j \in S : i <= j
<1> DEFINE T == {1..i : i \in S}
           R == StrictSubsetOrdering(Nat)
<1>1. T \subseteq FiniteSubsetsOf(Nat)
  <2>1. \A i \in S : IsFiniteSet(1..i)
    BY FS_Interval
  <2>2. \A i \in S : 1..i \in SUBSET Nat
    OBVIOUS
  <2> QED
    BY <2>1, <2>2 DEF FiniteSubsetsOf
<1>2. \E x \in T : \A y \in T : ~(<<y, x>> \in R)
  <2>1. T # {}
    OBVIOUS
  <2> HIDE DEF T
  <2> QED
    BY <1>1, <2>1, FS_StrictSubsetOrderingWellFounded, WFMin
<1>3. PICK i \in S : \A j \in S : ~(<<1..j, 1..i>> \in R)
  BY <1>2
<1>4. ASSUME NEW j \in S, j < i PROVE FALSE
  <2>1. i \in 1..i /\ i \notin 1..j /\ 1..j \subseteq 1..i
    BY <1>4
  <2>2. 1..j \in SUBSET Nat /\ 1..i \in SUBSET Nat /\ 1..j # 1..i
    BY <2>1
  <2>3. <<1..j, 1..i>> \in R
    BY <2>1, <2>2 DEF StrictSubsetOrdering
  <2> QED
    BY <1>3, <2>3
<1> QED
  BY <1>4

\* A set of positions is finite.
LEMMA FinitePositions ==
  ASSUME NEW n \in Nat, NEW S \in SUBSET (1 .. n)
  PROVE  IsFiniteSet(S) /\ Cardinality(S) \in Nat /\ Cardinality(S) <= n
<1> DEFINE U == 1 .. n
<1>1. IsFiniteSet(U) /\ Cardinality(U) = n
  BY FS_Interval
<1> HIDE DEF U
<1>2. S \in SUBSET U
  BY DEF U
<1> QED
  BY <1>1, <1>2, FS_Subset, FS_CardinalityType

\* The image of a finite set is finite and no larger.
LEMMA FiniteImage ==
  ASSUME NEW S, IsFiniteSet(S), NEW T, NEW f \in [S -> T]
  PROVE  /\ IsFiniteSet({f[x] : x \in S})
         /\ Cardinality({f[x] : x \in S}) <= Cardinality(S)
<1> DEFINE I == {f[x] : x \in S}
<1>1. f \in Surjection(S, I)
  BY DEF Surjection
<1> HIDE DEF I
<1>2. IsFiniteSet(I) /\ Cardinality(I) <= Cardinality(S)
  BY <1>1, FS_Surjection
<1> QED
  BY <1>2 DEF I

\* A nonempty finite set of integers has a greatest element.
LEMMA GreatestMember ==
  ASSUME NEW S \in SUBSET Int, IsFiniteSet(S), S # {}
  PROVE  \E i \in S : \A j \in S : j <= i
<1> DEFINE Bad == {n \in Nat : \E T \in SUBSET S : /\ Cardinality(T) = n /\ T # {}
                                                /\ \A i \in T : \E j \in T : ~ (j <= i)}
<1>1. SUFFICES ASSUME Bad # {} PROVE FALSE
  <2>1. Cardinality(S) \in Nat
    BY FS_CardinalityType
  <2> SUFFICES ASSUME \A i \in S : \E j \in S : ~ (j <= i) PROVE Bad # {}
    BY DEF Bad
  <2>2. Cardinality(S) \in Bad
    BY <2>1
  <2> QED
    BY <2>2
<1>2. PICK n \in Bad : \A m \in Bad : n <= m
  <2>1. Bad \in SUBSET Nat
    OBVIOUS
  <2> HIDE DEF Bad
  <2> QED
    BY <1>1, <2>1, LeastMember
<1>3. PICK T \in SUBSET S : /\ Cardinality(T) = n /\ T # {}
                            /\ \A i \in T : \E j \in T : ~ (j <= i)
  BY <1>2
<1>4. PICK x \in T : TRUE
  BY <1>3
<1>5. IsFiniteSet(T)
  BY FS_Subset
<1>6. T \ {x} # {}
  BY <1>3, <1>4
<1>7. Cardinality(T \ {x}) = n - 1 /\ n \in Nat /\ IsFiniteSet(T \ {x})
  BY <1>2, <1>3, <1>4, <1>5, FS_RemoveElement
<1>8. n - 1 \in Nat
  BY <1>7, FS_CardinalityType
<1>9. n - 1 \notin Bad
  BY <1>2, <1>7, <1>8
<1>10. PICK y \in T \ {x} : \A j \in T \ {x} : j <= y
  BY <1>6, <1>7, <1>8, <1>9
<1>11. CASE x <= y
  BY <1>3, <1>4, <1>10, <1>11
<1>12. CASE ~ (x <= y)
  <2>1. \A j \in T : j <= x
    BY <1>4, <1>10, <1>12
  <2> QED
    BY <1>3, <1>4, <2>1
<1> QED
  BY <1>11, <1>12

-----------------------------------------------------------------------------
(* Induction, as closure of a set *)

\* A set of numbers that has 0, and with a number the next one, has them all.
LEMMA Climb ==
  ASSUME NEW n \in Nat, NEW Good, 0 \in Good,
         \A i \in 0 .. n - 1 : i \in Good => i + 1 \in Good
  PROVE  \A i \in 0 .. n : i \in Good
<1> DEFINE Bad == {i \in 0 .. n : i \notin Good}
<1>1. SUFFICES ASSUME Bad # {} PROVE FALSE
  OBVIOUS
<1>2. PICK i \in Bad : \A j \in Bad : i <= j
  <2>1. Bad \in SUBSET Nat
    OBVIOUS
  <2> HIDE DEF Bad
  <2> QED
    BY <1>1, <2>1, LeastMember
<1>3. i \in 1 .. n /\ i - 1 \in 0 .. n - 1 /\ i - 1 \notin Bad
  BY <1>2
<1> QED
  BY <1>2, <1>3

\* A family of sets that has the empty set, and with a set any that has one more
\* element, has every finite set.
LEMMA Grow ==
  ASSUME NEW S, IsFiniteSet(S), NEW Good, {} \in Good,
         \A T \in SUBSET S : \A x \in S \ T : T \in Good => T \cup {x} \in Good
  PROVE  S \in Good
<1> DEFINE N == Cardinality(S)
           Sizes0 == {k \in 0 .. N : \A T \in SUBSET S : Cardinality(T) = k => T \in Good}
<1>1. N \in Nat /\ \A T \in SUBSET S : IsFiniteSet(T) /\ Cardinality(T) \in Nat
  BY FS_CardinalityType, FS_Subset
<1>2. 0 \in Sizes0
  BY SMTT(40), <1>1, FS_EmptySet
<1>3. ASSUME NEW k \in 0 .. N - 1, k \in Sizes0 PROVE k + 1 \in Sizes0
  <2> SUFFICES ASSUME NEW T \in SUBSET S, Cardinality(T) = k + 1 PROVE T \in Good
    BY <1>1
  <2>1. PICK x \in T : TRUE
    BY <1>1, FS_EmptySet
  <2>2. Cardinality(T \ {x}) = k /\ T \ {x} \in SUBSET S /\ x \in S \ (T \ {x}) /\ (T \ {x}) \cup {x} = T
    <3>1. Cardinality(T \ {x}) = k
      <4>1. IsFiniteSet(T) /\ x \in T
        BY <1>1, <2>1
      <4>2. Cardinality(T \ {x}) = IF x \in T THEN Cardinality(T) - 1 ELSE Cardinality(T)
        BY <4>1, FS_RemoveElement
      <4>3. Cardinality(T) = k + 1 /\ k \in Int
        OBVIOUS
      <4> QED
        BY <4>1, <4>2, <4>3
    <3>2. T \ {x} \in SUBSET S /\ x \in S \ (T \ {x}) /\ (T \ {x}) \cup {x} = T
      BY <2>1
    <3> QED
      BY <1>1, <1>3, <3>1, <3>2
  <2>3. T \ {x} \in Good
    BY <1>3, <2>2
  <2> DEFINE R == T \ {x}
  <2>4. R \in SUBSET S /\ x \in S \ R /\ R \in Good /\ R \cup {x} = T
    BY <2>2, <2>3
  <2> HIDE DEF R
  <2> QED
    BY <2>4
<1> HIDE DEF Sizes0
<1>4. N \in Sizes0
  <2>1. \A i \in 0 .. N : i \in Sizes0
    BY <1>1, <1>2, <1>3, Climb
  <2> QED
    BY <1>1, <2>1
<1> QED
  BY <1>1, <1>4 DEF Sizes0

\* What f makes of each number up to m follows from what it made of the one before.
Follows(f, m, base, next) == f[0] = base /\ \A i \in 1 .. m : f[i] = next[i][f[i - 1]]

\* A function on an interval may be defined by recursion.
LEMMA Recursion ==
  ASSUME NEW n \in Nat, NEW S, NEW base \in S, NEW next \in [1 .. n -> [S -> S]]
  PROVE  \E f \in [0 .. n -> S] : Follows(f, n, base, next)
<1> DEFINE Defined == {m \in 0 .. n : \E f \in [0 .. m -> S] : Follows(f, m, base, next)}
<1>1. 0 \in Defined
  <2> DEFINE f == [i \in 0 .. 0 |-> base]
  <2>1. f \in [0 .. 0 -> S] /\ f[0] = base /\ 1 .. 0 = {}
    OBVIOUS
  <2>2. Follows(f, 0, base, next)
    BY <2>1 DEF Follows
  <2> HIDE DEF f
  <2> QED
    BY <2>1, <2>2
<1>2. ASSUME NEW m \in 0 .. n - 1, m \in Defined PROVE m + 1 \in Defined
  <2>1. PICK f \in [0 .. m -> S] : Follows(f, m, base, next)
    BY <1>2
  <2> DEFINE g == [i \in 0 .. m + 1 |-> IF i = m + 1 THEN next[m + 1][f[m]] ELSE f[i]]
  <2>2. next[m + 1] \in [S -> S] /\ f[m] \in S
    BY <1>2, <2>1
  <2>3. g \in [0 .. m + 1 -> S]
    BY <1>2, <2>1, <2>2
  <2>4. Follows(g, m + 1, base, next)
    BY <1>2, <2>1 DEF Follows
  <2> HIDE DEF g
  <2> QED
    BY <1>2, <2>3, <2>4
<1> HIDE DEF Defined
<1>3. \A i \in 0 .. n : i \in Defined
  BY <1>1, <1>2, Climb
<1> QED
  BY <1>3 DEF Defined

\* What holds of a set if it holds of all smaller ones holds of every finite set.
LEMMA Smaller ==
  ASSUME NEW S, IsFiniteSet(S), NEW Good,
         \A T \in SUBSET S : (\A U \in SUBSET T : U # T => U \in Good) => T \in Good
  PROVE  \A T \in SUBSET S : T \in Good
<1> DEFINE N == Cardinality(S)
           Sizes0 == {k \in 0 .. N : \A T \in SUBSET S : Cardinality(T) <= k => T \in Good}
<1>1. /\ N \in Nat
      /\ \A T \in SUBSET S : IsFiniteSet(T) /\ Cardinality(T) \in Nat /\ Cardinality(T) <= N
  BY FS_CardinalityType, FS_Subset
<1>2. \A T \in SUBSET S : \A U \in SUBSET T : U # T => Cardinality(U) < Cardinality(T)
  <2> SUFFICES ASSUME NEW T \in SUBSET S, NEW U \in SUBSET T, U # T PROVE Cardinality(U) < Cardinality(T)
    OBVIOUS
  <2>1. IsFiniteSet(T) /\ U \in SUBSET S
    BY <1>1
  <2>2. Cardinality(U) <= Cardinality(T) /\ Cardinality(U) # Cardinality(T)
    BY <2>1, FS_Subset
  <2> QED
    BY <1>1, <2>1, <2>2
<1>3. 0 \in Sizes0
  <2> SUFFICES ASSUME NEW T \in SUBSET S, Cardinality(T) <= 0 PROVE T \in Good
    BY <1>1
  <2>1. T = {}
    BY <1>1, FS_EmptySet
  <2> QED
    BY <2>1
<1>4. ASSUME NEW k \in 0 .. N - 1, k \in Sizes0 PROVE k + 1 \in Sizes0
  <2> SUFFICES ASSUME NEW T \in SUBSET S, Cardinality(T) <= k + 1 PROVE T \in Good
    BY <1>1
  <2>1. ASSUME NEW U \in SUBSET T, U # T PROVE U \in Good
    <3>1. U \in SUBSET S /\ Cardinality(U) < Cardinality(T)
      BY <1>2, <2>1
    <3>2. Cardinality(U) <= k
      BY <1>1, <3>1
    <3> QED
      BY <1>4, <3>1, <3>2
  <2> QED
    BY <2>1
<1> HIDE DEF Sizes0
<1>5. N \in Sizes0
  <2>1. \A i \in 0 .. N : i \in Sizes0
    BY <1>1, <1>3, <1>4, Climb
  <2> QED
    BY <1>1, <2>1
<1> QED
  BY <1>1, <1>5 DEF Sizes0

-----------------------------------------------------------------------------
(* Sums over finite sets *)

Integral(f, S) == \A x \in S : f[x] \in Int
Picked(s)      == CHOOSE x \in s : TRUE

\* g sums f over the subsets of S, one element after the other.
SumsUp(g, f, S) ==
  g = [s \in SUBSET S |-> IF s = {} THEN 0 ELSE f[Picked(s)] + g[s \ {Picked(s)}]]

LEMMA PickedMember == ASSUME NEW s, s # {} PROVE Picked(s) \in s
BY DEF Picked

LEMMA SumIsChosen ==
  ASSUME NEW f, NEW S
  PROVE  SumFunctionOnSet(f, S) = (CHOOSE g : SumsUp(g, f, S))[S]
BY DEF SumFunctionOnSet, FoldFunctionOnSet, MapThenFoldSet, SumsUp, Picked

\* Such a function exists: what it says of small sets says what it must say of
\* larger ones.
LEMMA SumExists ==
  ASSUME NEW S, IsFiniteSet(S), NEW f, Integral(f, S)
  PROVE  \E g : SumsUp(g, f, S)
<1> DEFINE N == Cardinality(S)
           F == [SUBSET S -> Int]
           step == [g \in F |-> [s \in SUBSET S |-> IF s = {} THEN 0 ELSE f[Picked(s)] + g[s \ {Picked(s)}]]]
           next == [i \in 1 .. N + 1 |-> step]
           base == [s \in SUBSET S |-> 0]
<1>1. N \in Nat /\ N + 1 \in Nat
  BY FS_CardinalityType
<1>2. \A s \in SUBSET S : /\ IsFiniteSet(s) /\ Cardinality(s) \in 0 .. N
                          /\ s # {} => /\ Picked(s) \in s /\ Picked(s) \in S /\ s \ {Picked(s)} \in SUBSET S
                                       /\ Cardinality(s \ {Picked(s)}) = Cardinality(s) - 1
  <2> SUFFICES ASSUME NEW s \in SUBSET S
               PROVE  /\ IsFiniteSet(s) /\ Cardinality(s) \in 0 .. N
                      /\ s # {} => /\ Picked(s) \in s /\ Picked(s) \in S /\ s \ {Picked(s)} \in SUBSET S
                                   /\ Cardinality(s \ {Picked(s)}) = Cardinality(s) - 1
    OBVIOUS
  <2>1. IsFiniteSet(s) /\ Cardinality(s) \in 0 .. N
    BY <1>1, FS_Subset, FS_CardinalityType
  <2>2. ASSUME s # {} PROVE /\ Picked(s) \in s /\ Picked(s) \in S /\ s \ {Picked(s)} \in SUBSET S
                            /\ Cardinality(s \ {Picked(s)}) = Cardinality(s) - 1
    <3>1. Picked(s) \in s
      BY <2>2, PickedMember
    <3> QED
      BY <2>1, <3>1, FS_RemoveElement
  <2> QED
    BY <2>1, <2>2
<1>3. step \in [F -> F]
  <2>1. ASSUME NEW g \in F, NEW s \in SUBSET S, s # {}
        PROVE  f[Picked(s)] + g[s \ {Picked(s)}] \in Int
    <3> DEFINE r == s \ {Picked(s)}
    <3>1. Picked(s) \in S /\ r \in SUBSET S
      BY <1>2, <2>1
    <3> HIDE DEF r
    <3>2. f[Picked(s)] \in Int /\ g[r] \in Int
      BY <3>1 DEF Integral
    <3> QED
      BY <3>2 DEF r
  <2>2. \A g \in F : [s \in SUBSET S |-> IF s = {} THEN 0 ELSE f[Picked(s)] + g[s \ {Picked(s)}]] \in F
    BY <2>1
  <2> HIDE DEF F
  <2> QED
    BY <2>2
<1>4. base \in F
  OBVIOUS
<1> HIDE DEF F, step, base
<1>5. PICK h \in [0 .. N + 1 -> F] : Follows(h, N + 1, base, next)
  <2>1. next \in [1 .. N + 1 -> [F -> F]]
    BY <1>3
  <2> HIDE DEF next
  <2> QED
    BY <1>1, <1>4, <2>1, Recursion
<1>6. h[0] = base /\ \A i \in 0 .. N : h[i] \in F /\ h[i + 1] \in F /\ h[i + 1] = step[h[i]]
  <2>1. ASSUME NEW i \in 0 .. N PROVE h[i] \in F /\ h[i + 1] \in F /\ h[i + 1] = step[h[i]]
    <3>1. i \in 0 .. N + 1 /\ i + 1 \in 1 .. N + 1 /\ i + 1 \in 0 .. N + 1 /\ (i + 1) - 1 = i
      BY <1>1
    <3>2. h[i + 1] = next[i + 1][h[(i + 1) - 1]]
      BY <1>5, <3>1 DEF Follows
    <3> QED
      BY <1>5, <3>1, <3>2
  <2> QED
    BY <1>5, <2>1 DEF Follows
<1>7. \A i \in 0 .. N : \A s \in SUBSET S :
        h[i + 1][s] = IF s = {} THEN 0 ELSE f[Picked(s)] + h[i][s \ {Picked(s)}]
  BY ZenonT(40), <1>6 DEF step
<1> DEFINE Settled == {i \in 0 .. N : \A s \in SUBSET S : Cardinality(s) <= i => h[i + 1][s] = h[i][s]}
<1>8. 0 \in Settled
  <2> SUFFICES ASSUME NEW s \in SUBSET S, Cardinality(s) <= 0 PROVE h[0 + 1][s] = h[0][s]
    <3>1. 0 \in 0 .. N
      BY <1>1
    <3> QED
      BY <3>1
  <2>1. s = {}
    <3>1. IsFiniteSet(s) /\ Cardinality(s) \in 0 .. N
      BY <1>2
    <3> HIDE DEF N
    <3>2. Cardinality(s) = 0
      BY <1>1, <3>1
    <3> QED
      BY <3>1, <3>2, FS_EmptySet
  <2>2. 0 \in 0 .. N
    BY <1>1
  <2>3. h[0 + 1][s] = 0
    BY <1>7, <2>1, <2>2
  <2>4. h[0][s] = 0
    BY <1>6 DEF base
  <2> QED
    BY <2>3, <2>4
<1>9. ASSUME NEW i \in 0 .. N - 1, i \in Settled PROVE i + 1 \in Settled
  <2> SUFFICES ASSUME NEW s \in SUBSET S, Cardinality(s) <= i + 1 PROVE h[(i + 1) + 1][s] = h[i + 1][s]
    BY <1>1
  <2>1. i \in 0 .. N /\ i + 1 \in 0 .. N
    BY <1>1
  <2>2. CASE s = {}
    BY <1>7, <2>1, <2>2
  <2>3. CASE s # {}
    <3> DEFINE r == s \ {Picked(s)}
    <3>1. r \in SUBSET S /\ Cardinality(r) <= i
      BY <1>1, <1>2, <2>3
    <3>2. h[i + 1][r] = h[i][r]
      BY <1>9, <3>1
    <3> QED
      BY ZenonT(40), <1>7, <2>1, <2>3, <3>2
  <2> QED
    BY <2>2, <2>3
<1> HIDE DEF Settled
<1>10. N \in Settled
  <2>1. \A i \in 0 .. N : i \in Settled
    BY <1>1, <1>8, <1>9, Climb
  <2> QED
    BY <1>1, <2>1
<1> DEFINE g == h[N]
<1>11. N \in 0 .. N
  BY <1>1
<1>12. g \in F /\ \A s \in SUBSET S : g[s] = IF s = {} THEN 0 ELSE f[Picked(s)] + g[s \ {Picked(s)}]
  <2>1. ASSUME NEW s \in SUBSET S PROVE h[N + 1][s] = h[N][s]
    <3>1. Cardinality(s) \in 0 .. N
      BY <1>2
    <3> HIDE DEF N
    <3>2. Cardinality(s) <= N
      BY <1>1, <3>1
    <3> QED
      BY <1>10, <3>2 DEF Settled
  <2> QED
    BY <1>6, <1>7, <1>11, <2>1
<1> HIDE DEF g
<1>13. SumsUp(g, f, S)
  BY <1>12 DEF SumsUp, F
<1> QED
  BY <1>13

\* It is the sum of every subset.
LEMMA SumsUpIsSum ==
  ASSUME NEW S, IsFiniteSet(S), NEW f, Integral(f, S), NEW g, SumsUp(g, f, S)
  PROVE  \A T \in SUBSET S : g[T] = SumFunctionOnSet(f, T) /\ g[T] \in Int
<1> SUFFICES ASSUME NEW T \in SUBSET S PROVE g[T] = SumFunctionOnSet(f, T) /\ g[T] \in Int
  OBVIOUS
<1>1. IsFiniteSet(T) /\ Integral(f, T)
  BY FS_Subset DEF Integral
<1> DEFINE h == CHOOSE k : SumsUp(k, f, T)
<1>2. SumsUp(h, f, T) /\ SumFunctionOnSet(f, T) = h[T]
  BY <1>1, SumExists, SumIsChosen
<1> HIDE DEF h
<1> DEFINE Good == {U \in SUBSET T : g[U] = h[U] /\ g[U] \in Int}
<1>3. ASSUME NEW U \in SUBSET T, \A V \in SUBSET U : V # U => V \in Good PROVE U \in Good
  <2>1. U \in SUBSET S
    OBVIOUS
  <2>2. /\ g[U] = IF U = {} THEN 0 ELSE f[Picked(U)] + g[U \ {Picked(U)}]
        /\ h[U] = IF U = {} THEN 0 ELSE f[Picked(U)] + h[U \ {Picked(U)}]
    BY <1>2, <2>1 DEF SumsUp
  <2>3. CASE U = {}
    BY <2>2, <2>3
  <2>4. CASE U # {}
    <3>1. Picked(U) \in U
      BY <2>4, PickedMember
    <3> DEFINE V == U \ {Picked(U)}
    <3>2. V \in SUBSET U /\ V # U
      BY <3>1
    <3>3. V \in Good
      BY <1>3, <3>2
    <3>4. f[Picked(U)] \in Int
      BY <2>1, <3>1 DEF Integral
    <3> QED
      BY <2>2, <2>4, <3>3, <3>4
  <2> QED
    BY <2>3, <2>4
<1>4. \A U \in SUBSET T : U \in Good
  <2> HIDE DEF Good
  <2> QED
    BY <1>1, <1>3, Smaller
<1> QED
  BY <1>2, <1>4

\* What a sum is made of: nothing, or an element and the rest.
LEMMA SumUnfolds ==
  ASSUME NEW S, IsFiniteSet(S), NEW f, Integral(f, S)
  PROVE  /\ SumFunctionOnSet(f, S) \in Int
         /\ S = {} => SumFunctionOnSet(f, S) = 0
         /\ S # {} => SumFunctionOnSet(f, S) = f[Picked(S)] + SumFunctionOnSet(f, S \ {Picked(S)})
<1>1. PICK g : SumsUp(g, f, S)
  BY SumExists
<1>2. S \in SUBSET S /\ S \ {Picked(S)} \in SUBSET S
  OBVIOUS
<1>3. /\ g[S] = SumFunctionOnSet(f, S) /\ g[S] \in Int
      /\ g[S \ {Picked(S)}] = SumFunctionOnSet(f, S \ {Picked(S)})
  BY <1>1, <1>2, SumsUpIsSum
<1>4. g[S] = IF S = {} THEN 0 ELSE f[Picked(S)] + g[S \ {Picked(S)}]
  BY <1>1, <1>2 DEF SumsUp
<1> QED
  BY <1>3, <1>4

\* Any element will do.
LEMMA SumAny ==
  ASSUME NEW S, IsFiniteSet(S), NEW f, Integral(f, S), NEW x \in S
  PROVE  SumFunctionOnSet(f, S) = f[x] + SumFunctionOnSet(f, S \ {x})
<1> DEFINE Sum(T) == SumFunctionOnSet(f, T)
           Good == {T \in SUBSET S : \A y \in T : Sum(T) = f[y] + Sum(T \ {y})}
<1>1. \A T \in SUBSET S : IsFiniteSet(T) /\ Integral(f, T)
  BY FS_Subset DEF Integral
<1>2. \A T \in SUBSET S : Sum(T) \in Int /\ (T # {} => Sum(T) = f[Picked(T)] + Sum(T \ {Picked(T)}))
  BY <1>1, SumUnfolds
<1> HIDE DEF Sum
<1>3. ASSUME NEW T \in SUBSET S, \A U \in SUBSET T : U # T => U \in Good PROVE T \in Good
  <2> SUFFICES ASSUME NEW y \in T PROVE Sum(T) = f[y] + Sum(T \ {y})
    OBVIOUS
  <2> DEFINE a == Picked(T)
  <2>1. a \in T /\ Sum(T) = f[a] + Sum(T \ {a})
    BY <1>2, PickedMember
  <2> HIDE DEF a
  <2>2. CASE y = a
    BY <2>1, <2>2
  <2>3. CASE y # a
    <3>1. T \ {a} \in Good /\ T \ {y} \in Good
      <4>1. /\ T \ {a} \in SUBSET T /\ T \ {a} # T
            /\ T \ {y} \in SUBSET T /\ T \ {y} # T
        BY <2>1
      <4> DEFINE A == T \ {a}
                 B == T \ {y}
      <4> HIDE DEF A, B, Good
      <4>2. A \in Good /\ B \in Good
        BY <1>3, <4>1 DEF A, B
      <4> QED
        BY <4>2 DEF A, B
    <3>2. Sum(T \ {a}) = f[y] + Sum((T \ {a}) \ {y})
      BY <2>3, <3>1
    <3>3. Sum(T \ {y}) = f[a] + Sum((T \ {y}) \ {a})
      BY <2>1, <2>3, <3>1
    <3>4. (T \ {y}) \ {a} = (T \ {a}) \ {y}
      OBVIOUS
    <3>5. f[a] \in Int /\ f[y] \in Int /\ Sum((T \ {a}) \ {y}) \in Int
      <4>1. a \in S /\ y \in S
        BY <2>1
      <4> DEFINE r == (T \ {a}) \ {y}
      <4>2. r \in SUBSET S
        OBVIOUS
      <4> HIDE DEF r
      <4>3. Sum(r) \in Int
        BY <1>2, <4>2
      <4> QED
        BY <4>1, <4>3 DEF Integral, r
    <3> DEFINE rest == Sum((T \ {a}) \ {y})
    <3>6. Sum(T \ {y}) = f[a] + rest /\ Sum(T) = f[a] + (f[y] + rest) /\ rest \in Int
      BY <2>1, <3>2, <3>3, <3>4, <3>5
    <3> HIDE DEF rest
    <3> QED
      BY <3>5, <3>6
  <2> QED
    BY <2>2, <2>3
<1>4. \A T \in SUBSET S : T \in Good
  <2> HIDE DEF Good
  <2> QED
    BY <1>3, Smaller
<1>5. Sum(S) = f[x] + Sum(S \ {x})
  BY <1>4
<1> QED
  BY <1>5 DEF Sum

\* An element more.
LEMMA SumAdd ==
  ASSUME NEW S, IsFiniteSet(S), NEW f, NEW x, x \notin S, Integral(f, S \cup {x})
  PROVE  SumFunctionOnSet(f, S \cup {x}) = SumFunctionOnSet(f, S) + f[x]
<1> DEFINE U == S \cup {x}
<1>1. IsFiniteSet(U) /\ x \in U /\ U \ {x} = S /\ f[x] \in Int /\ Integral(f, S)
  BY FS_AddElement DEF Integral
<1> HIDE DEF U
<1>2. SumFunctionOnSet(f, U) = f[x] + SumFunctionOnSet(f, U \ {x})
  BY <1>1, SumAny DEF U
<1>3. SumFunctionOnSet(f, S) \in Int
  BY <1>1, SumUnfolds
<1>4. SumFunctionOnSet(f, U) = f[x] + SumFunctionOnSet(f, S)
  BY <1>1, <1>2
<1>5. SumFunctionOnSet(f, U) = SumFunctionOnSet(f, S) + f[x]
  BY <1>1, <1>3, <1>4
<1> QED
  BY <1>5 DEF U

\* Within a set.
LEMMA SumStep ==
  ASSUME NEW S, IsFiniteSet(S), NEW f, Integral(f, S), NEW T \in SUBSET S, NEW x \in S \ T
  PROVE  SumFunctionOnSet(f, T \cup {x}) = SumFunctionOnSet(f, T) + f[x]
<1>1. IsFiniteSet(T) /\ Integral(f, T \cup {x})
  BY FS_Subset DEF Integral
<1> QED
  BY <1>1, SumAdd

LEMMA SumEmpty == \A f : SumFunctionOnSet(f, {}) = 0
<1> SUFFICES ASSUME NEW f PROVE SumFunctionOnSet(f, {}) = 0
  OBVIOUS
<1>1. IsFiniteSet({}) /\ Integral(f, {})
  BY FS_EmptySet DEF Integral
<1> QED
  BY <1>1, SumUnfolds

LEMMA SumType ==
  ASSUME NEW S, IsFiniteSet(S), NEW f, Integral(f, S)
  PROVE  SumFunctionOnSet(f, S) \in Int
BY SumUnfolds

\* What two sums have in common, one element at a time.
LEMMA SumsRelate ==
  ASSUME NEW S, IsFiniteSet(S), NEW f, NEW g, Integral(f, S), Integral(g, S)
  PROVE  /\ (\A x \in S : f[x] = g[x]) => SumFunctionOnSet(f, S) = SumFunctionOnSet(g, S)
         /\ (\A x \in S : f[x] <= g[x]) => SumFunctionOnSet(f, S) <= SumFunctionOnSet(g, S)
<1> DEFINE F(T) == SumFunctionOnSet(f, T)
           G(T) == SumFunctionOnSet(g, T)
           Good == {T \in SUBSET S : /\ (\A x \in S : f[x] = g[x]) => F(T) = G(T)
                                     /\ (\A x \in S : f[x] <= g[x]) => F(T) <= G(T)}
<1>1. {} \in Good
  BY SumEmpty
<1>2. ASSUME NEW T \in SUBSET S, NEW x \in S \ T, T \in Good PROVE T \cup {x} \in Good
  <2>1. IsFiniteSet(T) /\ T \cup {x} \in SUBSET S /\ Integral(f, T) /\ Integral(g, T)
        /\ Integral(f, T \cup {x}) /\ Integral(g, T \cup {x})
    BY FS_Subset DEF Integral
  <2>2. F(T) \in Int /\ G(T) \in Int /\ f[x] \in Int /\ g[x] \in Int
    BY <2>1, SumType DEF Integral
  <2>3. F(T \cup {x}) = F(T) + f[x] /\ G(T \cup {x}) = G(T) + g[x]
    BY <2>1, SumAdd
  <2> HIDE DEF F, G
  <2>4. /\ (\A y \in S : f[y] = g[y]) => F(T \cup {x}) = G(T \cup {x})
        /\ (\A y \in S : f[y] <= g[y]) => F(T \cup {x}) <= G(T \cup {x})
    BY <1>2, <2>2, <2>3
  <2> QED
    BY <2>1, <2>4
<1>3. S \in Good
  <2> HIDE DEF Good
  <2> QED
    BY <1>1, <1>2, Grow
<1> QED
  BY <1>3

LEMMA SumSame ==
  ASSUME NEW S, IsFiniteSet(S), NEW f, NEW g, Integral(f, S), \A x \in S : f[x] = g[x]
  PROVE  SumFunctionOnSet(f, S) = SumFunctionOnSet(g, S)
<1>1. Integral(g, S)
  BY DEF Integral
<1> QED
  BY <1>1, SumsRelate

LEMMA SumMonotone ==
  ASSUME NEW S, IsFiniteSet(S), NEW f, NEW g, Integral(f, S), Integral(g, S), \A x \in S : f[x] <= g[x]
  PROVE  SumFunctionOnSet(f, S) <= SumFunctionOnSet(g, S)
BY SumsRelate

\* Sums are linear.
LEMMA SumLinear ==
  ASSUME NEW S, IsFiniteSet(S), NEW f, NEW g, NEW h, NEW a \in Int, NEW b \in Int,
         Integral(f, S), Integral(g, S), \A x \in S : h[x] = a * f[x] + b * g[x]
  PROVE  SumFunctionOnSet(h, S) = a * SumFunctionOnSet(f, S) + b * SumFunctionOnSet(g, S)
<1> DEFINE F(T) == SumFunctionOnSet(f, T)
           G(T) == SumFunctionOnSet(g, T)
           H(T) == SumFunctionOnSet(h, T)
           Good == {T \in SUBSET S : H(T) = a * F(T) + b * G(T)}
<1>1. {} \in Good
  <2>1. F({}) = 0 /\ G({}) = 0 /\ H({}) = 0
    BY SumEmpty
  <2> HIDE DEF F, G, H
  <2> QED
    BY <2>1
<1>2. ASSUME NEW T \in SUBSET S, NEW x \in S \ T, T \in Good PROVE T \cup {x} \in Good
  <2>1. \A y \in S : f[y] \in Int /\ g[y] \in Int /\ h[y] \in Int
    BY DEF Integral
  <2>2. IsFiniteSet(T) /\ T \cup {x} \in SUBSET S /\ Integral(f, T) /\ Integral(g, T)
        /\ Integral(f, T \cup {x}) /\ Integral(g, T \cup {x}) /\ Integral(h, T \cup {x})
    BY <2>1, FS_Subset DEF Integral
  <2>3. F(T) \in Int /\ G(T) \in Int
    BY <2>2, SumType
  <2>4. F(T \cup {x}) = F(T) + f[x] /\ G(T \cup {x}) = G(T) + g[x] /\ H(T \cup {x}) = H(T) + h[x]
    <3>1. F(T \cup {x}) = F(T) + f[x]
      BY SumStep
    <3>2. G(T \cup {x}) = G(T) + g[x]
      BY SumStep
    <3>3. H(T \cup {x}) = H(T) + h[x]
      BY ZenonT(40), <2>2, SumAdd
    <3> QED
      BY <3>1, <3>2, <3>3
  <2>5. h[x] = a * f[x] + b * g[x] /\ H(T) = a * F(T) + b * G(T)
    BY <1>2
  <2> HIDE DEF F, G, H
  <2> DEFINE p == F(T)
             q == G(T)
             u == f[x]
             v == g[x]
  <2>6. p \in Int /\ q \in Int /\ u \in Int /\ v \in Int
    BY <2>1, <2>3
  <2> HIDE DEF p, q, u, v
  <2>7. (a * p + b * q) + (a * u + b * v) = a * (p + u) + b * (q + v)
    BY <2>6
  <2> QED
    BY <2>2, <2>4, <2>5, <2>7 DEF p, q, u, v
<1>3. S \in Good
  <2> HIDE DEF Good
  <2> QED
    BY <1>1, <1>2, Grow
<1> QED
  BY <1>3

\* The sum over two sets that have nothing in common.
LEMMA SumParts ==
  ASSUME NEW S, IsFiniteSet(S), NEW R, IsFiniteSet(R), R \cap S = {}, NEW f, Integral(f, S \cup R)
  PROVE  SumFunctionOnSet(f, S \cup R) = SumFunctionOnSet(f, S) + SumFunctionOnSet(f, R)
<1> DEFINE F(T) == SumFunctionOnSet(f, T)
           Good == {T \in SUBSET S : F(T \cup R) = F(T) + F(R)}
<1>1. F(R) \in Int
  BY SumType DEF Integral
<1>2. {} \in Good
  <2>1. {} \cup R = R /\ F({}) = 0
    BY SumEmpty
  <2> HIDE DEF F
  <2> QED
    BY <1>1, <2>1
<1>3. ASSUME NEW T \in SUBSET S, NEW x \in S \ T, T \in Good PROVE T \cup {x} \in Good
  <2> DEFINE U == T \cup R
  <2>1. IsFiniteSet(T) /\ Integral(f, T) /\ Integral(f, T \cup {x}) /\ f[x] \in Int
    BY FS_Subset DEF Integral
  <2>2. IsFiniteSet(U) /\ x \notin U /\ Integral(f, U \cup {x}) /\ (T \cup {x}) \cup R = U \cup {x}
    BY <2>1, FS_Union DEF Integral
  <2>3. F(T) \in Int /\ F(T \cup {x}) = F(T) + f[x]
    BY <2>1, SumAdd, SumType
  <2>4. F(U \cup {x}) = F(U) + f[x]
    <3> HIDE DEF U
    <3> QED
      BY <2>2, SumAdd
  <2>5. F(U) = F(T) + F(R)
    BY <1>3
  <2> HIDE DEF F
  <2>6. F(U) \in Int
    BY <1>1, <2>3, <2>5
  <2>7. F(U) + f[x] = F(T \cup {x}) + F(R)
    <3> HIDE DEF U
    <3> QED
      BY <1>1, <2>1, <2>3, <2>5
  <2>8. F((T \cup {x}) \cup R) = F(T \cup {x}) + F(R)
    BY <2>2, <2>4, <2>7
  <2> QED
    BY <2>8
<1>4. S \in Good
  <2> HIDE DEF Good
  <2> QED
    BY <1>2, <1>3, Grow
<1> QED
  BY <1>4

\* Nothing negative adds up to zero but zeros.
LEMMA SumOfNaturals ==
  ASSUME NEW S, IsFiniteSet(S), NEW f, \A x \in S : f[x] \in Nat
  PROVE  /\ SumFunctionOnSet(f, S) \in Nat
         /\ \A x \in S : f[x] <= SumFunctionOnSet(f, S)
<1> DEFINE F(T) == SumFunctionOnSet(f, T)
           Good == {T \in SUBSET S : F(T) \in Nat}
<1>1. Integral(f, S)
  BY DEF Integral
<1>2. \A T \in SUBSET S : F(T) \in Nat
  <2> SUFFICES ASSUME NEW T \in SUBSET S PROVE F(T) \in Nat
    OBVIOUS
  <2> DEFINE Fine == {U \in SUBSET T : F(U) \in Nat}
  <2>1. IsFiniteSet(T)
    BY FS_Subset
  <2>2. {} \in Fine
    BY SumEmpty
  <2>3. ASSUME NEW U \in SUBSET T, NEW x \in T \ U, U \in Fine PROVE U \cup {x} \in Fine
    <3>1. U \in SUBSET S /\ x \in S \ U /\ f[x] \in Nat /\ F(U) \in Nat
      BY <2>3
    <3>2. F(U \cup {x}) = F(U) + f[x]
      BY <1>1, <3>1, SumStep
    <3> HIDE DEF F
    <3> QED
      BY <3>1, <3>2
  <2>4. T \in Fine
    <3> HIDE DEF Fine
    <3> QED
      BY <2>1, <2>2, <2>3, Grow
  <2> QED
    BY <2>4
<1>3. ASSUME NEW x \in S PROVE f[x] <= F(S)
  <2>1. F(S) = f[x] + F(S \ {x})
    BY <1>1, SumAny
  <2>2. F(S \ {x}) \in Nat
    BY <1>2
  <2> HIDE DEF F
  <2> QED
    BY <2>1, <2>2
<1> QED
  BY <1>2, <1>3

\* The number of elements is a sum, too.
LEMMA SumOfConstant ==
  ASSUME NEW S, IsFiniteSet(S), NEW f, NEW c \in Int, \A x \in S : f[x] = c
  PROVE  SumFunctionOnSet(f, S) = Cardinality(S) * c
<1> DEFINE F(T) == SumFunctionOnSet(f, T)
           N(T) == Cardinality(T)
           Good == {T \in SUBSET S : F(T) = N(T) * c}
<1>1. Integral(f, S)
  BY DEF Integral
<1>2. {} \in Good
  BY SumEmpty, FS_EmptySet
<1>3. ASSUME NEW T \in SUBSET S, NEW x \in S \ T, T \in Good PROVE T \cup {x} \in Good
  <2>1. F(T \cup {x}) = F(T) + c
    BY <1>1, SumStep
  <2>2. N(T \cup {x}) = N(T) + 1 /\ N(T) \in Int
    BY FS_AddElement, FS_CardinalityType, FS_Subset
  <2>3. F(T) = N(T) * c
    BY <1>3
  <2> HIDE DEF F, N
  <2>4. (N(T) + 1) * c = N(T) * c + c
    BY <2>2
  <2> QED
    BY <2>1, <2>2, <2>3, <2>4
<1>4. S \in Good
  <2> HIDE DEF Good
  <2> QED
    BY <1>2, <1>3, Grow
<1> QED
  BY <1>4

-----------------------------------------------------------------------------
(* Squares: the spread of numbers around their mean *)

SquareOf(f, S)     == [x \in S |-> f[x] * f[x]]
Distances(f, S, c) == [x \in S |-> (f[x] - c) * (f[x] - c)]

\* The number of elements times the sum of the squares around the mean.
SpreadOf(f, S) ==
  Cardinality(S) * SumFunctionOnSet(SquareOf(f, S), S) - SumFunctionOnSet(f, S) * SumFunctionOnSet(f, S)

LEMMA SquaresAreNatural ==
  \A n \in Int : n * n \in Nat /\ (n * n = 0 => n = 0)
<1> SUFFICES ASSUME NEW n \in Int PROVE n * n \in Nat /\ (n * n = 0 => n = 0)
  OBVIOUS
<1>1. CASE n >= 0
  BY <1>1
<1>2. CASE n < 0
  <2>1. n * n = (0 - n) * (0 - n)
    OBVIOUS
  <2> QED
    BY <1>2, <2>1
<1> QED
  BY <1>1, <1>2

\* The squares around any c, multiplied out.
LEMMA SumOfDistances ==
  ASSUME NEW S, IsFiniteSet(S), NEW f, Integral(f, S), NEW c \in Int
  PROVE  SumFunctionOnSet(Distances(f, S, c), S) =
           (SumFunctionOnSet(SquareOf(f, S), S) - 2 * (c * SumFunctionOnSet(f, S))) + Cardinality(S) * (c * c)
<1> DEFINE sq  == SquareOf(f, S)
           one == [x \in S |-> 1]
           mid == [x \in S |-> 1 * sq[x] + (0 - 2 * c) * f[x]]
           L   == SumFunctionOnSet(f, S)
           Q   == SumFunctionOnSet(sq, S)
           N   == Cardinality(S)
<1>1. Integral(sq, S) /\ Integral(one, S) /\ Integral(mid, S)
      /\ \A x \in S : one[x] = 1 /\ mid[x] = 1 * sq[x] + (0 - 2 * c) * f[x]
  BY DEF Integral, SquareOf
<1>2. \A x \in S : Distances(f, S, c)[x] = 1 * mid[x] + (c * c) * one[x]
  <2> SUFFICES ASSUME NEW x \in S PROVE Distances(f, S, c)[x] = 1 * mid[x] + (c * c) * one[x]
    OBVIOUS
  <2> DEFINE a == f[x]
  <2>1. a \in Int /\ Distances(f, S, c)[x] = (a - c) * (a - c)
        /\ mid[x] = 1 * (a * a) + (0 - 2 * c) * a /\ one[x] = 1
    BY DEF Integral, Distances, SquareOf
  <2> HIDE DEF a, mid, one
  <2>2. (a - c) * (a - c) = 1 * (1 * (a * a) + (0 - 2 * c) * a) + (c * c) * 1
    BY <2>1
  <2> QED
    BY <2>1, <2>2
<1> HIDE DEF sq, one, mid
<1>3. SumFunctionOnSet(mid, S) = 1 * Q + (0 - 2 * c) * L
  <2>1. 1 \in Int /\ 0 - 2 * c \in Int
    OBVIOUS
  <2> DEFINE b == 0 - 2 * c
  <2>2. b \in Int /\ \A x \in S : mid[x] = 1 * sq[x] + b * f[x]
    BY <1>1
  <2> HIDE DEF b
  <2>3. SumFunctionOnSet(mid, S) = 1 * Q + b * L
    BY <1>1, <2>1, <2>2, SumLinear
  <2> QED
    BY <2>3 DEF b
<1>4. SumFunctionOnSet(one, S) = N
  <2>1. N \in Int
    BY FS_CardinalityType
  <2>2. SumFunctionOnSet(one, S) = N * 1
    BY <1>1, SumOfConstant
  <2> HIDE DEF N
  <2> QED
    BY <2>1, <2>2
<1>5. SumFunctionOnSet(Distances(f, S, c), S) = 1 * SumFunctionOnSet(mid, S) + (c * c) * SumFunctionOnSet(one, S)
  <2> DEFINE cc == c * c
             d  == Distances(f, S, c)
  <2>1. 1 \in Int /\ cc \in Int /\ \A x \in S : d[x] = 1 * mid[x] + cc * one[x]
    BY <1>2
  <2> HIDE DEF cc, d
  <2>2. SumFunctionOnSet(d, S) = 1 * SumFunctionOnSet(mid, S) + cc * SumFunctionOnSet(one, S)
    BY <1>1, <2>1, SumLinear
  <2> QED
    BY <2>2 DEF cc, d
<1>6. L \in Int /\ Q \in Int /\ N \in Int
  BY <1>1, SumType, FS_CardinalityType
<1> HIDE DEF L, Q, N
<1>7. SumFunctionOnSet(Distances(f, S, c), S) = 1 * (1 * Q + (0 - 2 * c) * L) + (c * c) * N
  BY <1>3, <1>4, <1>5
<1>8. 1 * (1 * Q + (0 - 2 * c) * L) + (c * c) * N = (Q - 2 * (c * L)) + N * (c * c)
  BY <1>6
<1> QED
  BY <1>7, <1>8 DEF L, Q, N, sq

\* Taking an element out of a set takes its distances to the others out of the spread.
LEMMA SpreadWithout ==
  ASSUME NEW S, IsFiniteSet(S), NEW f, Integral(f, S), NEW x \in S
  PROVE  SpreadOf(f, S) = SpreadOf(f, S \ {x}) + SumFunctionOnSet(Distances(f, S \ {x}, f[x]), S \ {x})
<1> DEFINE R  == S \ {x}
           a  == f[x]
           L  == SumFunctionOnSet(f, R)
           Q  == SumFunctionOnSet(SquareOf(f, R), R)
           N  == Cardinality(R)
<1>1. IsFiniteSet(R) /\ Integral(f, R) /\ a \in Int /\ Integral(SquareOf(f, R), R) /\ Integral(SquareOf(f, S), S)
  BY FS_Subset DEF Integral, SquareOf
<1>2. SumFunctionOnSet(f, S) = a + L
  BY SumAny
<1>3. SumFunctionOnSet(SquareOf(f, S), S) = a * a + Q
  <2>1. SumFunctionOnSet(SquareOf(f, S), S) = SquareOf(f, S)[x] + SumFunctionOnSet(SquareOf(f, S), R)
    BY <1>1, SumAny
  <2>2. SquareOf(f, S)[x] = a * a
    BY DEF SquareOf
  <2>3. \A y \in R : SquareOf(f, R)[y] = SquareOf(f, S)[y]
    BY DEF SquareOf
  <2> HIDE DEF R
  <2>4. SumFunctionOnSet(SquareOf(f, S), R) = Q
    BY <1>1, <2>3, SumSame
  <2> QED
    BY <2>1, <2>2, <2>4
<1>4. Cardinality(S) = N + 1 /\ N \in Int
  <2>1. N = Cardinality(S) - 1
    BY FS_RemoveElement
  <2>2. Cardinality(S) \in Int
    BY FS_CardinalityType
  <2> HIDE DEF N
  <2> QED
    BY <2>1, <2>2
<1>5. L \in Int /\ Q \in Int
  BY <1>1, SumType
<1>6. SumFunctionOnSet(Distances(f, R, a), R) = (Q - 2 * (a * L)) + N * (a * a)
  <2> HIDE DEF R, a
  <2> QED
    BY <1>1, SumOfDistances
<1>7. SpreadOf(f, R) = N * Q - L * L
  BY DEF SpreadOf
<1>8. SpreadOf(f, S) = (N + 1) * (a * a + Q) - (a + L) * (a + L)
  BY <1>2, <1>3, <1>4 DEF SpreadOf
<1> HIDE DEF L, Q, N, a
<1>9. (N + 1) * (a * a + Q) - (a + L) * (a + L) = (N * Q - L * L) + ((Q - 2 * (a * L)) + N * (a * a))
  BY <1>1, <1>4, <1>5
<1> QED
  BY <1>6, <1>7, <1>8, <1>9 DEF a

\* A spread is not negative, and numbers without one are all the same.
LEMMA SpreadIsNatural ==
  ASSUME NEW S, IsFiniteSet(S), NEW f, Integral(f, S)
  PROVE  /\ SpreadOf(f, S) \in Nat
         /\ \A x \in S : SumFunctionOnSet(Distances(f, S \ {x}, f[x]), S \ {x}) <= SpreadOf(f, S)
         /\ SpreadOf(f, S) = 0 => \A x, y \in S : f[x] = f[y]
<1> DEFINE V(T) == SpreadOf(f, T)
           D(T, x) == SumFunctionOnSet(Distances(f, T, f[x]), T)
           Good == {T \in SUBSET S : V(T) \in Nat}
<1>1. ASSUME NEW T \in SUBSET S, NEW x \in S
      PROVE  /\ D(T, x) \in Nat
             /\ D(T, x) = 0 => \A y \in T : f[y] = f[x]
  <2> DEFINE d == Distances(f, T, f[x])
  <2>1. \A y \in T : d[y] \in Nat /\ (d[y] = 0 => f[y] = f[x])
    <3> SUFFICES ASSUME NEW y \in T PROVE d[y] \in Nat /\ (d[y] = 0 => f[y] = f[x])
      OBVIOUS
    <3>1. f[y] \in Int /\ f[x] \in Int /\ d[y] = (f[y] - f[x]) * (f[y] - f[x])
      BY DEF Integral, Distances
    <3> HIDE DEF d
    <3>2. f[y] - f[x] \in Int
      BY <3>1
    <3>3. d[y] \in Nat /\ (d[y] = 0 => f[y] - f[x] = 0)
      <4> DEFINE n == f[y] - f[x]
      <4>1. n \in Int /\ d[y] = n * n
        BY <3>1, <3>2
      <4> HIDE DEF n
      <4>2. d[y] \in Nat /\ (d[y] = 0 => n = 0)
        BY <4>1, SquaresAreNatural
      <4> QED
        BY <4>2 DEF n
    <3>4. f[y] - f[x] = 0 => f[y] = f[x]
      <4>1. \A a, b \in Int : a - b = 0 => a = b
        OBVIOUS
      <4> QED
        BY <3>1, <4>1
    <3> QED
      BY <3>3, <3>4
  <2>2. IsFiniteSet(T)
    BY FS_Subset
  <2> HIDE DEF d
  <2>3. SumFunctionOnSet(d, T) \in Nat /\ \A y \in T : d[y] <= SumFunctionOnSet(d, T)
    BY <2>1, <2>2, SumOfNaturals
  <2>4. D(T, x) = SumFunctionOnSet(d, T)
    BY DEF d
  <2> HIDE DEF D
  <2> QED
    BY <2>1, <2>3, <2>4
<1>2. ASSUME NEW T \in SUBSET S, NEW x \in T PROVE V(T) = V(T \ {x}) + D(T \ {x}, x)
  <2>1. IsFiniteSet(T) /\ Integral(f, T)
    BY FS_Subset DEF Integral
  <2> QED
    BY <2>1, SpreadWithout
<1>3. {} \in Good
  <2>1. SumFunctionOnSet(f, {}) = 0 /\ SumFunctionOnSet(SquareOf(f, {}), {}) = 0 /\ Cardinality({}) = 0
    BY SumEmpty, FS_EmptySet
  <2> QED
    BY <2>1 DEF SpreadOf
<1>4. ASSUME NEW T \in SUBSET S, NEW x \in S \ T, T \in Good PROVE T \cup {x} \in Good
  <2> DEFINE U == T \cup {x}
  <2>1. U \in SUBSET S /\ x \in U /\ U \ {x} = T
    OBVIOUS
  <2> HIDE DEF U
  <2>2. V(U) = V(T) + D(T, x)
    BY <1>2, <2>1
  <2>3. V(T) \in Nat /\ D(T, x) \in Nat
    BY <1>1, <1>4
  <2> HIDE DEF V, D
  <2>4. V(U) \in Nat
    BY <2>2, <2>3
  <2> QED
    BY <2>1, <2>4 DEF U
<1>5. \A T \in SUBSET S : V(T) \in Nat
  <2> SUFFICES ASSUME NEW T \in SUBSET S PROVE V(T) \in Nat
    OBVIOUS
  <2> DEFINE Fine == {U \in SUBSET T : U \in Good}
  <2>1. IsFiniteSet(T)
    BY FS_Subset
  <2>2. {} \in Fine
    BY <1>3
  <2>3. ASSUME NEW U \in SUBSET T, NEW x \in T \ U, U \in Fine PROVE U \cup {x} \in Fine
    <3>1. U \in SUBSET S /\ x \in S \ U /\ U \in Good
      BY <2>3
    <3> HIDE DEF Good
    <3>2. U \cup {x} \in Good
      BY <1>4, <3>1
    <3> QED
      BY <3>2
  <2>4. T \in Fine
    <3> HIDE DEF Fine
    <3> QED
      BY <2>1, <2>2, <2>3, Grow
  <2> QED
    BY <2>4
<1>6. ASSUME NEW x \in S
      PROVE  /\ D(S \ {x}, x) <= V(S)
             /\ V(S) = 0 => \A y \in S : f[y] = f[x]
  <2> DEFINE R == S \ {x}
  <2>1. V(S) = V(R) + D(R, x)
    BY <1>2
  <2>2. R \in SUBSET S /\ V(R) \in Nat
    BY <1>5
  <2> HIDE DEF R
  <2>3. D(R, x) \in Nat /\ (D(R, x) = 0 => \A y \in R : f[y] = f[x])
    BY <1>1, <2>2
  <2> HIDE DEF V, D
  <2>4. D(R, x) <= V(S) /\ (V(S) = 0 => D(R, x) = 0)
    BY <2>1, <2>2, <2>3
  <2>5. \A y \in S : y \in R \/ y = x
    BY DEF R
  <2> QED
    BY <2>3, <2>4, <2>5 DEF R
<1>7. V(S) \in Nat
  BY <1>5
<1> QED
  BY <1>6, <1>7
=============================================================================
