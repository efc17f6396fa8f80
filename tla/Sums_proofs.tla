----------------------------- MODULE Sums_proofs -----------------------------
(***************************************************************************)
(* What the library's sums over finite sets are, which it defines by       *)
(* recursion over the subsets: a sum depends on its summands alone, falls  *)
(* into the sums over parts, and counts what it adds ones for.             *)
(***************************************************************************)
EXTENDS Integers, FiniteSetsExt, FiniteSetTheorems, NaturalsInduction, WellFoundedInduction, TLAPS

\* A set of natural numbers has a least element.
LEMMA LeastIn ==
  ASSUME NEW S \in SUBSET Nat, S # {}
  PROVE  \E m \in S : \A k \in S : m <= k
  <1> DEFINE R == OpToRel(<, Nat)
  <1>1. IsWellFoundedOn(R, Nat)
    BY NatLessThanWellFounded
  <1>2. \A x \in Nat, y \in Nat : y < x => <<y, x>> \in R
    BY DEF OpToRel
  <1> HIDE DEF R
  <1>3. PICK x \in S : \A y \in S : ~(<<y, x>> \in R)
    BY <1>1, WFMin
  <1>4. ASSUME NEW k \in S PROVE x <= k
    <2>1. x \in Nat /\ k \in Nat /\ ~(k < x)
      BY <1>2, <1>3
    <2>2. QED
      BY <2>1
  <1>5. QED
    BY <1>4

\* Sums over a finite set: of g over S, an element of a set, and the function that
\* computes the sums over all subsets of S.
SumOf(g, S) == MapThenSumSet(LAMBDA x : g[x], S)
OneOf(s) == CHOOSE x \in s : TRUE
Adds(h, g, S) ==
  h = [s \in SUBSET S |-> IF s = {} THEN 0 ELSE g[OneOf(s)] + h[s \ {OneOf(s)}]]

\* A fold by addition is the function that adds one chosen element at a time.
LEMMA SumIs ==
  ASSUME NEW S, NEW g
  PROVE  SumOf(g, S) = (CHOOSE h : Adds(h, g, S))[S]
  BY DEF SumOf, MapThenSumSet, MapThenFoldSet, Adds, OneOf

\* Induction over the subsets of a finite set.
LEMMA Smaller ==
  ASSUME NEW S, IsFiniteSet(S), NEW G,
         \A T \in SUBSET S : (\A U \in SUBSET T : U # T => U \in G) => T \in G
  PROVE  \A T \in SUBSET S : T \in G
  <1> DEFINE Bad == {T \in SUBSET S : T \notin G}
             N == {Cardinality(T) : T \in Bad}
  <1>1. \A T \in SUBSET S : IsFiniteSet(T) /\ Cardinality(T) \in Nat
    BY FS_Subset, FS_CardinalityType
  <1>2. ASSUME Bad # {} PROVE FALSE
    <2>1. N \in SUBSET Nat /\ N # {}
      BY <1>1, <1>2
    <2> HIDE DEF N
    <2>2. PICK n \in N : \A k \in N : n <= k
      BY <2>1, LeastIn
    <2>3. PICK T \in Bad : n = Cardinality(T)
      BY DEF N
    <2>4. ASSUME NEW U \in SUBSET T, U # T PROVE U \in G
      <3>1. Cardinality(U) <= Cardinality(T) /\ Cardinality(U) # Cardinality(T)
        BY <1>1, <2>4, FS_Subset
      <3>2. U \in SUBSET S /\ Cardinality(U) \in Nat /\ Cardinality(T) \in Nat
        BY <1>1
      <3>3. ASSUME U \in Bad PROVE FALSE
        <4>1. Cardinality(U) \in N
          BY <3>3 DEF N
        <4>2. n <= Cardinality(U)
          BY <2>2, <4>1
        <4>3. QED
          BY <2>3, <3>1, <3>2, <4>2
      <3>4. QED
        BY <3>2, <3>3
    <2>5. QED
      BY <2>4
  <1>3. QED
    BY <1>2

\* The chosen element of a set is one of its elements.
LEMMA SomeIn ==
  ASSUME NEW S, S # {}
  PROVE  OneOf(S) \in S
  BY DEF OneOf

\* A recursive definition that takes one element at a time off a finite set defines a function.
Takes(h, S, base, step, pick) ==
  \A s \in SUBSET S : h[s] = IF s = {} THEN base ELSE step[<<s, h[s \ {pick[s]}]>>]

LEMMA TakesExists ==
  ASSUME NEW S, IsFiniteSet(S), NEW V, NEW base \in V, NEW step, NEW pick,
         \A s \in SUBSET S : s # {} => pick[s] \in s,
         \A s \in SUBSET S : \A v \in V : s # {} => step[<<s, v>>] \in V
  PROVE  \E h \in [SUBSET S -> V] : Takes(h, S, base, step, pick)
  <1> DEFINE D(n) == {s \in SUBSET S : Cardinality(s) <= n}
             Up(h, n) == \A s \in D(n) : h[s] = IF s = {} THEN base ELSE step[<<s, h[s \ {pick[s]}]>>]
             Bad == {n \in Nat : ~\E h \in [D(n) -> V] : Up(h, n)}
  <1>1. \A s \in SUBSET S : IsFiniteSet(s) /\ Cardinality(s) \in Nat
    BY FS_Subset, FS_CardinalityType
  <1>2. \A s \in SUBSET S : s # {} => pick[s] \in s /\ Cardinality(s \ {pick[s]}) = Cardinality(s) - 1
    BY <1>1, FS_RemoveElement
  <1>3. 0 \notin Bad
    <2>1. \A s \in D(0) : s = {}
      BY <1>1, FS_EmptySet
    <2>2. [s \in D(0) |-> base] \in [D(0) -> V] /\ Up([s \in D(0) |-> base], 0)
      BY <2>1
    <2>3. QED
      BY <2>2
  <1>4. ASSUME NEW n \in Nat, n \notin Bad PROVE n + 1 \notin Bad
    <2>1. PICK h \in [D(n) -> V] : Up(h, n)
      BY <1>4
    <2> DEFINE k == [s \in D(n + 1) |-> IF Cardinality(s) <= n THEN h[s] ELSE step[<<s, h[s \ {pick[s]}]>>]]
    <2>0. Cardinality({}) <= n
      BY FS_EmptySet
    <2>2. \A s \in D(n + 1) : Cardinality(s) <= n => s \in D(n)
      OBVIOUS
    <2>3. ASSUME NEW s \in D(n + 1), s # {}
          PROVE  /\ s \ {pick[s]} \in D(n) /\ s \ {pick[s]} \in D(n + 1)
                 /\ k[s \ {pick[s]}] = h[s \ {pick[s]}]
      <3>1. Cardinality(s \ {pick[s]}) <= n /\ s \ {pick[s]} \in SUBSET S /\ Cardinality(s \ {pick[s]}) \in Nat
        BY <1>1, <1>2, <2>3
      <3>2. s \ {pick[s]} \in D(n) /\ s \ {pick[s]} \in D(n + 1)
        BY <3>1
      <3>3. QED
        BY <3>1, <3>2
    <2>4. ASSUME NEW s \in D(n + 1) PROVE k[s] \in V
      <3>1. CASE Cardinality(s) <= n
        BY <3>1, <2>2
      <3>2. CASE ~(Cardinality(s) <= n)
        <4>1. s # {} /\ s \in SUBSET S
          BY <3>2, <2>0
        <4>2. h[s \ {pick[s]}] \in V
          BY <2>3, <4>1
        <4>3. step[<<s, h[s \ {pick[s]}]>>] \in V
          BY <4>1, <4>2
        <4>4. QED
          BY <3>2, <4>3
      <3> HIDE DEF k, D
      <3>3. QED
        BY <3>1, <3>2
    <2>5. ASSUME NEW s \in D(n + 1) PROVE k[s] = IF s = {} THEN base ELSE step[<<s, k[s \ {pick[s]}]>>]
      <3>1. CASE Cardinality(s) <= n
        <4>1. s \in D(n) /\ k[s] = h[s]
          BY <2>2, <3>1
        <4>2. h[s] = IF s = {} THEN base ELSE step[<<s, h[s \ {pick[s]}]>>]
          BY <2>1, <4>1
        <4> HIDE DEF k
        <4>3. QED
          BY <2>3, <4>1, <4>2
      <3>2. CASE ~(Cardinality(s) <= n)
        <4>1. s # {}
          BY <3>2, <2>0
        <4>2. k[s] = step[<<s, h[s \ {pick[s]}]>>]
          BY <3>2
        <4> HIDE DEF k
        <4>3. QED
          BY <2>3, <4>1, <4>2
      <3>3. QED
        BY <3>1, <3>2
    <2>6. k \in [D(n + 1) -> V]
      BY <2>4
    <2> HIDE DEF k
    <2>7. Up(k, n + 1)
      BY <2>5
    <2>8. QED
      BY <2>6, <2>7
  <1>b. Bad \subseteq Nat
    OBVIOUS
  <1> HIDE DEF Bad
  <1>5. ASSUME Bad # {} PROVE FALSE
    <2>1. PICK m \in Bad : \A k \in Bad : m <= k
      BY <1>5, <1>b, LeastIn
    <2>2. m \in Nat /\ m # 0
      BY <1>3, <1>b
    <2>3. m - 1 \in Nat /\ m - 1 \notin Bad
      <3>1. m - 1 \in Nat /\ ~(m <= m - 1)
        BY <2>2
      <3>2. QED
        BY <2>1, <3>1
    <2>4. (m - 1) + 1 \notin Bad
      BY <1>4, <2>3
    <2>5. QED
      BY <2>2, <2>4
  <1>6. PICK h \in [D(Cardinality(S)) -> V] : Up(h, Cardinality(S))
    BY <1>1, <1>5 DEF Bad
  <1>7. D(Cardinality(S)) = SUBSET S
    BY FS_Subset
  <1>8. h \in [SUBSET S -> V]
    BY <1>6, <1>7
  <1>9. Takes(h, S, base, step, pick)
    BY <1>6, <1>7 DEF Takes
  <1>10. QED
    BY <1>8, <1>9

\* The recursive definition of a sum defines a function.
LEMMA SumExists ==
  ASSUME NEW S, IsFiniteSet(S), NEW g, \A x \in S : g[x] \in Int
  PROVE  \E h \in [SUBSET S -> Int] : Adds(h, g, S)
  <1> DEFINE pick == [s \in SUBSET S |-> OneOf(s)]
             step == [x \in (SUBSET S) \X Int |-> g[OneOf(x[1])] + x[2]]
  <1>1. \A s \in SUBSET S : s # {} => pick[s] \in s /\ pick[s] = OneOf(s)
    BY SomeIn
  <1>2. \A s \in SUBSET S, v \in Int : s # {} => step[<<s, v>>] = g[OneOf(s)] + v /\ step[<<s, v>>] \in Int
    <2>1. ASSUME NEW s \in SUBSET S, NEW v \in Int, s # {}
          PROVE  step[<<s, v>>] = g[OneOf(s)] + v /\ step[<<s, v>>] \in Int
      <3>1. g[OneOf(s)] \in Int
        BY <1>1, <2>1
      <3>2. step[<<s, v>>] = g[OneOf(s)] + v
        OBVIOUS
      <3>3. QED
        BY <3>1, <3>2
    <2>2. QED
      BY <2>1
  <1> HIDE DEF pick, step
  <1>3. PICK h \in [SUBSET S -> Int] : Takes(h, S, 0, step, pick)
    <2>1. 0 \in Int /\ \A s \in SUBSET S : s # {} => pick[s] \in s
      BY <1>1
    <2>2. \A s \in SUBSET S : \A v \in Int : s # {} => step[<<s, v>>] \in Int
      BY <1>2
    <2>3. QED
      BY <2>1, <2>2, TakesExists
  <1>4. ASSUME NEW s \in SUBSET S PROVE h[s] = IF s = {} THEN 0 ELSE g[OneOf(s)] + h[s \ {OneOf(s)}]
    <2>1. s # {} => h[s \ {OneOf(s)}] \in Int /\ pick[s] = OneOf(s)
      BY <1>1
    <2>2. QED
      BY <1>2, <1>3, <2>1 DEF Takes
  <1>5. QED
    BY <1>4 DEF Adds

\* The function itself, and when it is one.
SumFun(g, S) == CHOOSE h : Adds(h, g, S)
Summable(g, S) == IsFiniteSet(S) /\ \A x \in S : g[x] \in Int

\* That function over all subsets of a finite set, its values, and the sum it is.
LEMMA SumFunIs ==
  ASSUME NEW S, NEW g, Summable(g, S)
  PROVE  /\ SumFun(g, S)[{}] = 0
         /\ \A T \in SUBSET S : T # {} => SumFun(g, S)[T] = g[OneOf(T)] + SumFun(g, S)[T \ {OneOf(T)}]
         /\ \A T \in SUBSET S : SumFun(g, S)[T] \in Int
         /\ SumOf(g, S) = SumFun(g, S)[S]
  <1> DEFINE h == SumFun(g, S)
             G == {T \in SUBSET S : h[T] \in Int}
  <1>1. \E k : Adds(k, g, S)
    BY SumExists DEF Summable
  <1>2. Adds(h, g, S)
    BY <1>1 DEF SumFun
  <1>3. SumOf(g, S) = h[S]
    BY SumIs DEF SumFun
  <1> HIDE DEF h
  <1>4. /\ h[{}] = 0
        /\ \A T \in SUBSET S : T # {} => h[T] = g[OneOf(T)] + h[T \ {OneOf(T)}]
    BY <1>2 DEF Adds
  <1>5. ASSUME NEW T \in SUBSET S, \A U \in SUBSET T : U # T => U \in G PROVE T \in G
    <2>1. CASE T = {}
      BY <1>4, <2>1
    <2>2. CASE T # {}
      <3>1. OneOf(T) \in T
        BY <2>2, SomeIn
      <3>2. T \ {OneOf(T)} \in G /\ g[OneOf(T)] \in Int
        BY <1>5, <3>1 DEF Summable
      <3>3. h[T \ {OneOf(T)}] \in Int
        BY <3>2
      <3>4. h[T] = g[OneOf(T)] + h[T \ {OneOf(T)}]
        BY <1>4, <2>2
      <3>5. h[T] \in Int
        BY <3>2, <3>3, <3>4
      <3>6. QED
        BY <3>5
    <2>3. QED
      BY <2>1, <2>2
  <1> HIDE DEF G
  <1>6. \A T \in SUBSET S : T \in G
    BY <1>5, Smaller DEF Summable
  <1>7. QED
    BY <1>3, <1>4, <1>6 DEF G, h

\* A sum depends on the summands alone.
LEMMA SumFunAgrees ==
  ASSUME NEW S, NEW R, NEW g, NEW k, Summable(g, S), Summable(k, R), R \subseteq S,
         \A x \in R : g[x] = k[x]
  PROVE  SumFun(g, S)[R] = SumFun(k, R)[R]
  <1> DEFINE G == {T \in SUBSET R : SumFun(g, S)[T] = SumFun(k, R)[T]}
  <1>1. /\ SumFun(g, S)[{}] = 0
        /\ \A T \in SUBSET S : T # {} => SumFun(g, S)[T] = g[OneOf(T)] + SumFun(g, S)[T \ {OneOf(T)}]
    BY SumFunIs
  <1>2. /\ SumFun(k, R)[{}] = 0
        /\ \A T \in SUBSET R : T # {} => SumFun(k, R)[T] = k[OneOf(T)] + SumFun(k, R)[T \ {OneOf(T)}]
    BY SumFunIs
  <1>3. ASSUME NEW T \in SUBSET R, \A U \in SUBSET T : U # T => U \in G PROVE T \in G
    <2>1. CASE T = {}
      BY <1>1, <1>2, <2>1
    <2>2. CASE T # {}
      <3>1. OneOf(T) \in T
        BY <2>2, SomeIn
      <3>2. T \ {OneOf(T)} \in G /\ g[OneOf(T)] = k[OneOf(T)]
        BY <1>3, <3>1
      <3>3. SumFun(g, S)[T \ {OneOf(T)}] = SumFun(k, R)[T \ {OneOf(T)}]
        BY <3>2
      <3>4. SumFun(g, S)[T] = g[OneOf(T)] + SumFun(g, S)[T \ {OneOf(T)}]
        BY <1>1, <2>2
      <3>5. SumFun(k, R)[T] = k[OneOf(T)] + SumFun(k, R)[T \ {OneOf(T)}]
        BY <1>2, <2>2
      <3>6. QED
        BY <3>2, <3>3, <3>4, <3>5
    <2>3. QED
      BY <2>1, <2>2
  <1> HIDE DEF G
  <1>4. \A T \in SUBSET R : T \in G
    BY <1>3, Smaller DEF Summable
  <1>5. QED
    BY <1>4 DEF G

\* Equal summands make equal sums.
LEMMA SumAgrees ==
  ASSUME NEW S, NEW g, NEW k, Summable(g, S), \A x \in S : g[x] = k[x]
  PROVE  SumOf(g, S) = SumOf(k, S)
  <1>1. Summable(k, S)
    BY DEF Summable
  <1>2. SumFun(g, S)[S] = SumFun(k, S)[S]
    BY <1>1, SumFunAgrees
  <1>3. QED
    BY <1>1, <1>2, SumFunIs

\* A sum of integers is an integer, 0 over no summands, and adds the chosen element to the rest.
LEMMA SumStep ==
  ASSUME NEW S, NEW g, Summable(g, S)
  PROVE  /\ SumOf(g, S) \in Int
         /\ S = {} => SumOf(g, S) = 0
         /\ S # {} => SumOf(g, S) = g[OneOf(S)] + SumOf(g, S \ {OneOf(S)})
  <1>1. SumOf(g, S) = SumFun(g, S)[S] /\ SumFun(g, S)[S] \in Int /\ SumFun(g, S)[{}] = 0
    BY SumFunIs
  <1>2. ASSUME S # {} PROVE SumOf(g, S) = g[OneOf(S)] + SumOf(g, S \ {OneOf(S)})
    <2> DEFINE R == S \ {OneOf(S)}
    <2>1. R \subseteq S /\ Summable(g, R)
      BY FS_RemoveElement DEF Summable
    <2> HIDE DEF R
    <2>2. SumFun(g, S)[R] = SumFun(g, R)[R] /\ SumOf(g, R) = SumFun(g, R)[R]
      BY <2>1, SumFunAgrees, SumFunIs
    <2>3. SumFun(g, S)[S] = g[OneOf(S)] + SumFun(g, S)[S \ {OneOf(S)}]
      BY <1>2, SumFunIs
    <2>4. QED
      BY <1>1, <2>2, <2>3 DEF R
  <1>3. QED
    BY <1>1, <1>2

\* Any element may be added last.
LEMMA SumRemove ==
  ASSUME NEW S, NEW g, Summable(g, S), NEW x \in S
  PROVE  SumOf(g, S) = g[x] + SumOf(g, S \ {x})
  <1> DEFINE G == {T \in SUBSET S : \A y \in T : SumOf(g, T) = g[y] + SumOf(g, T \ {y})}
  <1>1. \A T \in SUBSET S : Summable(g, T)
    BY FS_Subset DEF Summable
  <1>2. ASSUME NEW T \in SUBSET S, \A U \in SUBSET T : U # T => U \in G PROVE T \in G
    <2>1. ASSUME NEW y \in T PROVE SumOf(g, T) = g[y] + SumOf(g, T \ {y})
      <3> DEFINE c == OneOf(T)
      <3>1. c \in T
        BY SomeIn
      <3>2. SumOf(g, T) = g[c] + SumOf(g, T \ {c})
        BY <1>1, SumStep
      <3> HIDE DEF c
      <3>3. CASE y = c
        BY <3>2, <3>3
      <3>4. CASE y # c
        <4>1. T \ {c} \in G /\ T \ {y} \in G /\ y \in T \ {c} /\ c \in T \ {y}
          BY <1>2, <3>1, <3>4
        <4>2. (T \ {c}) \ {y} = (T \ {y}) \ {c}
          OBVIOUS
        <4>3. SumOf(g, T \ {c}) = g[y] + SumOf(g, (T \ {c}) \ {y})
          BY <4>1
        <4>4. SumOf(g, T \ {y}) = g[c] + SumOf(g, (T \ {c}) \ {y})
          BY <4>1, <4>2
        <4>5. g[c] \in Int /\ g[y] \in Int /\ SumOf(g, (T \ {c}) \ {y}) \in Int
          <5>1. (T \ {c}) \ {y} \in SUBSET S
            OBVIOUS
          <5>2. QED
            BY <1>1, <3>1, <5>1, SumStep DEF Summable
        <4>6. QED
          BY <3>2, <4>3, <4>4, <4>5
      <3>5. QED
        BY <3>3, <3>4
    <2>2. QED
      BY <2>1
  <1> HIDE DEF G
  <1>3. S \in G
    BY <1>2, Smaller DEF Summable
  <1>4. QED
    BY <1>3 DEF G

\* A sum over a set is the sum over a part and over the rest.
LEMMA SumSplit ==
  ASSUME NEW S, NEW g, Summable(g, S), NEW A \in SUBSET S
  PROVE  SumOf(g, S) = SumOf(g, A) + SumOf(g, S \ A)
  <1> DEFINE G == {T \in SUBSET S : SumOf(g, S) = SumOf(g, T) + SumOf(g, S \ T)}
  <1>1. \A T \in SUBSET S : Summable(g, T) /\ Summable(g, S \ T)
    BY FS_Subset DEF Summable
  <1>2. \A T \in SUBSET S : SumOf(g, T) \in Int /\ SumOf(g, S \ T) \in Int
    BY <1>1, SumStep
  <1>3. ASSUME NEW T \in SUBSET S, \A U \in SUBSET T : U # T => U \in G PROVE T \in G
    <2>1. CASE T = {}
      <3>1. SumOf(g, T) = 0 /\ S \ T = S
        BY <1>1, <2>1, SumStep
      <3>2. SumOf(g, S) \in Int
        BY SumStep
      <3>3. QED
        BY <3>1, <3>2
    <2>2. CASE T # {}
      <3>1. PICK x \in T : TRUE
        BY <2>2
      <3>2. T \ {x} \in G /\ g[x] \in Int /\ x \in S \ (T \ {x})
        BY <1>3, <3>1 DEF Summable
      <3>3. SumOf(g, S) = SumOf(g, T \ {x}) + SumOf(g, S \ (T \ {x}))
        BY <3>2
      <3>4. SumOf(g, T) = g[x] + SumOf(g, T \ {x})
        BY <1>1, SumRemove
      <3>5. SumOf(g, S \ (T \ {x})) = g[x] + SumOf(g, (S \ (T \ {x})) \ {x})
        BY <1>1, <3>2, SumRemove
      <3>6. (S \ (T \ {x})) \ {x} = S \ T
        BY <3>1
      <3>7. SumOf(g, T \ {x}) \in Int /\ SumOf(g, S \ T) \in Int
        BY <1>2
      <3>a. SumOf(g, S \ (T \ {x})) = g[x] + SumOf(g, S \ T)
        BY <3>5, <3>6
      <3> HIDE DEF G
      <3>8. SumOf(g, S) = SumOf(g, T) + SumOf(g, S \ T)
        BY <3>2, <3>3, <3>4, <3>7, <3>a
      <3>9. QED
        BY <3>8 DEF G
    <2>3. QED
      BY <2>1, <2>2
  <1> HIDE DEF G
  <1>4. \A T \in SUBSET S : T \in G
    BY <1>3, Smaller DEF Summable
  <1>5. QED
    BY <1>4 DEF G

\* A sum of summands from a set that is closed under addition is one of its elements.
LEMMA SumIn ==
  ASSUME NEW S, NEW g, NEW N \in SUBSET Int, IsFiniteSet(S), \A x \in S : g[x] \in N,
         0 \in N, \A a \in N, b \in N : a + b \in N
  PROVE  SumOf(g, S) \in N
  <1> DEFINE G == {T \in SUBSET S : SumOf(g, T) \in N}
  <1>1. \A T \in SUBSET S : Summable(g, T)
    <2>1. \A x \in S : g[x] \in Int
      OBVIOUS
    <2>2. QED
      BY <2>1, FS_Subset DEF Summable
  <1>2. ASSUME NEW T \in SUBSET S, \A U \in SUBSET T : U # T => U \in G PROVE T \in G
    <2>1. CASE T = {}
      BY <1>1, <2>1, SumStep
    <2>2. CASE T # {}
      <3>1. OneOf(T) \in T
        BY <2>2, SomeIn
      <3>2. T \ {OneOf(T)} \in G /\ g[OneOf(T)] \in N
        BY <1>2, <3>1
      <3>3. SumOf(g, T) = g[OneOf(T)] + SumOf(g, T \ {OneOf(T)})
        BY <1>1, <2>2, SumStep
      <3>4. SumOf(g, T \ {OneOf(T)}) \in N
        BY <3>2
      <3>5. SumOf(g, T) \in N
        BY <3>2, <3>3, <3>4
      <3>6. QED
        BY <3>5
    <2>3. QED
      BY <2>1, <2>2
  <1> HIDE DEF G
  <1>3. \A T \in SUBSET S : T \in G
    BY <1>2, Smaller
  <1>4. QED
    BY <1>3 DEF G

\* A sum over a set is the sum over the parts it falls into.
LEMMA SumParts ==
  ASSUME NEW S, NEW g, Summable(g, S), NEW K, IsFiniteSet(K), NEW part, NEW s,
         \A i \in K : part[i] \subseteq S /\ s[i] = SumOf(g, part[i]),
         \A i \in K, j \in K : i # j => part[i] \cap part[j] = {},
         \A x \in S : \E i \in K : x \in part[i]
  PROVE  SumOf(g, S) = SumOf(s, K)
  <1> DEFINE Of(T) == UNION {part[i] : i \in T}
             G == {T \in SUBSET K : SumOf(s, T) = SumOf(g, Of(T))}
  <1>1. \A R \in SUBSET S : Summable(g, R) /\ SumOf(g, R) \in Int
    <2>1. \A R \in SUBSET S : Summable(g, R)
      BY FS_Subset DEF Summable
    <2>2. QED
      BY <2>1, SumStep
  <1>2. \A T \in SUBSET K : Summable(s, T) /\ Of(T) \in SUBSET S
    BY <1>1, FS_Subset DEF Summable
  <1>3. ASSUME NEW T \in SUBSET K, \A U \in SUBSET T : U # T => U \in G PROVE T \in G
    <2>1. CASE T = {}
      <3>1. SumOf(s, T) = 0
        BY <1>2, <2>1, SumStep
      <3>2. Of(T) = {}
        BY <2>1
      <3>3. SumOf(g, Of(T)) = 0
        BY <1>1, <3>2, SumStep
      <3>4. QED
        BY <3>1, <3>3
    <2>2. CASE T # {}
      <3>1. PICK i \in T : TRUE
        BY <2>2
      <3>2. T \ {i} \in G
        BY <1>3, <3>1
      <3>3. SumOf(s, T) = s[i] + SumOf(s, T \ {i})
        BY <1>2, <3>1, SumRemove
      <3>4. Of(T) \in SUBSET S /\ part[i] \in SUBSET Of(T) /\ Of(T) \ part[i] = Of(T \ {i})
        <4>1. \A j \in T : j # i => part[i] \cap part[j] = {}
          OBVIOUS
        <4>2. QED
          BY <1>2, <4>1
      <3>5. SumOf(g, Of(T)) = SumOf(g, part[i]) + SumOf(g, Of(T) \ part[i])
        BY <1>1, <3>4, SumSplit
      <3>6. s[i] = SumOf(g, part[i])
        OBVIOUS
      <3>7. SumOf(s, T \ {i}) = SumOf(g, Of(T \ {i}))
        BY <3>2
      <3>8. QED
        BY <3>3, <3>4, <3>5, <3>6, <3>7
    <2>3. QED
      BY <2>1, <2>2
  <1>4. K \in G
    <2> HIDE DEF G
    <2>1. QED
      BY <1>3, Smaller
  <1>5. Of(K) = S
    OBVIOUS
  <1>6. QED
    BY <1>4, <1>5

\* Two sums over one set are one.
LEMMA SumAdd ==
  ASSUME NEW S, NEW f, NEW g, NEW h, Summable(f, S), Summable(g, S), \A x \in S : h[x] = f[x] + g[x]
  PROVE  SumOf(h, S) = SumOf(f, S) + SumOf(g, S)
  <1> DEFINE G == {T \in SUBSET S : SumOf(h, T) = SumOf(f, T) + SumOf(g, T)}
  <1>1. \A T \in SUBSET S : Summable(f, T) /\ Summable(g, T) /\ Summable(h, T)
    BY FS_Subset DEF Summable
  <1>2. ASSUME NEW T \in SUBSET S, \A U \in SUBSET T : U # T => U \in G PROVE T \in G
    <2>1. CASE T = {}
      <3>1. SumOf(f, T) = 0 /\ SumOf(g, T) = 0 /\ SumOf(h, T) = 0
        BY <1>1, <2>1, SumStep
      <3>2. QED
        BY <3>1
    <2>2. CASE T # {}
      <3>1. PICK x \in T : TRUE
        BY <2>2
      <3>2. T \ {x} \in G
        BY <1>2, <3>1
      <3>3. /\ SumOf(f, T) = f[x] + SumOf(f, T \ {x})
            /\ SumOf(g, T) = g[x] + SumOf(g, T \ {x})
            /\ SumOf(h, T) = h[x] + SumOf(h, T \ {x})
        BY <1>1, <3>1, SumRemove
      <3>4. f[x] \in Int /\ g[x] \in Int /\ SumOf(f, T \ {x}) \in Int /\ SumOf(g, T \ {x}) \in Int
        <4>1. T \ {x} \in SUBSET S /\ x \in S
          OBVIOUS
        <4>2. Summable(f, T \ {x}) /\ Summable(g, T \ {x})
          BY <1>1, <4>1
        <4>3. SumOf(f, T \ {x}) \in Int /\ SumOf(g, T \ {x}) \in Int
          BY <4>2, SumStep
        <4>4. f[x] \in Int /\ g[x] \in Int
          BY <4>1 DEF Summable
        <4>5. QED
          BY <4>3, <4>4
      <3>5. SumOf(h, T \ {x}) = SumOf(f, T \ {x}) + SumOf(g, T \ {x}) /\ h[x] = f[x] + g[x]
        BY <3>2
      <3> HIDE DEF G
      <3>6. SumOf(h, T) = SumOf(f, T) + SumOf(g, T)
        BY <3>3, <3>4, <3>5
      <3>7. QED
        BY <3>6 DEF G
    <2>3. QED
      BY <2>1, <2>2
  <1> HIDE DEF G
  <1>3. S \in G
    BY <1>2, Smaller DEF Summable
  <1>4. QED
    BY <1>3 DEF G

\* A set has as many elements as ones add up to.
LEMMA SumOfOnes ==
  ASSUME NEW S, IsFiniteSet(S), NEW g, \A x \in S : g[x] = 1
  PROVE  SumOf(g, S) = Cardinality(S) /\ Summable(g, S)
  <1> DEFINE G == {T \in SUBSET S : SumOf(g, T) = Cardinality(T)}
  <1>1. \A T \in SUBSET S : Summable(g, T) /\ IsFiniteSet(T) /\ Cardinality(T) \in Nat
    BY FS_Subset, FS_CardinalityType DEF Summable
  <1>2. ASSUME NEW T \in SUBSET S, \A U \in SUBSET T : U # T => U \in G PROVE T \in G
    <2>1. CASE T = {}
      BY <1>1, <2>1, SumStep, FS_EmptySet
    <2>2. CASE T # {}
      <3>1. PICK x \in T : TRUE
        BY <2>2
      <3>2. T \ {x} \in G
        BY <1>2, <3>1
      <3>3. SumOf(g, T) = g[x] + SumOf(g, T \ {x}) /\ Cardinality(T \ {x}) = Cardinality(T) - 1
        BY <1>1, <3>1, SumRemove, FS_RemoveElement
      <3>4. QED
        BY <1>1, <3>2, <3>3
    <2>3. QED
      BY <2>1, <2>2
  <1> HIDE DEF G
  <1>3. S \in G
    BY <1>2, Smaller
  <1>4. QED
    BY <1>1, <1>3 DEF G

\* A sum over one element.
LEMMA SumOfOne ==
  ASSUME NEW g, NEW x, g[x] \in Int
  PROVE  SumOf(g, {x}) = g[x]
  <1> DEFINE S == {x}
             none == S \ {x}
  <1>1. Summable(g, S) /\ x \in S /\ none = {}
    BY FS_Singleton DEF Summable
  <1>2. Summable(g, {})
    BY FS_EmptySet DEF Summable
  <1> HIDE DEF S
  <1>3. SumOf(g, S) = g[x] + SumOf(g, none)
    BY <1>1, SumRemove
  <1>4. SumOf(g, none) = 0
    BY <1>1, <1>2, SumStep
  <1>5. SumOf(g, S) = g[x]
    BY <1>3, <1>4
  <1>6. QED
    BY <1>5 DEF S

\* The image of a finite set is finite.
LEMMA ImageFinite ==
  ASSUME NEW S, IsFiniteSet(S), NEW f
  PROVE  IsFiniteSet({f[x] : x \in S})
  <1> DEFINE T == {f[x] : x \in S}
             k == [x \in S |-> f[x]]
  <1>1. k \in Surjection(S, T)
    BY DEF Surjection
  <1> HIDE DEF k, T
  <1>2. IsFiniteSet(T)
    BY <1>1, FS_Surjection
  <1>3. QED
    BY <1>2 DEF T

\* A sum over the rows of a table, one row for each i, is the sum over the i.
LEMMA SumOfRows ==
  ASSUME NEW I, IsFiniteSet(I), NEW row, NEW w, \A i \in I : w[i] \in Int,
         \A i \in I, j \in I : row[i] = row[j] => i = j,
         NEW g, \A i \in I : g[row[i]] = w[i]
  PROVE  SumOf(g, {row[i] : i \in I}) = SumOf(w, I)
  <1> DEFINE S == {row[i] : i \in I}
             part == [i \in I |-> {row[i]}]
  <1>1. IsFiniteSet(S)
    BY ImageFinite
  <1>2. Summable(g, S)
    BY <1>1 DEF Summable
  <1>3. \A i \in I : part[i] \subseteq S /\ w[i] = SumOf(g, part[i])
    <2>1. ASSUME NEW i \in I PROVE part[i] \subseteq S /\ w[i] = SumOf(g, part[i])
      <3>1. part[i] = {row[i]} /\ row[i] \in S
        OBVIOUS
      <3> HIDE DEF S, part
      <3>2. SumOf(g, {row[i]}) = w[i]
        BY SumOfOne
      <3>3. QED
        BY <3>1, <3>2
    <2>2. QED
      BY <2>1
  <1>4. \A i \in I, j \in I : i # j => part[i] \cap part[j] = {}
    OBVIOUS
  <1>5. \A x \in S : \E i \in I : x \in part[i]
    OBVIOUS
  <1> HIDE DEF S, part
  <1>6. SumOf(g, S) = SumOf(w, I)
    BY <1>2, <1>3, <1>4, <1>5, SumParts
  <1>7. QED
    BY <1>6 DEF S

\* The count of one.
Ones(S) == [x \in S |-> 1]

\* A finite set has as many members as there are ones to add over it.
LEMMA CountSums ==
  ASSUME NEW S, IsFiniteSet(S)
  PROVE  Summable(Ones(S), S) /\ \A T \in SUBSET S : Cardinality(T) = SumOf(Ones(S), T)
  <1>1. \A x \in S : Ones(S)[x] = 1
    BY DEF Ones
  <1>2. Summable(Ones(S), S)
    BY <1>1 DEF Summable
  <1>3. ASSUME NEW T \in SUBSET S PROVE Cardinality(T) = SumOf(Ones(S), T)
    <2>1. IsFiniteSet(T) /\ \A x \in T : Ones(S)[x] = 1
      BY <1>1, FS_Subset
    <2>2. QED
      BY <2>1, SumOfOnes
  <1>4. QED
    BY <1>2, <1>3

\* A sum grows with what it adds up.
LEMMA SumAtMost ==
  ASSUME NEW S, NEW f, NEW g, Summable(f, S), Summable(g, S), \A x \in S : f[x] <= g[x]
  PROVE  SumOf(f, S) <= SumOf(g, S)
  <1> DEFINE d == [x \in S |-> g[x] - f[x]]
  <1>1. \A x \in S : d[x] = g[x] - f[x] /\ d[x] \in Nat
    BY DEF Summable
  <1> HIDE DEF d
  <1>2. Summable(d, S) /\ \A x \in S : g[x] = f[x] + d[x]
    BY <1>1 DEF Summable
  <1>3. SumOf(g, S) = SumOf(f, S) + SumOf(d, S)
    BY <1>2, SumAdd
  <1>4. SumOf(d, S) \in Nat
    <2>1. IsFiniteSet(S) /\ Nat \in SUBSET Int /\ 0 \in Nat /\ \A a \in Nat, b \in Nat : a + b \in Nat
      BY DEF Summable
    <2>2. QED
      BY <1>1, <2>1, SumIn
  <1>5. SumOf(f, S) \in Int
    BY SumStep
  <1>6. QED
    BY <1>3, <1>4, <1>5

\* Summands that are nothing may be left out.
LEMMA SumWithout ==
  ASSUME NEW S, NEW g, Summable(g, S), NEW A \in SUBSET S, \A x \in S \ A : g[x] = 0
  PROVE  SumOf(g, S) = SumOf(g, A)
  <1> DEFINE rest == S \ A
             N == {0}
  <1>1. IsFiniteSet(rest) /\ Summable(g, A)
    BY FS_Subset DEF Summable
  <1>2. N \in SUBSET Int /\ 0 \in N /\ (\A a \in N, b \in N : a + b \in N) /\ \A x \in rest : g[x] \in N
    OBVIOUS
  <1>3. SumOf(g, S) = SumOf(g, A) + SumOf(g, rest)
    BY SumSplit
  <1> HIDE DEF rest
  <1>4. SumOf(g, rest) \in N
    BY <1>1, <1>2, SumIn
  <1>5. SumOf(g, A) \in Int
    BY <1>1, SumStep
  <1>6. QED
    BY <1>3, <1>4, <1>5

\* A family of sets of members of E, counted; and pairwise disjoint ones.
Counts(c, A, K, E) ==
  /\ IsFiniteSet(K) /\ IsFiniteSet(E)
  /\ \A s \in K : A[s] \subseteq E /\ c[s] = Cardinality(A[s])
Disjoint(A, K) == \A s \in K, t \in K : s # t => A[s] \cap A[t] = {}

\* The counts of disjoint sets add up to the count of their union.
LEMMA CountParts ==
  ASSUME NEW c, NEW A, NEW K, NEW E, Counts(c, A, K, E), Disjoint(A, K)
  PROVE  Summable(c, K) /\ SumOf(c, K) = Cardinality(UNION {A[s] : s \in K})
  <1> DEFINE U == UNION {A[s] : s \in K}
  <1>1. U \in SUBSET E /\ (\A s \in K : A[s] \subseteq U) /\ \A x \in U : \E s \in K : x \in A[s]
    BY DEF Counts
  <1> HIDE DEF U
  <1>2. IsFiniteSet(U)
    BY <1>1, FS_Subset DEF Counts
  <1>3. Summable(Ones(U), U) /\ \A T \in SUBSET U : Cardinality(T) = SumOf(Ones(U), T)
    BY <1>2, CountSums
  <1>4. \A s \in K : c[s] = SumOf(Ones(U), A[s])
    BY <1>1, <1>3 DEF Counts
  <1>5. SumOf(Ones(U), U) = SumOf(c, K)
    BY <1>1, <1>3, <1>4, SumParts DEF Counts, Disjoint
  <1>6. \A s \in K : c[s] \in Int
    BY FS_Subset, FS_CardinalityType DEF Counts
  <1>7. QED
    BY <1>3, <1>5, <1>6 DEF Summable, Counts, U

\* Counting what each of P has is counting who has each.
LEMMA CountTwice ==
  ASSUME NEW c, NEW C, NEW P, NEW E, Counts(c, C, P, E),
         NEW n, \A e \in E : n[e] = Cardinality({p \in P : e \in C[p]})
  PROVE  Summable(c, P) /\ Summable(n, E) /\ SumOf(c, P) = SumOf(n, E)
  <1> DEFINE have(T) == [e \in E |-> Cardinality({p \in T : e \in C[p]})]
             G == {T \in SUBSET P : SumOf(c, T) = SumOf(have(T), E)}
  <1>1. \A T \in SUBSET P : IsFiniteSet(T) /\ \A e \in E : IsFiniteSet({p \in T : e \in C[p]})
    BY FS_Subset DEF Counts
  <1>2. \A T \in SUBSET P : Summable(have(T), E)
    <2>1. ASSUME NEW T \in SUBSET P PROVE \A e \in E : have(T)[e] \in Int
      BY <1>1, FS_CardinalityType
    <2>2. QED
      BY <2>1 DEF Summable, Counts
  <1>3. \A p \in P : c[p] \in Int
    BY FS_Subset, FS_CardinalityType DEF Counts
  <1>4. \A T \in SUBSET P : Summable(c, T)
    BY <1>1, <1>3 DEF Summable
  <1>5. ASSUME NEW T \in SUBSET P, \A U \in SUBSET T : U # T => U \in G PROVE T \in G
    <2>1. CASE T = {}
      <3>1. SumOf(c, T) = 0
        BY <1>4, <2>1, SumStep
      <3>2. \A e \in E : have(T)[e] = 0
        <4>1. \A e \in E : {p \in T : e \in C[p]} = {}
          BY <2>1
        <4>2. QED
          BY <4>1, FS_EmptySet
      <3>3. SumOf(have(T), E) = SumOf(have(T), {})
        <4> DEFINE h == have(T)
        <4>1. Summable(h, E) /\ \A e \in E \ {} : h[e] = 0
          BY <1>2, <3>2
        <4> HIDE DEF h
        <4>2. SumOf(h, E) = SumOf(h, {})
          BY <4>1, SumWithout
        <4>3. QED
          BY <4>2 DEF h
      <3>4. SumOf(have(T), {}) = 0
        <4>1. Summable(have(T), {})
          BY FS_EmptySet DEF Summable
        <4>2. QED
          BY <4>1, SumStep
      <3>5. QED
        BY <3>1, <3>3, <3>4
    <2>2. CASE T # {}
      <3>1. PICK p \in T : TRUE
        BY <2>2
      <3> DEFINE R == T \ {p}
                 one == [e \in E |-> IF e \in C[p] THEN 1 ELSE 0]
                 all == have(T)
                 rest == have(R)
      <3>2. R \in G /\ R \in SUBSET P /\ p \in P
        BY <1>5, <3>1
      <3>3. SumOf(c, T) = c[p] + SumOf(c, R)
        BY <1>4, <3>1, SumRemove
      <3>4. SumOf(c, R) = SumOf(rest, E)
        BY <3>2
      <3>5. \A e \in E : one[e] = (IF e \in C[p] THEN 1 ELSE 0) /\ one[e] \in Int
        OBVIOUS
      <3>6. \A e \in E : all[e] = one[e] + rest[e]
        <4> SUFFICES ASSUME NEW e \in E PROVE all[e] = one[e] + rest[e]
          OBVIOUS
        <4> DEFINE X == {q \in T : e \in C[q]}
                   Y == {q \in R : e \in C[q]}
        <4>1. all[e] = Cardinality(X) /\ rest[e] = Cardinality(Y) /\ IsFiniteSet(X) /\ IsFiniteSet(Y)
          BY <1>1, <3>2
        <4>2. CASE e \in C[p]
          <5>1. Y = X \ {p} /\ p \in X
            BY <3>1, <4>2
          <5>2. Cardinality(Y) = Cardinality(X) - 1 /\ Cardinality(X) \in Nat
            BY <4>1, <5>1, FS_RemoveElement, FS_CardinalityType
          <5> HIDE DEF X, Y, all, rest, one
          <5>3. QED
            BY <3>5, <4>1, <4>2, <5>2
        <4>3. CASE e \notin C[p]
          <5>1. Y = X
            BY <3>1, <4>3
          <5>2. Cardinality(X) \in Nat
            BY <4>1, FS_CardinalityType
          <5> HIDE DEF X, Y, all, rest, one
          <5>3. QED
            BY <3>5, <4>1, <4>3, <5>1, <5>2
        <4>4. QED
          BY <4>2, <4>3
      <3>7. Summable(one, E) /\ Summable(rest, E) /\ Summable(all, E)
        BY <1>2, <3>2, <3>5 DEF Summable, Counts
      <3>8. SumOf(one, E) = c[p]
        <4>1. SumOf(one, E) = SumOf(one, C[p])
          <5>1. C[p] \in SUBSET E /\ \A e \in E \ C[p] : one[e] = 0
            BY <3>2, <3>5 DEF Counts
          <5> HIDE DEF one
          <5>2. QED
            BY <3>7, <5>1, SumWithout
        <4>2. SumOf(one, C[p]) = Cardinality(C[p])
          <5>1. IsFiniteSet(C[p]) /\ \A e \in C[p] : one[e] = 1
            BY <3>2, <3>5, FS_Subset DEF Counts
          <5> HIDE DEF one
          <5>2. QED
            BY <5>1, SumOfOnes
        <4>3. QED
          BY <3>2, <4>1, <4>2 DEF Counts
      <3> HIDE DEF one, all, rest, R
      <3>9. SumOf(all, E) = SumOf(one, E) + SumOf(rest, E)
        BY <3>6, <3>7, SumAdd
      <3>10. SumOf(c, T) = SumOf(all, E)
        BY <3>3, <3>4, <3>8, <3>9
      <3>11. QED
        BY <3>10 DEF all
    <2>3. QED
      BY <2>1, <2>2
  <1>6. P \in G
    <2> HIDE DEF G
    <2>1. QED
      BY <1>5, Smaller DEF Counts
  <1> DEFINE h == have(P)
  <1>7. Summable(h, E) /\ SumOf(c, P) = SumOf(h, E) /\ \A e \in E : h[e] = n[e]
    BY <1>2, <1>6
  <1> HIDE DEF h
  <1>8. SumOf(h, E) = SumOf(n, E) /\ Summable(n, E)
    BY <1>7, SumAgrees DEF Summable
  <1>9. QED
    BY <1>4, <1>7, <1>8

-----------------------------------------------------------------------------
(* Least elements.                                                         *)

\* Something in a finite set has the least number.
LEMMA LeastOf ==
  ASSUME NEW S, IsFiniteSet(S), S # {}, NEW f, \A x \in S : f[x] \in Int
  PROVE  \E x \in S : \A y \in S : f[x] <= f[y]
  <1> DEFINE G == {T \in SUBSET S : T = {} \/ \E x \in T : \A y \in T : f[x] <= f[y]}
  <1>1. ASSUME NEW T \in SUBSET S, \A U \in SUBSET T : U # T => U \in G PROVE T \in G
    <2>1. ASSUME NEW p \in T PROVE \E x \in T : \A y \in T : f[x] <= f[y]
      <3> DEFINE R == T \ {p}
      <3>1. R \in G /\ f[p] \in Int
        BY <1>1
      <3>2. CASE R = {}
        <4>1. \A y \in T : y = p
          BY <3>2
        <4>2. \A y \in T : f[p] <= f[y]
          BY <3>1, <4>1
        <4>3. QED
          BY <4>2
      <3>3. CASE R # {}
        <4>1. PICK x \in R : \A y \in R : f[x] <= f[y]
          BY <3>1, <3>3
        <4>2. CASE f[x] <= f[p]
          BY <4>1, <4>2
        <4>3. CASE ~(f[x] <= f[p])
          <5>1. \A y \in T : f[p] <= f[y]
            <6>1. ASSUME NEW y \in T PROVE f[p] <= f[y]
              <7>1. f[y] \in Int /\ f[x] \in Int
                BY <4>1
              <7>2. y # p => f[x] <= f[y]
                BY <4>1
              <7>3. QED
                BY <3>1, <4>3, <7>1, <7>2
            <6>2. QED
              BY <6>1
          <5>2. QED
            BY <5>1
        <4>4. QED
          BY <4>2, <4>3
      <3>4. QED
        BY <3>2, <3>3
    <2>2. QED
      BY <2>1
  <1>2. S \in G
    <2> HIDE DEF G
    <2>1. QED
      BY <1>1, Smaller
  <1>3. QED
    BY <1>2

\* By a first number, then a second, then a third.
Lex(a, b, c, x, y) ==
  \/ a[x] < a[y]
  \/ a[x] = a[y] /\ (b[x] < b[y] \/ (b[x] = b[y] /\ c[x] <= c[y]))

\* Something in a finite set comes first.
LEMMA LeastByThree ==
  ASSUME NEW S, IsFiniteSet(S), S # {}, NEW a, NEW b, NEW c,
         \A x \in S : a[x] \in Int /\ b[x] \in Int /\ c[x] \in Int
  PROVE  \E x \in S : \A y \in S : Lex(a, b, c, x, y)
  <1>1. PICK u \in S : \A y \in S : a[u] <= a[y]
    BY LeastOf
  <1> DEFINE A == {x \in S : a[x] = a[u]}
  <1>2. IsFiniteSet(A) /\ A # {} /\ \A x \in A : b[x] \in Int
    BY FS_Subset
  <1>3. PICK v \in A : \A y \in A : b[v] <= b[y]
    <2> HIDE DEF A
    <2>1. QED
      BY <1>2, LeastOf
  <1> DEFINE B == {x \in A : b[x] = b[v]}
  <1>4. IsFiniteSet(B) /\ B # {} /\ \A x \in B : c[x] \in Int
    <2>1. IsFiniteSet(B)
      BY <1>2, FS_Subset
    <2>2. QED
      BY <2>1
  <1>5. PICK w \in B : \A y \in B : c[w] <= c[y]
    <2> HIDE DEF B
    <2>1. QED
      BY <1>4, LeastOf
  <1>6. ASSUME NEW y \in S PROVE Lex(a, b, c, w, y)
    <2>1. /\ w \in S /\ a[w] = a[u] /\ b[w] = b[v]
          /\ a[u] \in Int /\ a[y] \in Int /\ b[y] \in Int /\ b[v] \in Int /\ a[u] <= a[y]
      BY <1>1
    <2>2. CASE a[y] # a[u]
      BY <2>1, <2>2 DEF Lex
    <2>3. CASE a[y] = a[u] /\ b[y] # b[v]
      <3>1. b[v] <= b[y]
        BY <1>3, <2>3
      <3>2. QED
        BY <2>1, <2>3, <3>1 DEF Lex
    <2>4. CASE a[y] = a[u] /\ b[y] = b[v]
      <3>1. c[w] <= c[y]
        BY <1>5, <2>4
      <3>2. QED
        BY <2>1, <2>4, <3>1 DEF Lex
    <2>5. QED
      BY <2>2, <2>3, <2>4
  <1>7. QED
    BY <1>6
=============================================================================
