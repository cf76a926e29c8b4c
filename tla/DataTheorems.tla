----------------------------- MODULE DataTheorems ----------------------------
(***************************************************************************)
(* Facts about the data of the models that the proofs share: induction     *)
(* over numbers and finite sets, recursion by steps, sums over finite      *)
(* sets, lists of numbers, and short lists.                                *)
(*                                                                         *)
(* Induction steps are stated with sets, {n \in Nat : ...}, instead of     *)
(* predicates.  SumFunctionOnSet of the community modules can be taken     *)
(* apart at any element, whatever order it adds the elements in.           *)
(***************************************************************************)
EXTENDS Integers, SequencesExt, FiniteSetTheorems, SequenceTheorems, TLAPS

-----------------------------------------------------------------------------
(* Induction. *)

\* A set of numbers has a least member.
LEMMA LeastNumber ==
  ASSUME NEW T \in SUBSET Nat, T # {}
  PROVE  \E m \in T : \A n \in T : m <= n
<1>1. PICK m \in T : \A n \in T : ~(<<n, m>> \in OpToRel(<, Nat))
  BY NatLessThanWellFounded, WFMin
<1>2. \A n \in T : ~(n < m)
  BY <1>1 DEF OpToRel
<1> QED BY <1>2

\* A set that holds 0, and with any number the next, holds all of them.
LEMMA NatSetInduction ==
  ASSUME NEW T, 0 \in T, \A n \in Nat : n \in T => n + 1 \in T
  PROVE  Nat \subseteq T
<1> SUFFICES ASSUME Nat \ T # {} PROVE FALSE
  OBVIOUS
<1>1. PICK m \in Nat \ T : \A n \in Nat \ T : m <= n
  <2>1. Nat \ T \in SUBSET Nat
    OBVIOUS
  <2> QED BY <2>1, LeastNumber
<1>2. m - 1 \in Nat
  BY <1>1
<1>3. m - 1 \in T
  BY <1>1, <1>2
<1> QED BY <1>1, <1>2, <1>3

\* g starts with a and makes its n-th value from the one before with f[n].
Steps(g, f, a, N) ==
  g[0] = a /\ \A n \in 1 .. N : g[n] = f[n][g[n - 1]]

\* Any finite number of steps can be taken.
LEMMA StepsExist ==
  ASSUME NEW S, NEW a \in S, NEW N \in Nat, NEW f \in [1 .. N -> [S -> S]]
  PROVE  \E g \in [0 .. N -> S] : Steps(g, f, a, N)
<1> DEFINE T == {n \in Nat : n <= N => \E g \in [0 .. n -> S] : Steps(g, f, a, n)}
<1>1. 0 \in T
  <2> DEFINE g == [k \in 0 .. 0 |-> a]
  <2>1. g \in [0 .. 0 -> S] /\ g[0] = a
    OBVIOUS
  <2> HIDE DEF g
  <2>2. Steps(g, f, a, 0)
    BY <2>1 DEF Steps
  <2> QED BY <2>1, <2>2
<1>2. ASSUME NEW n \in Nat, n \in T PROVE n + 1 \in T
  <2> SUFFICES ASSUME n + 1 <= N
               PROVE  \E g \in [0 .. n + 1 -> S] : Steps(g, f, a, n + 1)
    OBVIOUS
  <2>1. PICK g \in [0 .. n -> S] : Steps(g, f, a, n)
    BY <1>2
  <2> DEFINE h == [k \in 0 .. n + 1 |-> IF k = n + 1 THEN f[n + 1][g[n]] ELSE g[k]]
  <2>2. f[n + 1][g[n]] \in S
    <3>1. n + 1 \in 1 .. N /\ n \in 0 .. n
      OBVIOUS
    <3>2. f[n + 1] \in [S -> S] /\ g[n] \in S
      BY <3>1
    <3> QED BY <3>2
  <2>3. h \in [0 .. n + 1 -> S]
    BY <2>2
  <2>4. \A k \in 0 .. n : h[k] = g[k]
    OBVIOUS
  <2>5. h[n + 1] = f[n + 1][g[n]]
    OBVIOUS
  <2> HIDE DEF h
  <2>6. h[0] = a
    BY <2>1, <2>4 DEF Steps
  <2>7. ASSUME NEW k \in 1 .. n + 1 PROVE h[k] = f[k][h[k - 1]]
    <3>1. h[k - 1] = g[k - 1]
      BY <2>4
    <3>2. CASE k = n + 1
      BY <2>5, <3>1, <3>2
    <3>3. CASE k \in 1 .. n
      BY <2>1, <2>4, <3>1, <3>3 DEF Steps
    <3> QED BY <3>2, <3>3
  <2>8. Steps(h, f, a, n + 1)
    BY <2>6, <2>7 DEF Steps
  <2> QED BY <2>3, <2>8
<1>3. Nat \subseteq T
  <2> HIDE DEF T
  <2> QED BY <1>1, <1>2, NatSetInduction
<1> QED BY <1>3

\* What is left of a finite set when a member is taken out.
LEMMA OneLess ==
  ASSUME NEW S, IsFiniteSet(S), NEW x \in S
  PROVE  /\ IsFiniteSet(S \ {x})
         /\ Cardinality(S \ {x}) = Cardinality(S) - 1
         /\ Cardinality(S) \in Nat \ {0}
         /\ Cardinality(S \ {x}) \in Nat
<1>1. IsFiniteSet(S \ {x}) /\ Cardinality(S \ {x}) = Cardinality(S) - 1
  BY FS_RemoveElement
<1>2. Cardinality(S) \in Nat /\ Cardinality(S \ {x}) \in Nat
  BY <1>1, FS_CardinalityType
<1> QED BY <1>1, <1>2

\* A set of sets that holds {}, and with any subset of S the subsets of S that
\* have one member more, holds S.
LEMMA FiniteSetInduction ==
  ASSUME NEW S, IsFiniteSet(S), NEW T, {} \in T,
         \A U \in SUBSET S, x \in S : U \in T /\ x \notin U => U \cup {x} \in T
  PROVE  S \in T
<1> DEFINE N == {n \in Nat : \A U \in SUBSET S : Cardinality(U) = n => U \in T}
<1>1. 0 \in N
  <2>1. ASSUME NEW U \in SUBSET S, Cardinality(U) = 0 PROVE U \in T
    <3>1. IsFiniteSet(U)
      BY FS_Subset
    <3>2. U = {}
      BY <2>1, <3>1, FS_EmptySet
    <3> QED BY <3>2
  <2> QED BY <2>1
<1>2. ASSUME NEW n \in Nat, n \in N PROVE n + 1 \in N
  <2>1. ASSUME NEW U \in SUBSET S, Cardinality(U) = n + 1 PROVE U \in T
    <3>1. IsFiniteSet(U)
      BY FS_Subset
    <3>2. U # {}
      BY <2>1, <3>1, FS_EmptySet
    <3>3. PICK x \in U : TRUE
      BY <3>2
    <3>4. Cardinality(U \ {x}) = n
      BY <2>1, <3>1, OneLess
    <3>5. U \ {x} \in T
      BY <1>2, <3>4
    <3>6. (U \ {x}) \cup {x} \in T
      BY <3>5
    <3>7. (U \ {x}) \cup {x} = U
      OBVIOUS
    <3> QED BY <3>6, <3>7
  <2> QED BY <2>1
<1>3. Nat \subseteq N
  <2> HIDE DEF N
  <2> QED BY <1>1, <1>2, NatSetInduction
<1>4. Cardinality(S) \in N
  BY <1>3, FS_CardinalityType
<1> QED BY <1>4

-----------------------------------------------------------------------------
(* The fold behind SumFunctionOnSet. *)

First(s) == CHOOSE x \in s : TRUE

\* The members of D are sets; with a set, D holds what is left without First.
IsFold(g, f, D) ==
  g = [s \in D |-> IF s = {} THEN 0 ELSE f[First(s)] + g[s \ {First(s)}]]

SubsetsUpTo(S, n) == {s \in SUBSET S : Cardinality(s) <= n}

\* There is such a function, for the subsets of a finite set.
LEMMA FoldExists ==
  ASSUME NEW f, NEW S, IsFiniteSet(S)
  PROVE  \E g : IsFold(g, f, SUBSET S)
<1> DEFINE N == {n \in Nat : \E g : IsFold(g, f, SubsetsUpTo(S, n))}
<1>0. \A s \in SUBSET S : IsFiniteSet(s) /\ Cardinality(s) \in Nat
  BY FS_Subset, FS_CardinalityType
<1>00. \A s \in SUBSET S :
         s # {} => /\ First(s) \in s
                   /\ Cardinality(s \ {First(s)}) = Cardinality(s) - 1
  <2> SUFFICES ASSUME NEW s \in SUBSET S, s # {}
               PROVE  /\ First(s) \in s
                      /\ Cardinality(s \ {First(s)}) = Cardinality(s) - 1
    OBVIOUS
  <2>1. First(s) \in s
    BY DEF First
  <2> QED BY <1>0, <2>1, OneLess
<1>1. 0 \in N
  <2>1. SubsetsUpTo(S, 0) = {{}}
    BY <1>0, FS_EmptySet DEF SubsetsUpTo
  <2>2. IsFold([s \in {{}} |-> 0], f, {{}})
    BY DEF IsFold
  <2> QED BY <2>1, <2>2
<1>2. ASSUME NEW n \in Nat, n \in N PROVE n + 1 \in N
  <2>1. PICK g : IsFold(g, f, SubsetsUpTo(S, n))
    BY <1>2
  <2> DEFINE D == SubsetsUpTo(S, n + 1)
             h == [s \in D |-> IF s = {} THEN 0
                               ELSE f[First(s)] + g[s \ {First(s)}]]
  <2>2. \A s \in D : s # {} => s \ {First(s)} \in SubsetsUpTo(S, n)
    <3> SUFFICES ASSUME NEW s \in SUBSET S, Cardinality(s) <= n + 1, s # {}
                 PROVE  s \ {First(s)} \in SubsetsUpTo(S, n)
      BY DEF SubsetsUpTo
    <3>1. /\ Cardinality(s \ {First(s)}) = Cardinality(s) - 1
          /\ Cardinality(s) \in Nat
      BY <1>0, <1>00
    <3>2. Cardinality(s \ {First(s)}) <= n
      BY <3>1
    <3> QED BY <3>2 DEF SubsetsUpTo
  <2>3. \A s \in SubsetsUpTo(S, n) : s \in D /\ h[s] = g[s]
    <3> SUFFICES ASSUME NEW s \in SubsetsUpTo(S, n)
                 PROVE  s \in D /\ h[s] = g[s]
      OBVIOUS
    <3>1. s \in D
      BY <1>0 DEF SubsetsUpTo
    <3>2. g[s] = IF s = {} THEN 0 ELSE f[First(s)] + g[s \ {First(s)}]
      BY <2>1 DEF IsFold
    <3> QED BY <3>1, <3>2
  <2>4. h = [s \in D |-> IF s = {} THEN 0
                         ELSE f[First(s)] + h[s \ {First(s)}]]
    <3>1. ASSUME NEW s \in D, s # {}
          PROVE  h[s] = f[First(s)] + h[s \ {First(s)}]
      <4>1. h[s \ {First(s)}] = g[s \ {First(s)}]
        <5> HIDE DEF h, D
        <5> QED BY <2>2, <2>3, <3>1
      <4>2. h[s] = f[First(s)] + g[s \ {First(s)}]
        BY <3>1
      <4> QED BY <4>1, <4>2
    <3>2. ASSUME NEW s \in D, s = {} PROVE h[s] = 0
      BY <3>2
    <3>3. h = [s \in D |-> h[s]]
      OBVIOUS
    <3> HIDE DEF h, D
    <3> QED BY <3>1, <3>2, <3>3
  <2>5. IsFold(h, f, D)
    BY <2>4 DEF IsFold
  <2> QED BY <2>5
<1>3. Nat \subseteq N
  <2> HIDE DEF N
  <2> QED BY <1>1, <1>2, NatSetInduction
<1>4. \E g : IsFold(g, f, SubsetsUpTo(S, Cardinality(S)))
  BY <1>3, FS_CardinalityType
<1>5. SubsetsUpTo(S, Cardinality(S)) = SUBSET S
  BY <1>0, FS_Subset DEF SubsetsUpTo
<1> QED BY <1>4, <1>5

\* What such a function does on the subsets of T.
FoldsOn(g, f, T) ==
  \A U \in SUBSET T :
    g[U] = IF U = {} THEN 0 ELSE f[First(U)] + g[U \ {First(U)}]

\* All such functions agree, whatever sets they are defined on.
LEMMA FoldsAgree ==
  ASSUME NEW f, NEW T, IsFiniteSet(T),
         NEW g, FoldsOn(g, f, T), NEW h, FoldsOn(h, f, T)
  PROVE  g[T] = h[T]
<1> DEFINE N == {n \in Nat : \A U \in SUBSET T : Cardinality(U) = n => g[U] = h[U]}
<1>2. \A U \in SUBSET T :
        /\ g[U] = IF U = {} THEN 0 ELSE f[First(U)] + g[U \ {First(U)}]
        /\ h[U] = IF U = {} THEN 0 ELSE f[First(U)] + h[U \ {First(U)}]
  BY DEF FoldsOn
<1>3. 0 \in N
  <2>1. ASSUME NEW U \in SUBSET T, Cardinality(U) = 0 PROVE g[U] = h[U]
    <3>1. U = {}
      BY <2>1, FS_Subset, FS_EmptySet
    <3> QED BY <1>2, <3>1
  <2> QED BY <2>1
<1>4. ASSUME NEW n \in Nat, n \in N PROVE n + 1 \in N
  <2>1. ASSUME NEW U \in SUBSET T, Cardinality(U) = n + 1 PROVE g[U] = h[U]
    <3>1. IsFiniteSet(U)
      BY FS_Subset
    <3>2. U # {}
      BY <2>1, <3>1, FS_EmptySet
    <3>3. First(U) \in U
      BY <3>2 DEF First
    <3>4. Cardinality(U \ {First(U)}) = n
      BY <2>1, <3>1, <3>3, OneLess
    <3>5. g[U \ {First(U)}] = h[U \ {First(U)}]
      BY <1>4, <3>4
    <3> QED BY <1>2, <3>2, <3>5
  <2> QED BY <2>1
<1>5. Nat \subseteq N
  <2> HIDE DEF N
  <2> QED BY <1>3, <1>4, NatSetInduction
<1>6. Cardinality(T) \in N
  BY <1>5, FS_CardinalityType
<1> QED BY <1>6

\* The sum is the value of any of them.
LEMMA SumIsFold ==
  ASSUME NEW f, NEW S, IsFiniteSet(S), NEW g, IsFold(g, f, SUBSET S),
         NEW T \in SUBSET S
  PROVE  SumFunctionOnSet(f, T) = g[T]
<1> DEFINE iter == CHOOSE h : h = [s \in SUBSET T |->
                     IF s = {} THEN 0
                     ELSE f[CHOOSE x \in s : TRUE] + h[s \ {CHOOSE x \in s : TRUE}]]
<1>1. SumFunctionOnSet(f, T) = iter[T]
  BY DEF SumFunctionOnSet, FoldFunctionOnSet, MapThenFoldSet
<1>2. \E h : IsFold(h, f, SUBSET T)
  BY FoldExists, FS_Subset
<1>3. IsFold(iter, f, SUBSET T)
  BY <1>2 DEF IsFold, First
<1>4. g[T] = iter[T]
  <2> HIDE DEF iter
  <2>1. FoldsOn(iter, f, T)
    BY <1>3 DEF IsFold, FoldsOn
  <2>2. FoldsOn(g, f, T)
    <3>1. SUBSET T \subseteq SUBSET S
      OBVIOUS
    <3> QED BY <3>1 DEF IsFold, FoldsOn
  <2>3. IsFiniteSet(T)
    BY FS_Subset
  <2> QED BY <2>1, <2>2, <2>3, FoldsAgree
<1> QED BY <1>1, <1>4

-----------------------------------------------------------------------------
(* Facts about sums. *)

\* Nothing adds up to 0.
LEMMA SumEmpty ==
  ASSUME NEW f
  PROVE  SumFunctionOnSet(f, {}) = 0
<1>1. IsFiniteSet({})
  BY FS_EmptySet
<1>2. PICK g : IsFold(g, f, SUBSET {})
  BY <1>1, FoldExists
<1>3. {} \in SUBSET {}
  OBVIOUS
<1>4. g[{}] = 0
  BY <1>2, <1>3 DEF IsFold
<1>5. SumFunctionOnSet(f, {}) = g[{}]
  <2>1. ASSUME NEW S, IsFiniteSet(S), IsFold(g, f, SUBSET S), {} \in SUBSET S
        PROVE  SumFunctionOnSet(f, {}) = g[{}]
    BY <2>1, SumIsFold
  <2> QED BY <1>1, <1>2, <1>3, <2>1
<1> QED BY <1>4, <1>5

\* The definition: one member, and the rest.
LEMMA SumUnfold ==
  ASSUME NEW f, NEW S, IsFiniteSet(S), S # {}
  PROVE  /\ First(S) \in S
         /\ SumFunctionOnSet(f, S)
              = f[First(S)] + SumFunctionOnSet(f, S \ {First(S)})
<1>1. PICK g : IsFold(g, f, SUBSET S)
  BY FoldExists
<1>2. g[S] = f[First(S)] + g[S \ {First(S)}]
  BY <1>1 DEF IsFold
<1>3. First(S) \in S
  BY DEF First
<1>4. /\ SumFunctionOnSet(f, S) = g[S]
      /\ SumFunctionOnSet(f, S \ {First(S)}) = g[S \ {First(S)}]
  BY <1>1, SumIsFold
<1> QED BY <1>2, <1>3, <1>4

\* A sum of integers is an integer.
LEMMA SumInt ==
  ASSUME NEW f, NEW S, IsFiniteSet(S), \A x \in S : f[x] \in Int
  PROVE  SumFunctionOnSet(f, S) \in Int
<1> DEFINE N == {n \in Nat : \A U \in SUBSET S :
                   Cardinality(U) = n => SumFunctionOnSet(f, U) \in Int}
<1>1. 0 \in N
  <2>1. ASSUME NEW U \in SUBSET S, Cardinality(U) = 0
        PROVE  SumFunctionOnSet(f, U) \in Int
    <3>1. U = {}
      BY <2>1, FS_Subset, FS_EmptySet
    <3> QED BY <3>1, SumEmpty
  <2> QED BY <2>1
<1>2. ASSUME NEW n \in Nat, n \in N PROVE n + 1 \in N
  <2>1. ASSUME NEW U \in SUBSET S, Cardinality(U) = n + 1
        PROVE  SumFunctionOnSet(f, U) \in Int
    <3>1. IsFiniteSet(U)
      BY FS_Subset
    <3>2. U # {}
      BY <2>1, <3>1, FS_EmptySet
    <3>3. /\ First(U) \in U
          /\ SumFunctionOnSet(f, U)
               = f[First(U)] + SumFunctionOnSet(f, U \ {First(U)})
      BY <3>1, <3>2, SumUnfold
    <3>4. Cardinality(U \ {First(U)}) = n
      BY <2>1, <3>1, <3>3, OneLess
    <3>5. SumFunctionOnSet(f, U \ {First(U)}) \in Int
      BY <1>2, <3>4
    <3>6. f[First(U)] \in Int
      BY <3>3
    <3> QED BY <3>3, <3>5, <3>6
  <2> QED BY <2>1
<1>3. Nat \subseteq N
  <2> HIDE DEF N
  <2> QED BY <1>1, <1>2, NatSetInduction
<1>4. Cardinality(S) \in N
  BY <1>3, FS_CardinalityType
<1> QED BY <1>4

\* Any member can be taken out first.
LEMMA SumSplit ==
  ASSUME NEW f, NEW S, IsFiniteSet(S), \A x \in S : f[x] \in Int, NEW x \in S
  PROVE  SumFunctionOnSet(f, S) = f[x] + SumFunctionOnSet(f, S \ {x})
<1> DEFINE Sum(U) == SumFunctionOnSet(f, U)
           N == {n \in Nat : \A U \in SUBSET S :
                   Cardinality(U) = n =>
                     \A y \in U : Sum(U) = f[y] + Sum(U \ {y})}
<1>0. \A U \in SUBSET S : IsFiniteSet(U) /\ Sum(U) \in Int
  <2> SUFFICES ASSUME NEW U \in SUBSET S PROVE IsFiniteSet(U) /\ Sum(U) \in Int
    OBVIOUS
  <2>1. IsFiniteSet(U) /\ \A y \in U : f[y] \in Int
    BY FS_Subset
  <2> QED BY <2>1, SumInt
<1>1. 0 \in N
  <2>1. ASSUME NEW U \in SUBSET S, Cardinality(U) = 0 PROVE U = {}
    BY <2>1, FS_Subset, FS_EmptySet
  <2> QED BY <2>1
<1>2. ASSUME NEW n \in Nat, n \in N PROVE n + 1 \in N
  <2>1. ASSUME NEW U \in SUBSET S, Cardinality(U) = n + 1, NEW y \in U
        PROVE  Sum(U) = f[y] + Sum(U \ {y})
    <3> DEFINE c == First(U)
    <3>1. c \in U /\ Sum(U) = f[c] + Sum(U \ {c})
      BY <1>0, SumUnfold
    <3>2. CASE c = y
      BY <3>1, <3>2
    <3>3. CASE c # y
      <4>1. Cardinality(U \ {c}) = n /\ Cardinality(U \ {y}) = n
        BY <1>0, <2>1, <3>1, OneLess
      <4>2. /\ y \in U \ {c} /\ U \ {c} \in SUBSET S
            /\ c \in U \ {y} /\ U \ {y} \in SUBSET S
        BY <3>1, <3>3
      <4>3. Sum(U \ {c}) = f[y] + Sum((U \ {c}) \ {y})
        BY <1>2, <4>1, <4>2
      <4>4. Sum(U \ {y}) = f[c] + Sum((U \ {y}) \ {c})
        BY <1>2, <4>1, <4>2
      <4>5. (U \ {c}) \ {y} = (U \ {y}) \ {c}
        OBVIOUS
      <4>6. /\ f[c] \in Int /\ f[y] \in Int
            /\ Sum((U \ {y}) \ {c}) \in Int
        BY <1>0, <3>1
      <4>7. Sum(U) = f[c] + (f[y] + Sum((U \ {y}) \ {c}))
        BY <3>1, <4>3, <4>5
      <4>8. Sum(U \ {y}) = f[c] + Sum((U \ {y}) \ {c})
        BY <4>4
      <4> HIDE DEF Sum, c
      <4> QED BY <4>6, <4>7, <4>8
    <3> QED BY <3>2, <3>3
  <2> HIDE DEF Sum
  <2> QED BY <2>1
<1>3. Nat \subseteq N
  <2> HIDE DEF N
  <2> QED BY <1>1, <1>2, NatSetInduction
<1>4. Cardinality(S) \in N
  BY <1>3, FS_CardinalityType
<1> QED BY <1>4

\* A member is added.
LEMMA SumAdd ==
  ASSUME NEW f, NEW S, IsFiniteSet(S), NEW x, x \notin S,
         \A y \in S \cup {x} : f[y] \in Int
  PROVE  SumFunctionOnSet(f, S \cup {x}) = f[x] + SumFunctionOnSet(f, S)
<1>1. IsFiniteSet(S \cup {x})
  BY FS_AddElement
<1>2. (S \cup {x}) \ {x} = S
  OBVIOUS
<1>3. SumFunctionOnSet(f, S \cup {x})
        = f[x] + SumFunctionOnSet(f, (S \cup {x}) \ {x})
  BY <1>1, SumSplit
<1> QED BY <1>2, <1>3

\* Only the values on the set matter.
LEMMA SumSame ==
  ASSUME NEW f, NEW g, NEW S, IsFiniteSet(S), \A x \in S : f[x] = g[x]
  PROVE  SumFunctionOnSet(f, S) = SumFunctionOnSet(g, S)
<1> DEFINE T == {U \in SUBSET S : SumFunctionOnSet(f, U) = SumFunctionOnSet(g, U)}
           N == {n \in Nat : \A U \in SUBSET S : Cardinality(U) = n => U \in T}
<1>1. 0 \in N
  <2>1. ASSUME NEW U \in SUBSET S, Cardinality(U) = 0 PROVE U \in T
    <3>1. U = {}
      BY <2>1, FS_Subset, FS_EmptySet
    <3> QED BY <3>1, SumEmpty
  <2> HIDE DEF T
  <2> QED BY <2>1
<1>2. ASSUME NEW n \in Nat, n \in N PROVE n + 1 \in N
  <2>1. ASSUME NEW U \in SUBSET S, Cardinality(U) = n + 1 PROVE U \in T
    <3>1. IsFiniteSet(U)
      BY FS_Subset
    <3>2. U # {}
      BY <2>1, <3>1, FS_EmptySet
    <3>3. /\ First(U) \in U
          /\ SumFunctionOnSet(f, U)
               = f[First(U)] + SumFunctionOnSet(f, U \ {First(U)})
          /\ SumFunctionOnSet(g, U)
               = g[First(U)] + SumFunctionOnSet(g, U \ {First(U)})
      BY <3>1, <3>2, SumUnfold
    <3>4. Cardinality(U \ {First(U)}) = n
      BY <2>1, <3>1, <3>3, OneLess
    <3>5. U \ {First(U)} \in T
      <4> HIDE DEF T
      <4> QED BY <1>2, <3>4
    <3> QED BY <3>3, <3>5
  <2> HIDE DEF T
  <2> QED BY <2>1
<1>3. Nat \subseteq N
  <2> HIDE DEF N
  <2> QED BY <1>1, <1>2, NatSetInduction
<1>4. Cardinality(S) \in N
  BY <1>3, FS_CardinalityType
<1> QED BY <1>4

\* One value is different: so is the sum, by as much.
LEMMA SumChange ==
  ASSUME NEW f, NEW g, NEW S, IsFiniteSet(S), NEW x \in S,
         \A y \in S : f[y] \in Int /\ g[y] \in Int,
         \A y \in S \ {x} : f[y] = g[y]
  PROVE  SumFunctionOnSet(g, S) = SumFunctionOnSet(f, S) + g[x] - f[x]
<1>1. IsFiniteSet(S \ {x})
  BY FS_RemoveElement
<1>2. SumFunctionOnSet(f, S \ {x}) = SumFunctionOnSet(g, S \ {x})
  BY <1>1, SumSame
<1>3. SumFunctionOnSet(f, S \ {x}) \in Int
  BY <1>1, SumInt
<1>4. /\ SumFunctionOnSet(f, S) = f[x] + SumFunctionOnSet(f, S \ {x})
      /\ SumFunctionOnSet(g, S) = g[x] + SumFunctionOnSet(g, S \ {x})
  BY SumSplit
<1> QED BY <1>2, <1>3, <1>4

\* A sum of natural numbers is one, and no less than the sum of a part.
LEMMA SumNat ==
  ASSUME NEW f, NEW S, IsFiniteSet(S), \A x \in S : f[x] \in Nat
  PROVE  /\ SumFunctionOnSet(f, S) \in Nat
         /\ \A U \in SUBSET S : SumFunctionOnSet(f, U) <= SumFunctionOnSet(f, S)
<1> DEFINE T == {V \in SUBSET S :
                   /\ SumFunctionOnSet(f, V) \in Nat
                   /\ \A U \in SUBSET V :
                        SumFunctionOnSet(f, U) <= SumFunctionOnSet(f, V)}
<1>1. {} \in T
  <2>1. \A U \in SUBSET {} : U = {}
    OBVIOUS
  <2> QED BY <2>1, SumEmpty
<1>2. ASSUME NEW V \in SUBSET S, NEW x \in S, V \in T, x \notin V
      PROVE  V \cup {x} \in T
  <2>1. IsFiniteSet(V) /\ \A y \in V \cup {x} : f[y] \in Int
    BY FS_Subset
  <2>2. SumFunctionOnSet(f, V \cup {x}) = f[x] + SumFunctionOnSet(f, V)
    BY <1>2, <2>1, SumAdd
  <2>3. SumFunctionOnSet(f, V) \in Nat /\ f[x] \in Nat
    BY <1>2
  <2>4. ASSUME NEW U \in SUBSET (V \cup {x})
        PROVE  SumFunctionOnSet(f, U) <= SumFunctionOnSet(f, V \cup {x})
    <3>1. CASE x \notin U
      <4>1. SumFunctionOnSet(f, U) <= SumFunctionOnSet(f, V)
        <5>1. U \in SUBSET V
          BY <3>1
        <5> QED BY <1>2, <5>1
      <4>2. SumFunctionOnSet(f, U) \in Int
        <5>1. IsFiniteSet(U) /\ \A y \in U : f[y] \in Int
          BY FS_Subset
        <5> QED BY <5>1, SumInt
      <4> QED BY <2>2, <2>3, <4>1, <4>2
    <3>2. CASE x \in U
      <4>1. IsFiniteSet(U) /\ \A y \in U : f[y] \in Int
        BY FS_Subset
      <4>2. SumFunctionOnSet(f, U) = f[x] + SumFunctionOnSet(f, U \ {x})
        BY <3>2, <4>1, SumSplit
      <4>3. SumFunctionOnSet(f, U \ {x}) <= SumFunctionOnSet(f, V)
        <5>1. U \ {x} \in SUBSET V
          OBVIOUS
        <5> QED BY <1>2, <5>1
      <4>4. SumFunctionOnSet(f, U \ {x}) \in Int
        <5>1. IsFiniteSet(U \ {x}) /\ \A y \in U \ {x} : f[y] \in Int
          BY <4>1, FS_RemoveElement
        <5> QED BY <5>1, SumInt
      <4> QED BY <2>2, <2>3, <4>2, <4>3, <4>4
    <3> QED BY <3>1, <3>2
  <2>5. SumFunctionOnSet(f, V \cup {x}) \in Nat
    BY <2>2, <2>3
  <2>6. V \cup {x} \in SUBSET S
    OBVIOUS
  <2> QED BY <2>4, <2>5, <2>6
<1>3. S \in T
  <2> HIDE DEF T
  <2> QED BY <1>1, <1>2, FiniteSetInduction
<1> QED BY <1>3

\* The members of V count c each, the others nothing.
LEMMA SumIndicator ==
  ASSUME NEW f, NEW S, IsFiniteSet(S), NEW V \in SUBSET S, NEW c \in Int,
         \A x \in S : f[x] = IF x \in V THEN c ELSE 0
  PROVE  SumFunctionOnSet(f, S) = c * Cardinality(V)
<1> DEFINE Good(U) == SumFunctionOnSet(f, U) = c * Cardinality(U \cap V)
           T == {U \in SUBSET S : Good(U)}
<1>1. {} \in T
  <2>1. {} \cap V = {}
    OBVIOUS
  <2>2. Cardinality({} \cap V) = 0
    BY <2>1, FS_EmptySet
  <2> QED BY <2>2, SumEmpty
<1>2. ASSUME NEW U \in SUBSET S, NEW x \in S, U \in T, x \notin U
      PROVE  U \cup {x} \in T
  <2>1. /\ IsFiniteSet(U) /\ IsFiniteSet(U \cap V)
        /\ Cardinality(U \cap V) \in Nat
    BY FS_Subset, FS_CardinalityType, U \cap V \in SUBSET U
  <2>2. \A y \in U \cup {x} : f[y] \in Int
    OBVIOUS
  <2>3. SumFunctionOnSet(f, U \cup {x}) = f[x] + SumFunctionOnSet(f, U)
    BY <1>2, <2>1, <2>2, SumAdd
  <2>4. SumFunctionOnSet(f, U) = c * Cardinality(U \cap V)
    BY <1>2
  <2>5. CASE x \in V
    <3>1. (U \cup {x}) \cap V = (U \cap V) \cup {x} /\ x \notin U \cap V
      BY <1>2, <2>5
    <3>2. Cardinality((U \cup {x}) \cap V) = Cardinality(U \cap V) + 1
      BY <2>1, <3>1, FS_AddElement
    <3>3. f[x] = c
      BY <2>5
    <3>4. c + c * Cardinality(U \cap V) = c * (Cardinality(U \cap V) + 1)
      BY <2>1
    <3>5. Good(U \cup {x})
      BY <2>3, <2>4, <3>2, <3>3, <3>4
    <3> QED BY <3>5
  <2>6. CASE x \notin V
    <3>1. (U \cup {x}) \cap V = U \cap V
      BY <2>6
    <3>2. f[x] = 0 /\ c * Cardinality(U \cap V) \in Int
      BY <2>1, <2>6
    <3>3. Good(U \cup {x})
      <4>1. SumFunctionOnSet(f, U \cup {x}) = c * Cardinality(U \cap V)
        BY <2>3, <2>4, <3>2
      <4> QED BY <3>1, <4>1
    <3> QED BY <3>3
  <2> QED BY <2>5, <2>6
<1>3. S \in T
  <2> HIDE DEF T
  <2> QED BY <1>1, <1>2, FiniteSetInduction
<1>4. S \cap V = V
  OBVIOUS
<1> QED BY <1>3, <1>4

-----------------------------------------------------------------------------
(* Sums compared. *)

\* Member by member f and g are no more than h: so are the sums.
LEMMA SumBounded ==
  ASSUME NEW f, NEW g, NEW h, NEW S, IsFiniteSet(S),
         \A x \in S : /\ f[x] \in Nat /\ g[x] \in Nat /\ h[x] \in Nat
                      /\ f[x] + g[x] <= h[x]
  PROVE  SumFunctionOnSet(f, S) + SumFunctionOnSet(g, S) <= SumFunctionOnSet(h, S)
<1> DEFINE Sum(k, U) == SumFunctionOnSet(k, U)
           T == {U \in SUBSET S : Sum(f, U) + Sum(g, U) <= Sum(h, U)}
<1>1. {} \in T
  <2>1. Sum(f, {}) = 0 /\ Sum(g, {}) = 0 /\ Sum(h, {}) = 0
    BY SumEmpty
  <2> HIDE DEF Sum
  <2> QED BY <2>1
<1>2. ASSUME NEW U \in SUBSET S, NEW x \in S, U \in T, x \notin U
      PROVE  U \cup {x} \in T
  <2>1. /\ IsFiniteSet(U)
        /\ \A y \in U : f[y] \in Nat /\ g[y] \in Nat /\ h[y] \in Nat
        /\ \A y \in U \cup {x} : f[y] \in Int /\ g[y] \in Int /\ h[y] \in Int
    BY FS_Subset
  <2>2. Sum(f, U) \in Nat /\ Sum(g, U) \in Nat /\ Sum(h, U) \in Nat
    BY <2>1, SumNat
  <2>3. /\ Sum(f, U \cup {x}) = f[x] + Sum(f, U)
        /\ Sum(g, U \cup {x}) = g[x] + Sum(g, U)
        /\ Sum(h, U \cup {x}) = h[x] + Sum(h, U)
    BY <1>2, <2>1, SumAdd
  <2>4. Sum(f, U) + Sum(g, U) <= Sum(h, U)
    BY <1>2
  <2>5. /\ f[x] \in Nat /\ g[x] \in Nat /\ h[x] \in Nat
        /\ f[x] + g[x] <= h[x]
    OBVIOUS
  <2> HIDE DEF Sum
  <2>6. Sum(f, U \cup {x}) + Sum(g, U \cup {x}) <= Sum(h, U \cup {x})
    BY <2>2, <2>3, <2>4, <2>5
  <2> QED BY <2>6
<1>3. S \in T
  <2> HIDE DEF T
  <2> QED BY <1>1, <1>2, FiniteSetInduction
<1> QED BY <1>3

\* The sum over one member.
LEMMA SumOfMember ==
  ASSUME NEW f, NEW x, f[x] \in Int
  PROVE  SumFunctionOnSet(f, {x}) = f[x]
<1> DEFINE E == {}
<1>1. IsFiniteSet(E) /\ x \notin E /\ (\A y \in E \cup {x} : f[y] \in Int)
      /\ E \cup {x} = {x} /\ SumFunctionOnSet(f, E) = 0
  BY FS_EmptySet, SumEmpty
<1> HIDE DEF E
<1>2. SumFunctionOnSet(f, E \cup {x}) = f[x] + SumFunctionOnSet(f, E)
  BY <1>1, SumAdd
<1>3. SumFunctionOnSet(f, E \cup {x}) = SumFunctionOnSet(f, {x})
  BY <1>1
<1>4. SumFunctionOnSet(f, {x}) = f[x] + 0
  BY <1>1, <1>2, <1>3
<1> QED BY <1>4

\* What two sets share is counted once in their union.
LEMMA SumUnion ==
  ASSUME NEW f, NEW A, NEW B, IsFiniteSet(A), IsFiniteSet(B),
         \A x \in A \cup B : f[x] \in Nat
  PROVE  SumFunctionOnSet(f, A \cup B)
           <= SumFunctionOnSet(f, A) + SumFunctionOnSet(f, B)
<1> DEFINE Sum(U) == SumFunctionOnSet(f, U)
           T == {U \in SUBSET B : Sum(A \cup U) <= Sum(A) + Sum(U)}
<1>1. Sum(A) \in Nat
  BY SumNat
<1>2. {} \in T
  <2>1. A \cup {} = A /\ Sum({}) = 0
    BY SumEmpty
  <2> HIDE DEF Sum
  <2> QED BY <1>1, <2>1
<1>3. ASSUME NEW U \in SUBSET B, NEW x \in B, U \in T, x \notin U
      PROVE  U \cup {x} \in T
  <2>1. /\ IsFiniteSet(U) /\ IsFiniteSet(A \cup U)
        /\ \A y \in U \cup {x} : f[y] \in Nat /\ f[y] \in Int
        /\ \A y \in (A \cup U) \cup {x} : f[y] \in Nat /\ f[y] \in Int
    <3>1. IsFiniteSet(U)
      BY FS_Subset
    <3>2. IsFiniteSet(A \cup U)
      BY <3>1, FS_Union
    <3> QED BY <3>1, <3>2
  <2>2. Sum(U) \in Nat /\ Sum(A \cup U) \in Nat /\ f[x] \in Nat
    BY <2>1, SumNat
  <2>3. Sum(U \cup {x}) = f[x] + Sum(U)
    BY <1>3, <2>1, SumAdd
  <2>4. Sum(A \cup U) <= Sum(A) + Sum(U)
    BY <1>3
  <2>5. A \cup (U \cup {x}) = (A \cup U) \cup {x}
    OBVIOUS
  <2>6. Sum((A \cup U) \cup {x}) <= f[x] + Sum(A \cup U)
    <3>1. CASE x \in A \cup U
      <4>1. (A \cup U) \cup {x} = A \cup U
        BY <3>1
      <4>2. Sum((A \cup U) \cup {x}) = Sum(A \cup U)
        BY <4>1
      <4> HIDE DEF Sum
      <4> QED BY <2>2, <4>2
    <3>2. CASE x \notin A \cup U
      <4>1. Sum((A \cup U) \cup {x}) = f[x] + Sum(A \cup U)
        BY <2>1, <3>2, SumAdd
      <4> HIDE DEF Sum
      <4> QED BY <2>2, <4>1
    <3> QED BY <3>1, <3>2
  <2>7. Sum((A \cup U) \cup {x}) \in Nat
    <3>1. IsFiniteSet((A \cup U) \cup {x})
      BY <2>1, FS_AddElement
    <3> QED BY <2>1, <3>1, SumNat
  <2>8. Sum(A \cup (U \cup {x})) = Sum((A \cup U) \cup {x})
    BY <2>5
  <2> HIDE DEF Sum
  <2>9. Sum(A \cup (U \cup {x})) <= Sum(A) + Sum(U \cup {x})
    BY <1>1, <2>2, <2>3, <2>4, <2>6, <2>7, <2>8
  <2> QED BY <2>9
<1>4. B \in T
  <2> HIDE DEF T
  <2> QED BY <1>2, <1>3, FiniteSetInduction
<1> QED BY <1>4

\* A sum over the sets F[x] bounds the sum over their union V.
LEMMA SumUnions ==
  ASSUME NEW f, NEW S, IsFiniteSet(S), NEW F, NEW h,
         \A x \in S : /\ IsFiniteSet(F[x])
                      /\ \A y \in F[x] : f[y] \in Nat
                      /\ h[x] = SumFunctionOnSet(f, F[x]),
         NEW V, \A y : y \in V <=> \E x \in S : y \in F[x]
  PROVE  /\ IsFiniteSet(V)
         /\ SumFunctionOnSet(f, V) <= SumFunctionOnSet(h, S)
<1> DEFINE All(U) == {y \in V : \E x \in U : y \in F[x]}
           Sum(k, U) == SumFunctionOnSet(k, U)
           T == {U \in SUBSET S : /\ IsFiniteSet(All(U))
                                  /\ Sum(f, All(U)) <= Sum(h, U)}
<1>1. {} \in T
  <2>1. All({}) = {} /\ IsFiniteSet({})
    BY FS_EmptySet
  <2>2. Sum(f, {}) = 0 /\ Sum(h, {}) = 0
    BY SumEmpty
  <2> HIDE DEF All, Sum
  <2> QED BY <2>1, <2>2
<1>2. ASSUME NEW x \in S PROVE h[x] \in Nat
  BY SumNat
<1>3. ASSUME NEW U \in SUBSET S, NEW x \in S, U \in T, x \notin U
      PROVE  U \cup {x} \in T
  <2>1. All(U \cup {x}) = All(U) \cup F[x]
    OBVIOUS
  <2>2. /\ IsFiniteSet(All(U)) /\ IsFiniteSet(F[x])
        /\ \A y \in All(U) \cup F[x] : f[y] \in Nat
    BY <1>3
  <2>3. Sum(f, All(U) \cup F[x]) <= Sum(f, All(U)) + Sum(f, F[x])
    <3> HIDE DEF All
    <3> QED BY <2>2, SumUnion
  <2>4. Sum(h, U \cup {x}) = h[x] + Sum(h, U) /\ Sum(h, U) \in Nat
    <3>1. /\ IsFiniteSet(U)
          /\ \A y \in U : h[y] \in Nat
          /\ \A y \in U \cup {x} : h[y] \in Int
      BY <1>2, FS_Subset
    <3> QED BY <1>3, <3>1, SumAdd, SumNat
  <2>5. IsFiniteSet(All(U) \cup F[x])
    <3> HIDE DEF All
    <3> QED BY <2>2, FS_Union
  <2>6. Sum(f, All(U)) \in Nat /\ Sum(f, All(U) \cup F[x]) \in Nat
    <3> HIDE DEF All
    <3> QED BY <2>2, <2>5, SumNat
  <2>7. h[x] = Sum(f, F[x]) /\ h[x] \in Nat
    BY <1>2
  <2>8. Sum(f, All(U)) <= Sum(h, U)
    BY <1>3
  <2> HIDE DEF All, Sum
  <2>9. Sum(f, All(U) \cup F[x]) <= Sum(h, U \cup {x})
    BY <2>3, <2>4, <2>6, <2>7, <2>8
  <2>10. /\ Sum(f, All(U \cup {x})) <= Sum(h, U \cup {x})
         /\ IsFiniteSet(All(U \cup {x}))
    BY <2>1, <2>5, <2>9
  <2> QED BY <2>10
<1>4. S \in T
  <2> HIDE DEF T
  <2> QED BY <1>1, <1>3, FiniteSetInduction
<1>5. All(S) = V
  OBVIOUS
<1>6. IsFiniteSet(All(S)) /\ SumFunctionOnSet(f, All(S)) <= SumFunctionOnSet(h, S)
  BY <1>4
<1> HIDE DEF All, T
<1> QED BY <1>5, <1>6

\* A list of things, and the set V of them: what occurs twice counts once.
LEMMA SumImage ==
  ASSUME NEW f, NEW S, IsFiniteSet(S), NEW g, NEW h,
         \A x \in S : f[g[x]] \in Nat /\ h[x] = f[g[x]],
         NEW V, \A y : y \in V <=> \E x \in S : y = g[x]
  PROVE  /\ IsFiniteSet(V)
         /\ SumFunctionOnSet(f, V) <= SumFunctionOnSet(h, S)
<1> DEFINE F == [x \in S |-> {g[x]}]
<1>1. ASSUME NEW x \in S
      PROVE  /\ IsFiniteSet(F[x])
             /\ \A y \in F[x] : f[y] \in Nat
             /\ h[x] = SumFunctionOnSet(f, F[x])
  <2>1. F[x] = {g[x]} /\ f[g[x]] \in Nat /\ h[x] = f[g[x]]
    OBVIOUS
  <2>2. IsFiniteSet({g[x]})
    BY FS_Singleton, Zenon
  <2>3. SumFunctionOnSet(f, {g[x]}) = f[g[x]]
    <3>1. f[g[x]] \in Int
      BY <2>1
    <3> QED BY <3>1, SumOfMember
  <2>4. IsFiniteSet(F[x]) /\ SumFunctionOnSet(f, F[x]) = f[g[x]]
    <3> HIDE DEF F
    <3> QED BY <2>1, <2>2, <2>3
  <2> QED BY <2>1, <2>4
<1>2. \A y : y \in V <=> \E x \in S : y \in F[x]
  OBVIOUS
<1> HIDE DEF F
<1> QED BY <1>1, <1>2, SumUnions

\* Different members have different images: nothing is lost.
LEMMA SumInjected ==
  ASSUME NEW f, NEW S, IsFiniteSet(S), NEW g, NEW h,
         \A x \in S : f[g[x]] \in Nat /\ h[x] = f[g[x]],
         \A x, y \in S : g[x] = g[y] => x = y,
         NEW V, \A y : y \in V <=> \E x \in S : y = g[x]
  PROVE  SumFunctionOnSet(f, V) = SumFunctionOnSet(h, S)
<1> DEFINE Image(U) == {y \in V : \E x \in U : y = g[x]}
           Sum(k, U) == SumFunctionOnSet(k, U)
           T == {U \in SUBSET S : Sum(f, Image(U)) = Sum(h, U)}
<1>1. {} \in T
  <2>1. Image({}) = {}
    OBVIOUS
  <2>2. Sum(f, {}) = 0 /\ Sum(h, {}) = 0
    BY SumEmpty
  <2> HIDE DEF Image, Sum
  <2> QED BY <2>1, <2>2
<1>2. ASSUME NEW U \in SUBSET S, NEW x \in S, U \in T, x \notin U
      PROVE  U \cup {x} \in T
  <2>1. /\ IsFiniteSet(U)
        /\ \A y \in U : f[g[y]] \in Nat /\ h[y] = f[g[y]]
        /\ \A y \in U \cup {x} : h[y] \in Int
        /\ \A y \in Image(U) \cup {g[x]} : f[y] \in Int
    BY FS_Subset
  <2>2. IsFiniteSet(Image(U))
    <3>1. \A y : y \in Image(U) <=> \E z \in U : y = g[z]
      OBVIOUS
    <3> HIDE DEF Image
    <3> QED BY <2>1, <3>1, SumImage
  <2>3. Image(U \cup {x}) = Image(U) \cup {g[x]} /\ g[x] \notin Image(U)
    BY <1>2
  <2>4. Sum(f, Image(U) \cup {g[x]}) = f[g[x]] + Sum(f, Image(U))
    <3> HIDE DEF Image
    <3> QED BY <2>1, <2>2, <2>3, SumAdd
  <2>5. Sum(h, U \cup {x}) = h[x] + Sum(h, U)
    BY <1>2, <2>1, SumAdd
  <2>6. Sum(f, Image(U)) = Sum(h, U) /\ h[x] = f[g[x]]
    BY <1>2
  <2> HIDE DEF Image, Sum
  <2>7. Sum(f, Image(U \cup {x})) = Sum(h, U \cup {x})
    BY <2>3, <2>4, <2>5, <2>6
  <2> QED BY <2>7
<1>3. S \in T
  <2> HIDE DEF T
  <2> QED BY <1>1, <1>2, FiniteSetInduction
<1>4. Image(S) = V
  OBVIOUS
<1>5. SumFunctionOnSet(f, Image(S)) = SumFunctionOnSet(h, S)
  BY <1>3
<1> HIDE DEF Image, T
<1> QED BY <1>4, <1>5

-----------------------------------------------------------------------------
(* Short lists: SMT sees what a list written out holds, not what operators *)
(* on lists make of it.                                                    *)

\* Nothing is joined with one member.
LEMMA JoinNoneOne ==
  ASSUME NEW a
  PROVE  <<>> \o <<a>> = <<a>>
<1> DEFINE S == {a}
           w == <<a>>
<1>1. w \in Seq(S)
  OBVIOUS
<1> HIDE DEF S, w
<1>2. <<>> \o w = w
  BY <1>1, ConcatEmptySeq
<1> QED BY <1>2 DEF w

\* One member is joined with one.
LEMMA JoinOneOne ==
  ASSUME NEW a, NEW b
  PROVE  <<a>> \o <<b>> = <<a, b>>
<1> DEFINE S == {a, b}
           u == <<a>>
           w == <<b>>
           t == <<a, b>>
<1>1. /\ u \in Seq(S) /\ w \in Seq(S) /\ t \in Seq(S)
      /\ Len(u) = 1 /\ Len(w) = 1 /\ Len(t) = 2
      /\ u[1] = a /\ w[1] = b /\ t[1] = a /\ t[2] = b
  OBVIOUS
<1> HIDE DEF S, u, w, t
<1>2. /\ u \o w \in Seq(S) /\ Len(u \o w) = Len(u) + Len(w)
      /\ \A i \in 1 .. Len(u) + Len(w) :
           (u \o w)[i] = IF i <= Len(u) THEN u[i] ELSE w[i - Len(u)]
  BY <1>1, ConcatProperties
<1>3. \A i \in 1 .. Len(u \o w) : (u \o w)[i] = t[i]
  BY <1>1, <1>2
<1>4. Len(u \o w) = Len(t)
  BY <1>1, <1>2
<1>5. u \o w = t
  BY <1>1, <1>2, <1>3, <1>4, SeqEqual
<1> QED BY <1>5 DEF u, w, t

\* Two members are joined with one.
LEMMA JoinTwoOne ==
  ASSUME NEW a, NEW b, NEW c
  PROVE  <<a, b>> \o <<c>> = <<a, b, c>>
<1> DEFINE S == {a, b, c}
           u == <<a, b>>
           w == <<c>>
           t == <<a, b, c>>
<1>1. /\ u \in Seq(S) /\ w \in Seq(S) /\ t \in Seq(S)
      /\ Len(u) = 2 /\ Len(w) = 1 /\ Len(t) = 3
      /\ u[1] = a /\ u[2] = b /\ w[1] = c /\ t[1] = a /\ t[2] = b /\ t[3] = c
  OBVIOUS
<1> HIDE DEF S, u, w, t
<1>2. /\ u \o w \in Seq(S) /\ Len(u \o w) = Len(u) + Len(w)
      /\ \A i \in 1 .. Len(u) + Len(w) :
           (u \o w)[i] = IF i <= Len(u) THEN u[i] ELSE w[i - Len(u)]
  BY <1>1, ConcatProperties
<1>3. \A i \in 1 .. Len(u \o w) : (u \o w)[i] = t[i]
  BY <1>1, <1>2
<1>4. Len(u \o w) = Len(t)
  BY <1>1, <1>2
<1>5. u \o w = t
  BY <1>1, <1>2, <1>3, <1>4, SeqEqual
<1> QED BY <1>5 DEF u, w, t

\* h joins the first lists of s, one after the other.
Joins(h, s, n) ==
  \A i \in 1 .. n : h[i] = IF i = 1 THEN s[i] ELSE h[i - 1] \o s[i]

\* The recursion of FlattenSeq, on a list of n lists that g flattens.
LEMMA FlattenIs ==
  ASSUME NEW s, NEW n \in Nat \ {0}, Len(s) = n,
         NEW R, NEW g \in [1 .. n -> R],
         Joins(g, s, n)
  PROVE  \E h : Joins(h, s, n) /\ FlattenSeq(s) = h[n]
<1> DEFINE flatten == CHOOSE h : h = [i \in 1 .. Len(s) |->
                        IF i = 1 THEN s[i] ELSE h[i - 1] \o s[i]]
<1>1. FlattenSeq(s) = flatten[n]
  BY DEF FlattenSeq
<1>2. flatten = [i \in 1 .. Len(s) |->
                   IF i = 1 THEN s[i] ELSE flatten[i - 1] \o s[i]]
  <2>1. g = [i \in 1 .. Len(s) |-> IF i = 1 THEN s[i] ELSE g[i - 1] \o s[i]]
    BY DEF Joins
  <2> QED BY <2>1
<1> HIDE DEF flatten
<1>3. Joins(flatten, s, n)
  BY <1>2 DEF Joins
<1> QED BY <1>1, <1>3

\* One list.
LEMMA FlattenOne ==
  ASSUME NEW s, Len(s) = 1
  PROVE  FlattenSeq(s) = s[1]
<1> DEFINE n == 1
           g == [i \in 1 .. 1 |-> s[1]]
           R == {g[i] : i \in 1 .. n}
<1>1. Joins(g, s, n)
  BY DEF Joins
<1>2. g \in [1 .. n -> R] /\ n \in Nat \ {0} /\ Len(s) = n
  OBVIOUS
<1> HIDE DEF g, n, R
<1>3. PICK h : Joins(h, s, n) /\ FlattenSeq(s) = h[n]
  BY <1>1, <1>2, FlattenIs
<1>4. h[1] = s[1]
  BY <1>3 DEF n, Joins
<1> QED BY <1>3, <1>4 DEF n

\* Two lists.
LEMMA FlattenTwo ==
  ASSUME NEW s, Len(s) = 2
  PROVE  FlattenSeq(s) = s[1] \o s[2]
<1> DEFINE n == 2
           g == [i \in 1 .. 2 |-> IF i = 1 THEN s[1] ELSE s[1] \o s[2]]
           R == {g[i] : i \in 1 .. n}
<1>1. Joins(g, s, n)
  BY DEF Joins
<1>2. g \in [1 .. n -> R] /\ n \in Nat \ {0} /\ Len(s) = n
  OBVIOUS
<1> HIDE DEF g, n, R
<1>3. PICK h : Joins(h, s, n) /\ FlattenSeq(s) = h[n]
  BY <1>1, <1>2, FlattenIs
<1>4. h[1] = s[1] /\ h[2] = h[1] \o s[2]
  BY <1>3 DEF n, Joins
<1> QED BY <1>3, <1>4 DEF n

\* Three lists.
LEMMA FlattenThree ==
  ASSUME NEW s, Len(s) = 3
  PROVE  FlattenSeq(s) = (s[1] \o s[2]) \o s[3]
<1> DEFINE n == 3
           g == [i \in 1 .. 3 |-> IF i = 1 THEN s[1]
                                  ELSE IF i = 2 THEN s[1] \o s[2]
                                  ELSE (s[1] \o s[2]) \o s[3]]
           R == {g[i] : i \in 1 .. n}
<1>1. Joins(g, s, n)
  BY DEF Joins
<1>2. g \in [1 .. n -> R] /\ n \in Nat \ {0} /\ Len(s) = n
  OBVIOUS
<1> HIDE DEF g, n, R
<1>3. PICK h : Joins(h, s, n) /\ FlattenSeq(s) = h[n]
  BY <1>1, <1>2, FlattenIs
<1>4. h[1] = s[1] /\ h[2] = h[1] \o s[2] /\ h[3] = h[2] \o s[3]
  BY <1>3 DEF n, Joins
<1> QED BY <1>3, <1>4 DEF n

\* The sum of no numbers.
LEMMA SumOfNone ==
  ASSUME NEW f, DOMAIN f = {}
  PROVE  SumFunction(f) = 0
BY SumEmpty DEF SumFunction

\* The sum of one number.
LEMMA SumOfOne ==
  ASSUME NEW f, f[1] \in Int, DOMAIN f = 1 .. 1
  PROVE  SumFunction(f) = f[1]
<1> DEFINE E == {}
           one == 1
<1>1. IsFiniteSet(E) /\ one \notin E /\ \A y \in E \cup {one} : f[y] \in Int
  BY FS_EmptySet
<1>2. E \cup {one} = DOMAIN f /\ SumFunctionOnSet(f, E) = 0
  BY SumEmpty
<1> HIDE DEF E, one
<1>3. SumFunctionOnSet(f, E \cup {one}) = f[one] + SumFunctionOnSet(f, E)
  BY <1>1, SumAdd
<1>4. SumFunction(f) = f[one] + 0
  BY <1>2, <1>3 DEF SumFunction
<1> QED BY <1>4 DEF one

\* Different things are as many as they are listed.
LEMMA SizeOfTwo ==
  ASSUME NEW a, NEW b, a # b
  PROVE  Cardinality({a, b}) = 2
<1>1. IsFiniteSet({a}) /\ Cardinality({a}) = 1 /\ b \notin {a}
  BY FS_Singleton
<1>2. Cardinality({a} \cup {b}) = 2
  BY <1>1, FS_AddElement
<1>3. {a} \cup {b} = {a, b}
  OBVIOUS
<1> QED BY <1>2, <1>3

\* And three of them.
LEMMA SizeOfThree ==
  ASSUME NEW a, NEW b, NEW c, a # b, a # c, b # c
  PROVE  Cardinality({a, b, c}) = 3
<1>1. IsFiniteSet({a}) /\ IsFiniteSet({b}) /\ {a} \cup {b} = {a, b}
  BY FS_Singleton
<1>2. IsFiniteSet({a, b}) /\ Cardinality({a, b}) = 2 /\ c \notin {a, b}
  BY <1>1, FS_Union, SizeOfTwo
<1>3. Cardinality({a, b} \cup {c}) = 3
  BY <1>2, FS_AddElement
<1>4. {a, b} \cup {c} = {a, b, c}
  OBVIOUS
<1> QED BY <1>3, <1>4

\* The sum of two numbers.
LEMMA SumOfTwo ==
  ASSUME NEW f, f[1] \in Int, f[2] \in Int, DOMAIN f = 1 .. 2
  PROVE  SumFunction(f) = f[1] + f[2]
<1>1. SumFunction(f) = SumFunctionOnSet(f, {1, 2})
  <2>1. DOMAIN f = {1, 2}
    OBVIOUS
  <2> QED BY <2>1 DEF SumFunction
<1>2. SumFunctionOnSet(f, {}) = 0
  BY SumEmpty
<1>3. SumFunctionOnSet(f, {1}) = f[1]
  <2> DEFINE E == {}
             one == 1
  <2>1. IsFiniteSet(E) /\ one \notin E /\ f[one] \in Int
        /\ \A y \in E \cup {one} : f[y] \in Int
    BY FS_EmptySet
  <2>2. E \cup {one} = {1} /\ SumFunctionOnSet(f, E) = 0
    BY <1>2
  <2> HIDE DEF E, one
  <2>3. SumFunctionOnSet(f, E \cup {one}) = f[one] + SumFunctionOnSet(f, E)
    BY <2>1, SumAdd
  <2>4. SumFunctionOnSet(f, {1}) = f[one] + 0
    BY <2>2, <2>3
  <2> QED BY <2>4 DEF one
<1>4. SumFunctionOnSet(f, {1, 2}) = f[2] + SumFunctionOnSet(f, {1})
  <2> DEFINE E == {1}
             two == 2
  <2>1. IsFiniteSet(E) /\ two \notin E /\ f[two] \in Int
        /\ \A y \in E \cup {two} : f[y] \in Int
    BY FS_Singleton
  <2>2. E \cup {two} = {1, 2}
    OBVIOUS
  <2> HIDE DEF E, two
  <2>3. SumFunctionOnSet(f, E \cup {two}) = f[two] + SumFunctionOnSet(f, E)
    BY <2>1, SumAdd
  <2> QED BY <2>2, <2>3 DEF E, two
<1> QED BY <1>1, <1>3, <1>4

\* The sum of three numbers.
LEMMA SumOfThree ==
  ASSUME NEW f, f[1] \in Int, f[2] \in Int, f[3] \in Int, DOMAIN f = 1 .. 3
  PROVE  SumFunction(f) = f[1] + f[2] + f[3]
<1> DEFINE g == [i \in 1 .. 2 |-> f[i]]
<1>1. SumFunction(f) = SumFunctionOnSet(f, {1, 2, 3})
  <2>1. DOMAIN f = {1, 2, 3}
    OBVIOUS
  <2> QED BY <2>1 DEF SumFunction
<1>2. SumFunctionOnSet(f, {1, 2}) = f[1] + f[2]
  <2>1. g[1] \in Int /\ g[2] \in Int /\ DOMAIN g = 1 .. 2
        /\ g[1] = f[1] /\ g[2] = f[2] /\ DOMAIN g = {1, 2}
        /\ \A x \in {1, 2} : g[x] = f[x]
    OBVIOUS
  <2> HIDE DEF g
  <2>2. SumFunction(g) = g[1] + g[2]
    BY <2>1, SumOfTwo
  <2>3. SumFunction(g) = SumFunctionOnSet(g, {1, 2})
    BY <2>1 DEF SumFunction
  <2>4. SumFunctionOnSet(g, {1, 2}) = SumFunctionOnSet(f, {1, 2})
    <3> DEFINE E == {1, 2}
    <3>1. IsFiniteSet(E) /\ \A x \in E : g[x] = f[x]
      <4>1. IsFiniteSet({1} \cup {2})
        BY FS_Singleton, FS_Union
      <4>2. {1} \cup {2} = {1, 2}
        OBVIOUS
      <4> QED BY <2>1, <4>1, <4>2
    <3> HIDE DEF E
    <3>2. SumFunctionOnSet(g, E) = SumFunctionOnSet(f, E)
      BY <3>1, SumSame
    <3> QED BY <3>2 DEF E
  <2> QED BY <2>1, <2>2, <2>3, <2>4
<1>3. SumFunctionOnSet(f, {1, 2, 3}) = f[3] + SumFunctionOnSet(f, {1, 2})
  <2> DEFINE E == {1, 2}
             three == 3
  <2>1. IsFiniteSet(E) /\ three \notin E /\ f[three] \in Int
        /\ \A y \in E \cup {three} : f[y] \in Int
    <3>1. IsFiniteSet({1} \cup {2})
      BY FS_Singleton, FS_Union
    <3>2. {1} \cup {2} = {1, 2}
      OBVIOUS
    <3> QED BY <3>1, <3>2
  <2>2. E \cup {three} = {1, 2, 3}
    OBVIOUS
  <2> HIDE DEF E, three
  <2>3. SumFunctionOnSet(f, E \cup {three}) = f[three] + SumFunctionOnSet(f, E)
    BY <2>1, SumAdd
  <2> QED BY <2>2, <2>3 DEF E, three
<1> QED BY <1>1, <1>2, <1>3

\* In a list whose neighbours ascend, every two members do.
LEMMA NeighboursAscend ==
  ASSUME NEW s \in Seq(Nat), \A j \in 1 .. Len(s) - 1 : s[j] < s[j + 1]
  PROVE  \A a, b \in 1 .. Len(s) : a < b => s[a] < s[b]
<1> DEFINE Pairs(n) == \A a, b \in 1 .. n : a < b => s[a] < s[b]
           T == {n \in Nat : n <= Len(s) => Pairs(n)}
<1>1. Len(s) \in Nat /\ \A i \in 1 .. Len(s) : s[i] \in Nat
  OBVIOUS
<1>2. 0 \in T
  OBVIOUS
<1>3. ASSUME NEW n \in Nat, n \in T PROVE n + 1 \in T
  <2> SUFFICES ASSUME n + 1 <= Len(s), NEW a \in 1 .. n + 1, NEW b \in 1 .. n + 1,
                      a < b
               PROVE  s[a] < s[b]
    OBVIOUS
  <2>1. Pairs(n)
    BY <1>1, <1>3
  <2>2. CASE b <= n
    BY <2>1, <2>2
  <2>3. CASE b = n + 1
    <3>1. n \in 1 .. Len(s) - 1 /\ n \in 1 .. Len(s) /\ b \in 1 .. Len(s)
      BY <1>1, <2>3
    <3>2. s[n] < s[n + 1]
      BY <3>1
    <3>3. CASE a = n
      BY <2>3, <3>2, <3>3
    <3>4. CASE a < n
      <4>1. s[a] < s[n]
        BY <2>1, <3>4
      <4>2. s[a] \in Nat /\ s[n] \in Nat /\ s[n + 1] \in Nat
        BY <1>1, <3>1, <2>3, <3>4
      <4> QED BY <2>3, <3>2, <4>1, <4>2
    <3> QED BY <2>3, <3>3, <3>4
  <2> QED BY <2>2, <2>3
<1>4. Nat \subseteq T
  <2> HIDE DEF T
  <2> QED BY <1>2, <1>3, NatSetInduction
<1> QED BY <1>1, <1>4

=============================================================================
