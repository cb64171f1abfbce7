----------------------------- MODULE FiniteSums -----------------------------
(***************************************************************************)
(* Sums over finite sets, as the meters need them: what SumFunctionOnSet   *)
(* yields, whatever the order in which it picks the members.  Induction    *)
(* is the least element of a set of naturals, in first-order form.         *)
(***************************************************************************)
EXTENDS Integers, Functions, FiniteSets, FiniteSetTheorems, WellFoundedInduction, TLAPS

Below == {ss \in Nat \X Nat : ss[1] < ss[2]}

LEMMA BelowIsWellFounded == IsWellFoundedOn(Below, Nat)
  BY NatLessThanWellFounded DEF OpToRel, Below

\* A set that has zero, and the successor of all it has, has every natural.
LEMMA NatSetInduction ==
  ASSUME NEW P, 0 \in P, \A n \in Nat : n \in P => n + 1 \in P
  PROVE  Nat \subseteq P
<1> DEFINE T == Nat \ P
<1> SUFFICES ASSUME T # {} PROVE FALSE
  OBVIOUS
<1>1. PICK x \in T : \A y \in T : <<y, x>> \notin Below
  <2>1. T \subseteq Nat
    OBVIOUS
  <2> HIDE DEF T
  <2> QED
    BY <2>1, WFMin, BelowIsWellFounded
<1>2. x # 0 /\ x \in Nat
  OBVIOUS
<1>3. x - 1 \in Nat /\ x - 1 \in P
  <2>1. x - 1 \in Nat
    BY <1>2
  <2>2. <<x - 1, x>> \in Below
    BY <2>1, <1>2 DEF Below
  <2> QED
    BY <1>1, <2>1, <2>2
<1>4. x - 1 + 1 \in P
  BY <1>3
<1> QED
  BY <1>4, <1>2

-----------------------------------------------------------------------------
\* The member that a fold takes first.
Picked(s) == CHOOSE x \in s : TRUE

\* Folds(w, S, f): f is the recursive function by which w is summed over S.
Folds(w, S, f) ==
  f = [s \in SUBSET S |-> IF s = {} THEN 0 ELSE w[Picked(s)] + f[s \ {Picked(s)}]]

\* Taking one member off a set of a given size.
LEMMA OneLess ==
  ASSUME NEW S, IsFiniteSet(S), NEW s \in SUBSET S, NEW n \in Nat, NEW x \in s,
         Cardinality(s) <= n + 1
  PROVE  /\ s \ {x} \in SUBSET S /\ IsFiniteSet(s) /\ Cardinality(s) \in Nat
         /\ Cardinality(s \ {x}) = Cardinality(s) - 1
         /\ Cardinality(s \ {x}) <= n
<1>1. IsFiniteSet(s)
  BY FS_Subset
<1>2. Cardinality(s) \in Nat
  BY <1>1, FS_CardinalityType
<1>3. Cardinality(s \ {x}) = Cardinality(s) - 1
  BY <1>1, FS_RemoveElement
<1> QED
  BY <1>1, <1>2, <1>3

\* There is such a function.
LEMMA FoldExists ==
  ASSUME NEW w, NEW S, IsFiniteSet(S)
  PROVE  \E f : Folds(w, S, f)
<1> DEFINE Level(n) == {s \in SUBSET S : Cardinality(s) <= n}
           Upto(n, f) == f = [s \in Level(n) |->
                                IF s = {} THEN 0 ELSE w[Picked(s)] + f[s \ {Picked(s)}]]
           Good == {n \in Nat : \E f : Upto(n, f)}
<1>1. 0 \in Good
  <2> DEFINE f == [s \in Level(0) |-> 0]
  <2>1. \A s \in Level(0) : s = {}
    <3> SUFFICES ASSUME NEW s \in SUBSET S, Cardinality(s) <= 0 PROVE s = {}
      OBVIOUS
    <3>1. IsFiniteSet(s) /\ Cardinality(s) \in Nat
      BY FS_Subset, FS_CardinalityType
    <3> QED
      BY <3>1, FS_EmptySet
  <2>2. Upto(0, f)
    <3> HIDE DEF Level
    <3> QED
      BY <2>1
  <2> HIDE DEF Upto
  <2> QED
    BY <2>2
<1>2. \A n \in Nat : n \in Good => n + 1 \in Good
  <2> HIDE DEF Upto
  <2> SUFFICES ASSUME NEW n \in Nat, NEW f, Upto(n, f) PROVE \E g : Upto(n + 1, g)
    OBVIOUS
  <2> USE DEF Upto
  <2> DEFINE g == [s \in Level(n + 1) |->
                     IF s = {} THEN 0 ELSE w[Picked(s)] + f[s \ {Picked(s)}]]
  <2>1. \A s \in Level(n) : s \in Level(n + 1) /\ g[s] = f[s]
    <3> SUFFICES ASSUME NEW s \in Level(n) PROVE s \in Level(n + 1) /\ g[s] = f[s]
      OBVIOUS
    <3>1. s \in Level(n + 1)
      <4>1. Cardinality(s) \in Nat
        BY FS_Subset, FS_CardinalityType
      <4> QED
        BY <4>1
    <3> HIDE DEF Level
    <3> QED
      BY <3>1
  <2>2. \A s \in Level(n + 1) : s # {} => s \ {Picked(s)} \in Level(n)
    <3> SUFFICES ASSUME NEW s \in Level(n + 1), s # {} PROVE s \ {Picked(s)} \in Level(n)
      OBVIOUS
    <3>1. Picked(s) \in s
      BY DEF Picked
    <3> QED
      BY <3>1, OneLess
  <2>3. Upto(n + 1, g)
    <3> HIDE DEF Level
    <3> QED
      BY <2>1, <2>2
  <2> HIDE DEF Upto, g
  <2> QED
    BY <2>3
<1>3. Cardinality(S) \in Good
  <2> HIDE DEF Good
  <2> QED
    BY <1>1, <1>2, NatSetInduction, FS_CardinalityType
<1>4. Level(Cardinality(S)) = SUBSET S
  BY FS_Subset, FS_CardinalityType
<1> HIDE DEF Level
<1> QED
  BY <1>3, <1>4 DEF Folds

\* Two of them agree wherever both are defined.
LEMMA FoldsAgree ==
  ASSUME NEW w, NEW S, IsFiniteSet(S), NEW T \in SUBSET S, NEW f, NEW g,
         Folds(w, S, f), Folds(w, T, g)
  PROVE  \A s \in SUBSET T : f[s] = g[s]
<1> DEFINE Good == {n \in Nat : \A s \in SUBSET T : Cardinality(s) <= n => f[s] = g[s]}
<1>1. \A s \in SUBSET T : IsFiniteSet(s) /\ Cardinality(s) \in Nat
  BY FS_Subset, FS_CardinalityType
<1>2. 0 \in Good
  <2> SUFFICES ASSUME NEW s \in SUBSET T, Cardinality(s) <= 0 PROVE f[s] = g[s]
    OBVIOUS
  <2>1. s = {}
    BY <1>1, FS_EmptySet
  <2> QED
    BY <2>1 DEF Folds
<1>3. \A n \in Nat : n \in Good => n + 1 \in Good
  <2> SUFFICES ASSUME NEW n \in Nat, n \in Good,
                      NEW s \in SUBSET T, Cardinality(s) <= n + 1
               PROVE  f[s] = g[s]
    OBVIOUS
  <2> DEFINE rest == s \ {Picked(s)}
  <2>1. CASE s = {}
    BY <2>1 DEF Folds
  <2>2. CASE s # {}
    <3>1. Picked(s) \in s
      BY <2>2 DEF Picked
    <3>2. rest \in SUBSET T /\ Cardinality(rest) <= n
      BY <3>1, <1>1, FS_Subset, OneLess
    <3>3. f[rest] = g[rest]
      BY <3>2
    <3>4. f[s] = w[Picked(s)] + f[rest] /\ g[s] = w[Picked(s)] + g[rest]
      BY <2>2 DEF Folds
    <3> QED
      BY <3>3, <3>4
  <2> QED
    BY <2>1, <2>2
<1>4. Nat \subseteq Good
  <2> HIDE DEF Good
  <2> QED
    BY <1>2, <1>3, NatSetInduction
<1> QED
  BY <1>1, <1>4

LEMMA SumIsAFold ==
  ASSUME NEW w, NEW S, IsFiniteSet(S)
  PROVE  \E f : Folds(w, S, f) /\ SumFunctionOnSet(w, S) = f[S]
<1> DEFINE iter == CHOOSE f : Folds(w, S, f)
<1>1. Folds(w, S, iter)
  BY FoldExists
<1>2. SumFunctionOnSet(w, S) = iter[S]
  BY DEF SumFunctionOnSet, FoldFunctionOnSet, MapThenFoldSet, Folds, Picked
<1> QED
  BY <1>1, <1>2

\* The sum as a recursion of its own.
LEMMA SumUnfolds ==
  ASSUME NEW w, NEW S, IsFiniteSet(S)
  PROVE  SumFunctionOnSet(w, S) =
           IF S = {} THEN 0
           ELSE w[Picked(S)] + SumFunctionOnSet(w, S \ {Picked(S)})
<1>1. PICK f : Folds(w, S, f) /\ SumFunctionOnSet(w, S) = f[S]
  BY SumIsAFold
<1> DEFINE rest == S \ {Picked(S)}
<1>2. IsFiniteSet(rest)
  BY FS_Subset
<1>3. PICK g : Folds(w, rest, g) /\ SumFunctionOnSet(w, rest) = g[rest]
  BY <1>2, SumIsAFold
<1>4. f[rest] = g[rest]
  <2>1. rest \in SUBSET S /\ rest \in SUBSET rest
    OBVIOUS
  <2> QED
    BY <1>1, <1>3, <2>1, FoldsAgree
<1>5. f[S] = IF S = {} THEN 0 ELSE w[Picked(S)] + f[rest]
  BY <1>1 DEF Folds
<1> QED
  BY <1>1, <1>3, <1>4, <1>5

-----------------------------------------------------------------------------
\* A sum of integers is an integer, and any member may be split off it.
LEMMA SumTypeAndSplit ==
  ASSUME NEW D, IsFiniteSet(D), NEW w, \A x \in D : w[x] \in Int
  PROVE  \A S \in SUBSET D :
           /\ SumFunctionOnSet(w, S) \in Int
           /\ \A x \in S : SumFunctionOnSet(w, S) = w[x] + SumFunctionOnSet(w, S \ {x})
<1> DEFINE Total(S) == SumFunctionOnSet(w, S)
           Splits(S) == Total(S) \in Int /\ \A x \in S : Total(S) = w[x] + Total(S \ {x})
           Good == {n \in Nat : \A S \in SUBSET D : Cardinality(S) <= n => Splits(S)}
<1>1. \A S \in SUBSET D : IsFiniteSet(S) /\ Cardinality(S) \in Nat
  BY FS_Subset, FS_CardinalityType
<1>2. \A S \in SUBSET D : Total(S) = IF S = {} THEN 0 ELSE w[Picked(S)] + Total(S \ {Picked(S)})
  BY <1>1, SumUnfolds
<1> HIDE DEF Total
<1>3. 0 \in Good
  <2> SUFFICES ASSUME NEW S \in SUBSET D, Cardinality(S) <= 0 PROVE Splits(S)
    OBVIOUS
  <2>1. S = {}
    BY <1>1, FS_EmptySet
  <2>2. Total({}) = 0
    BY <1>2
  <2> QED
    BY <2>1, <2>2
<1>4. \A n \in Nat : n \in Good => n + 1 \in Good
  <2> HIDE DEF Splits
  <2> SUFFICES ASSUME NEW n \in Nat, n \in Good,
                      NEW S \in SUBSET D, Cardinality(S) <= n + 1
               PROVE  Splits(S)
    OBVIOUS
  <2> USE DEF Splits
  <2>1. CASE S = {}
    <3>1. Total({}) = 0
      BY <1>2
    <3> QED
      BY <2>1, <3>1
  <2>2. CASE S # {}
    <3> DEFINE p == Picked(S)
    <3>1. p \in S
      BY <2>2 DEF Picked
    <3>2. Total(S) = w[p] + Total(S \ {p})
      BY <1>2, <2>2
    <3>3. \A x \in S : w[x] \in Int /\ S \ {x} \in SUBSET D /\ Splits(S \ {x})
      <4> SUFFICES ASSUME NEW x \in S
                   PROVE  w[x] \in Int /\ S \ {x} \in SUBSET D /\ Splits(S \ {x})
        OBVIOUS
      <4>1. S \ {x} \in SUBSET D /\ Cardinality(S \ {x}) <= n
        BY OneLess
      <4> HIDE DEF Splits
      <4> QED
        BY <4>1
    <3> HIDE DEF p
    <3>4. Total(S) \in Int
      BY <3>1, <3>2, <3>3
    <3>5. ASSUME NEW x \in S PROVE Total(S) = w[x] + Total(S \ {x})
      <4>1. CASE x = p
        BY <3>2, <4>1
      <4>2. CASE x # p
        <5> DEFINE rest == (S \ {p}) \ {x}
        <5>1. rest = (S \ {x}) \ {p}
          OBVIOUS
        <5>2. Total(S \ {p}) = w[x] + Total(rest)
          BY <3>1, <3>3, <4>2
        <5>3. Total(S \ {x}) = w[p] + Total(rest)
          BY <3>1, <3>3, <4>2, <5>1
        <5>4. Total(rest) \in Int
          <6>1. rest \in SUBSET D /\ Cardinality(rest) <= n
            <7>1. Cardinality(S \ {p}) <= n /\ S \ {p} \in SUBSET D /\ x \in S \ {p}
              BY <3>1, <4>2, OneLess
            <7>2. Cardinality(S \ {p}) <= n + 1
              BY <7>1, <1>1
            <7> QED
              BY <7>1, <7>2, OneLess
          <6> QED
            BY <6>1
        <5> HIDE DEF rest
        <5> QED
          BY <3>1, <3>2, <3>3, <5>2, <5>3, <5>4
      <4> QED
        BY <4>1, <4>2
    <3> QED
      BY <3>4, <3>5
  <2> QED
    BY <2>1, <2>2
<1>5. Nat \subseteq Good
  <2> HIDE DEF Good
  <2> QED
    BY <1>3, <1>4, NatSetInduction
<1> QED
  BY <1>1, <1>5 DEF Total

LEMMA SumOfNone == ASSUME NEW w PROVE SumFunctionOnSet(w, {}) = 0
  BY SumUnfolds, FS_EmptySet

LEMMA SumType ==
  ASSUME NEW w, NEW S, IsFiniteSet(S), \A x \in S : w[x] \in Int
  PROVE  SumFunctionOnSet(w, S) \in Int
BY SumTypeAndSplit

\* One member more.
LEMMA SumAdds ==
  ASSUME NEW w, NEW S, IsFiniteSet(S), NEW x, x \notin S,
         \A y \in S \cup {x} : w[y] \in Int
  PROVE  SumFunctionOnSet(w, S \cup {x}) = SumFunctionOnSet(w, S) + w[x]
<1> DEFINE D == S \cup {x}
<1>1. IsFiniteSet(D) /\ D \in SUBSET D /\ x \in D /\ D \ {x} = S
  BY FS_AddElement
<1>2. SumFunctionOnSet(w, D) = w[x] + SumFunctionOnSet(w, D \ {x})
  <2> HIDE DEF D
  <2>1. \A y \in D : w[y] \in Int
    BY DEF D
  <2> QED
    BY <1>1, <2>1, SumTypeAndSplit
<1>3. SumFunctionOnSet(w, S) \in Int /\ w[x] \in Int
  BY SumType
<1> HIDE DEF D
<1>4. SumFunctionOnSet(w, D) = w[x] + SumFunctionOnSet(w, S)
  BY <1>1, <1>2
<1> QED
  BY <1>3, <1>4 DEF D
-----------------------------------------------------------------------------
\* A set of sets that has the empty set, and with a set that set and a member more,
\* has every finite set.
LEMMA FinSetInduction ==
  ASSUME NEW S, IsFiniteSet(S), NEW P, {} \in P,
         \A s \in SUBSET S : \A x \in S \ s : s \in P => s \cup {x} \in P
  PROVE  S \in P
<1> DEFINE Good == {n \in Nat : \A s \in SUBSET S : Cardinality(s) <= n => s \in P}
<1>1. \A s \in SUBSET S : IsFiniteSet(s) /\ Cardinality(s) \in Nat
  BY FS_Subset, FS_CardinalityType
<1>2. 0 \in Good
  <2> SUFFICES ASSUME NEW s \in SUBSET S, Cardinality(s) <= 0 PROVE s \in P
    OBVIOUS
  <2>1. s = {}
    BY <1>1, FS_EmptySet
  <2> QED
    BY <2>1
<1>3. \A n \in Nat : n \in Good => n + 1 \in Good
  <2> SUFFICES ASSUME NEW n \in Nat, n \in Good,
                      NEW s \in SUBSET S, Cardinality(s) <= n + 1
               PROVE  s \in P
    OBVIOUS
  <2>1. CASE s = {}
    BY <2>1
  <2>2. CASE s # {}
    <3>1. PICK x \in s : TRUE
      BY <2>2
    <3> DEFINE rest == s \ {x}
    <3>2. rest \in SUBSET S /\ Cardinality(rest) <= n
      BY OneLess
    <3>3. rest \in P
      BY <3>2
    <3>4. x \in S \ rest /\ rest \cup {x} = s
      OBVIOUS
    <3> HIDE DEF rest
    <3>5. rest \cup {x} \in P
      BY <3>2, <3>3, <3>4
    <3> QED
      BY <3>4, <3>5
  <2> QED
    BY <2>1, <2>2
<1>4. Nat \subseteq Good
  <2> HIDE DEF Good
  <2> QED
    BY <1>2, <1>3, NatSetInduction
<1> QED
  BY <1>1, <1>4

\* A sum depends on the summands alone.
LEMMA SumOfSame ==
  ASSUME NEW S, IsFiniteSet(S), NEW v, NEW w, \A x \in S : v[x] \in Int /\ w[x] = v[x]
  PROVE  SumFunctionOnSet(v, S) = SumFunctionOnSet(w, S)
<1> DEFINE P == {s \in SUBSET S : SumFunctionOnSet(v, s) = SumFunctionOnSet(w, s)}
<1>1. {} \in P
  BY SumOfNone
<1>2. \A s \in SUBSET S : \A x \in S \ s : s \in P => s \cup {x} \in P
  <2> SUFFICES ASSUME NEW s \in SUBSET S, NEW x \in S \ s, s \in P PROVE s \cup {x} \in P
    OBVIOUS
  <2>1. IsFiniteSet(s) /\ x \notin s
    BY FS_Subset
  <2>2. SumFunctionOnSet(v, s \cup {x}) = SumFunctionOnSet(v, s) + v[x]
    BY <2>1, SumAdds
  <2>3. SumFunctionOnSet(w, s \cup {x}) = SumFunctionOnSet(w, s) + w[x]
    BY <2>1, SumAdds
  <2>4. SumFunctionOnSet(v, s \cup {x}) = SumFunctionOnSet(w, s \cup {x})
    BY <2>2, <2>3
  <2> QED
    BY <2>4
<1> HIDE DEF P
<1>3. S \in P
  BY <1>1, <1>2, FinSetInduction
<1> QED
  BY <1>3 DEF P

\* The sum of sums.
LEMMA SumOfPairs ==
  ASSUME NEW S, IsFiniteSet(S), NEW u, NEW v, NEW w,
         \A x \in S : v[x] \in Int /\ w[x] \in Int /\ u[x] = v[x] + w[x]
  PROVE  SumFunctionOnSet(u, S) = SumFunctionOnSet(v, S) + SumFunctionOnSet(w, S)
<1> DEFINE P == {s \in SUBSET S :
                   SumFunctionOnSet(u, s) = SumFunctionOnSet(v, s) + SumFunctionOnSet(w, s)}
<1>1. {} \in P
  BY SumOfNone
<1>2. \A s \in SUBSET S : \A x \in S \ s : s \in P => s \cup {x} \in P
  <2> SUFFICES ASSUME NEW s \in SUBSET S, NEW x \in S \ s, s \in P PROVE s \cup {x} \in P
    OBVIOUS
  <2>1. IsFiniteSet(s) /\ x \notin s /\ \A y \in S : u[y] \in Int
    BY FS_Subset
  <2>2. /\ SumFunctionOnSet(u, s \cup {x}) = SumFunctionOnSet(u, s) + u[x]
        /\ SumFunctionOnSet(v, s \cup {x}) = SumFunctionOnSet(v, s) + v[x]
        /\ SumFunctionOnSet(w, s \cup {x}) = SumFunctionOnSet(w, s) + w[x]
    BY <2>1, SumAdds
  <2>3. SumFunctionOnSet(v, s) \in Int /\ SumFunctionOnSet(w, s) \in Int
    BY <2>1, SumType
  <2>4. SumFunctionOnSet(u, s \cup {x})
          = SumFunctionOnSet(v, s \cup {x}) + SumFunctionOnSet(w, s \cup {x})
    BY <2>2, <2>3
  <2> QED
    BY <2>4
<1> HIDE DEF P
<1>3. S \in P
  BY <1>1, <1>2, FinSetInduction
<1> QED
  BY <1>3 DEF P

\* Two sets apart.
LEMMA SumOfUnion ==
  ASSUME NEW S, NEW T, IsFiniteSet(S), IsFiniteSet(T), S \cap T = {},
         NEW w, \A x \in S \cup T : w[x] \in Int
  PROVE  SumFunctionOnSet(w, S \cup T) = SumFunctionOnSet(w, S) + SumFunctionOnSet(w, T)
<1> DEFINE P == {t \in SUBSET T :
                   SumFunctionOnSet(w, S \cup t) = SumFunctionOnSet(w, S) + SumFunctionOnSet(w, t)}
<1>1. {} \in P
  <2>1. S \cup {} = S /\ SumFunctionOnSet(w, S) \in Int
    BY SumType
  <2> QED
    BY <2>1, SumOfNone
<1>2. \A t \in SUBSET T : \A x \in T \ t : t \in P => t \cup {x} \in P
  <2> SUFFICES ASSUME NEW t \in SUBSET T, NEW x \in T \ t, t \in P PROVE t \cup {x} \in P
    OBVIOUS
  <2>1. IsFiniteSet(t) /\ IsFiniteSet(S \cup t) /\ x \notin t /\ x \notin S \cup t
    BY FS_Subset, FS_Union
  <2>2. SumFunctionOnSet(w, t \cup {x}) = SumFunctionOnSet(w, t) + w[x]
    BY <2>1, SumAdds
  <2>3. SumFunctionOnSet(w, (S \cup t) \cup {x}) = SumFunctionOnSet(w, S \cup t) + w[x]
    BY <2>1, SumAdds
  <2>4. (S \cup t) \cup {x} = S \cup (t \cup {x})
    OBVIOUS
  <2>5. SumFunctionOnSet(w, S) \in Int /\ SumFunctionOnSet(w, t) \in Int /\ w[x] \in Int
    BY <2>1, SumType
  <2>6. SumFunctionOnSet(w, S \cup t) = SumFunctionOnSet(w, S) + SumFunctionOnSet(w, t)
    OBVIOUS
  <2>7. SumFunctionOnSet(w, S \cup (t \cup {x})) = SumFunctionOnSet(w, S \cup t) + w[x]
    BY <2>3, <2>4
  <2>8. SumFunctionOnSet(w, S \cup (t \cup {x}))
          = SumFunctionOnSet(w, S) + SumFunctionOnSet(w, t \cup {x})
    <3> HIDE DEF P
    <3> QED
      BY <2>2, <2>5, <2>6, <2>7
  <2> QED
    BY <2>8
<1> HIDE DEF P
<1>3. T \in P
  BY <1>1, <1>2, FinSetInduction
<1> QED
  BY <1>3 DEF P

\* What is grouped by a key adds up to what there is.
LEMMA SumOfGroups ==
  ASSUME NEW S, IsFiniteSet(S), NEW K, IsFiniteSet(K), NEW key, \A x \in S : key[x] \in K,
         NEW w, \A x \in S : w[x] \in Int,
         NEW part, \A k \in K : part[k] = SumFunctionOnSet(w, {x \in S : key[x] = k})
  PROVE  SumFunctionOnSet(part, K) = SumFunctionOnSet(w, S)
<1> DEFINE Of(k)  == {x \in S : key[x] = k}
           In(k) == {x \in S : key[x] \in k}
           P == {k \in SUBSET K : SumFunctionOnSet(part, k) = SumFunctionOnSet(w, In(k))}
<1>1. {} \in P
  <2>1. In({}) = {}
    OBVIOUS
  <2> QED
    BY <2>1, SumOfNone
<1>2. ASSUME NEW k \in K PROVE IsFiniteSet(Of(k)) /\ part[k] \in Int
  <2>1. IsFiniteSet(Of(k))
    BY FS_Subset
  <2>2. SumFunctionOnSet(w, Of(k)) \in Int
    BY <2>1, SumType
  <2> QED
    BY <2>1, <2>2
<1>3. \A k \in SUBSET K : \A x \in K \ k : k \in P => k \cup {x} \in P
  <2> SUFFICES ASSUME NEW k \in SUBSET K, NEW x \in K \ k, k \in P PROVE k \cup {x} \in P
    OBVIOUS
  <2>1. IsFiniteSet(k) /\ \A y \in k \cup {x} : part[y] \in Int
    BY <1>2, FS_Subset
  <2>2. SumFunctionOnSet(part, k \cup {x}) = SumFunctionOnSet(part, k) + part[x]
    BY <2>1, SumAdds
  <2>3. /\ In(k \cup {x}) = In(k) \cup Of(x) /\ In(k) \cap Of(x) = {}
        /\ \A y \in In(k) \cup Of(x) : w[y] \in Int
    OBVIOUS
  <2>4. IsFiniteSet(In(k)) /\ IsFiniteSet(Of(x))
    BY <1>2, FS_Subset
  <2>5. part[x] = SumFunctionOnSet(w, Of(x))
    OBVIOUS
  <2>6. SumFunctionOnSet(part, k) = SumFunctionOnSet(w, In(k))
    OBVIOUS
  <2> HIDE DEF In, Of, P
  <2>7. SumFunctionOnSet(w, In(k) \cup Of(x))
          = SumFunctionOnSet(w, In(k)) + SumFunctionOnSet(w, Of(x))
    BY <2>3, <2>4, SumOfUnion
  <2>8. SumFunctionOnSet(part, k \cup {x}) = SumFunctionOnSet(w, In(k \cup {x}))
    BY <2>2, <2>3, <2>5, <2>6, <2>7
  <2> QED
    BY <2>8 DEF P
<1> HIDE DEF P
<1>4. K \in P
  BY <1>1, <1>3, FinSetInduction
<1>5. In(K) = S
  OBVIOUS
<1> HIDE DEF In
<1> QED
  BY <1>4, <1>5 DEF P

\* A sum of ones counts.
LEMMA SumOfOnes ==
  ASSUME NEW S, IsFiniteSet(S), NEW w, \A x \in S : w[x] = 1
  PROVE  SumFunctionOnSet(w, S) = Cardinality(S)
<1> DEFINE P == {s \in SUBSET S : SumFunctionOnSet(w, s) = Cardinality(s)}
<1>1. {} \in P
  BY SumOfNone, FS_EmptySet
<1>2. \A s \in SUBSET S : \A x \in S \ s : s \in P => s \cup {x} \in P
  <2> SUFFICES ASSUME NEW s \in SUBSET S, NEW x \in S \ s, s \in P PROVE s \cup {x} \in P
    OBVIOUS
  <2>1. IsFiniteSet(s) /\ x \notin s
    BY FS_Subset
  <2>2. SumFunctionOnSet(w, s \cup {x}) = SumFunctionOnSet(w, s) + w[x]
    BY <2>1, SumAdds
  <2>3. Cardinality(s \cup {x}) = Cardinality(s) + 1
    BY <2>1, FS_AddElement
  <2>4. SumFunctionOnSet(w, s \cup {x}) = Cardinality(s \cup {x})
    BY <2>2, <2>3
  <2> QED
    BY <2>4
<1> HIDE DEF P
<1>3. S \in P
  BY <1>1, <1>2, FinSetInduction
<1> QED
  BY <1>3 DEF P

\* What is small of each is small of the sum.
LEMMA SumIsSmall ==
  ASSUME NEW S, IsFiniteSet(S), NEW w, \A x \in S : w[x] \in {-1, 0, 1}
  PROVE  /\ SumFunctionOnSet(w, S) \in Int /\ Cardinality(S) \in Nat
         /\ SumFunctionOnSet(w, S) <= Cardinality(S)
         /\ -Cardinality(S) <= SumFunctionOnSet(w, S)
<1> DEFINE Small(s) == /\ SumFunctionOnSet(w, s) \in Int /\ Cardinality(s) \in Nat
                       /\ SumFunctionOnSet(w, s) <= Cardinality(s)
                       /\ -Cardinality(s) <= SumFunctionOnSet(w, s)
           P == {s \in SUBSET S : Small(s)}
<1>1. {} \in P
  BY SumOfNone, FS_EmptySet
<1>2. \A s \in SUBSET S : \A x \in S \ s : s \in P => s \cup {x} \in P
  <2> HIDE DEF Small
  <2> SUFFICES ASSUME NEW s \in SUBSET S, NEW x \in S \ s, s \in P PROVE Small(s \cup {x})
    OBVIOUS
  <2>1. IsFiniteSet(s) /\ x \notin s /\ w[x] \in {-1, 0, 1} /\ Small(s)
    BY FS_Subset
  <2>2. SumFunctionOnSet(w, s \cup {x}) = SumFunctionOnSet(w, s) + w[x]
    BY <2>1, SumAdds
  <2>3. Cardinality(s \cup {x}) = Cardinality(s) + 1
    BY <2>1, FS_AddElement
  <2> QED
    BY <2>1, <2>2, <2>3 DEF Small
<1> HIDE DEF P, Small
<1>3. S \in P
  BY <1>1, <1>2, FinSetInduction
<1> QED
  BY <1>3 DEF P, Small
=============================================================================
