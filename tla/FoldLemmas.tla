------------------------------ MODULE FoldLemmas ------------------------------
(***************************************************************************)
(* What the replays of the runtime rest on: a state folded over the entries *)
(* of a history, one entry at a time, exists, stays in its type, and is     *)
(* determined by its first state and its step.  The induction is over the   *)
(* least natural number at which a statement would fail.                    *)
(***************************************************************************)
EXTENDS Integers, Sequences, FiniteSetTheorems, WellFoundedInduction, TLAPS

\* The states of S a replay of n entries goes through, by the step G from s0.
Folds(S, s0, G, n) ==
    {f \in [0 .. n -> S] : f[0] = s0 /\ \A i \in 1 .. n : f[i] = G[<<f[i - 1], i>>]}

\* A set of natural numbers that is not empty has a least element: the least
\* counterexample of every induction on a history's length below.
LEMMA LeastNatural ==
    ASSUME NEW T, T \subseteq Nat, T # {}
    PROVE  \E x \in T : \A y \in T : x <= y
<1>1. \E x \in T : \A y \in T : ~(<<y, x>> \in OpToRel(<, Nat))
    BY NatLessThanWellFounded, WFMin, Zenon
<1>2. \A x, y \in Nat : <<y, x>> \notin OpToRel(<, Nat) => x <= y
    BY SMT DEF OpToRel
<1> QED BY <1>1, <1>2

\* Induction over a set of lengths that starts at 0 and is closed under one
\* more entry, up to the length N of a history.
LEMMA UpTo ==
    ASSUME NEW N \in Nat, NEW Good, 0 \in Good,
           \A n \in 1 .. N : n - 1 \in Good => n \in Good
    PROVE  0 .. N \subseteq Good
<1> DEFINE Bad == (0 .. N) \ Good
<1>1. ASSUME Bad # {} PROVE FALSE
  <2>1. Bad \subseteq Nat OBVIOUS
  <2>2. PICK n \in Bad : \A m \in Bad : n <= m
    <3> HIDE DEF Bad
    <3> QED BY <1>1, <2>1, LeastNatural, Zenon
  <2>3. n # 0 /\ n \in 1 .. N BY <2>2
  <2>4. n - 1 \notin Bad BY <2>2, <2>3
  <2>5. n - 1 \in Good BY <2>3, <2>4
  <2> QED BY <2>2, <2>3, <2>5
<1> QED BY <1>1

\* One more entry can always be replayed.
LEMMA FoldExtends ==
    ASSUME NEW S, NEW s0 \in S, NEW N \in Nat, NEW G \in [S \X (1 .. N) -> S],
           NEW n \in 1 .. N, NEW f \in Folds(S, s0, G, n - 1)
    PROVE  Folds(S, s0, G, n) # {}
<1>1. f \in [0 .. (n - 1) -> S] /\ f[0] = s0
    BY DEF Folds
<1>2. \A i \in 1 .. (n - 1) : f[i] = G[<<f[i - 1], i>>]
    BY DEF Folds
<1>3. f[n - 1] \in S
  <2>1. n - 1 \in 0 .. (n - 1) OBVIOUS
  <2> QED BY <1>1, <2>1
<1>4. PICK s \in S : s = G[<<f[n - 1], n>>]
  <2>1. <<f[n - 1], n>> \in S \X (1 .. N) BY <1>3
  <2> QED BY <2>1
<1> DEFINE g == [i \in 0 .. n |-> IF i = n THEN s ELSE f[i]]
<1>5. g \in [0 .. n -> S] /\ g[0] = s0
    BY <1>1
<1>6. ASSUME NEW i \in 1 .. n PROVE g[i] = G[<<g[i - 1], i>>]
  <2>1. CASE i = n
    <3>1. g[i] = s /\ g[i - 1] = f[n - 1] BY <2>1
    <3> QED BY <3>1, <1>4, <2>1
  <2>2. CASE i # n
    <3>1. i \in 1 .. (n - 1) BY <2>2
    <3>2. g[i] = f[i] /\ g[i - 1] = f[i - 1] BY <3>1
    <3> QED BY <3>1, <3>2, <1>2
  <2> QED BY <2>1, <2>2
<1> HIDE DEF g
<1>7. g \in Folds(S, s0, G, n)
    BY <1>5, <1>6 DEF Folds
<1> QED BY <1>7

\* Replaying a history of N entries from s0 gives a state after every prefix,
\* each of them of the state's type S.
LEMMA FoldExists ==
    ASSUME NEW S, NEW s0 \in S, NEW N \in Nat, NEW G \in [S \X (1 .. N) -> S]
    PROVE  Folds(S, s0, G, N) # {}
<1> DEFINE Good == {n \in 0 .. N : Folds(S, s0, G, n) # {}}
<1>1. 0 \in Good
  <2> DEFINE f == [i \in 0 .. 0 |-> s0]
  <2>1. f \in [0 .. 0 -> S] /\ f[0] = s0 OBVIOUS
  <2>2. 1 .. 0 = {} OBVIOUS
  <2> HIDE DEF f
  <2>3. f \in Folds(S, s0, G, 0) BY <2>1, <2>2 DEF Folds
  <2> QED BY <2>3
<1>2. ASSUME NEW n \in 1 .. N, n - 1 \in Good PROVE n \in Good
  <2>1. PICK f : f \in Folds(S, s0, G, n - 1) BY <1>2
  <2>2. Folds(S, s0, G, n) # {} BY <2>1, FoldExtends
  <2> QED BY <2>2
<1>3. N \in Good
  <2> HIDE DEF Good
  <2>1. 0 .. N \subseteq Good BY <1>1, <1>2, UpTo
  <2> QED BY <2>1
<1> QED BY <1>3

\* Two replays with the same first state and the same step agree after every
\* entry.
LEMMA FoldUnique ==
    ASSUME NEW N \in Nat, NEW f, NEW g, f[0] = g[0],
           \A i \in 1 .. N : f[i - 1] = g[i - 1] => f[i] = g[i]
    PROVE  \A i \in 0 .. N : f[i] = g[i]
<1> DEFINE Good == {i \in 0 .. N : f[i] = g[i]}
<1>1. 0 \in Good OBVIOUS
<1>2. \A n \in 1 .. N : n - 1 \in Good => n \in Good OBVIOUS
<1> HIDE DEF Good
<1>3. 0 .. N \subseteq Good BY <1>1, <1>2, UpTo
<1> QED BY <1>3 DEF Good

\* Counting the positions of a history that have a property, one at a time.
LEMMA CountOne ==
    ASSUME NEW n \in Nat, NEW S \in SUBSET (1 .. n)
    PROVE  /\ IsFiniteSet(S) /\ Cardinality(S) \in Nat
           /\ Cardinality(S \cup {n + 1}) = Cardinality(S) + 1
<1>1. IsFiniteSet(1 .. n)
  <2>1. n \in Int /\ 1 \in Int OBVIOUS
  <2> QED BY <2>1, FS_Interval
<1>2. IsFiniteSet(S) BY <1>1, FS_Subset
<1>3. n + 1 \notin S OBVIOUS
<1> QED BY <1>2, <1>3, FS_AddElement, FS_CardinalityType

\* Appending an entry to a history leaves the entries that were there.
LEMMA PrefixKept ==
    ASSUME NEW S, NEW s \in Seq(S), NEW x \in S
    PROVE  SubSeq(Append(s, x), 1, Len(s)) = s
<1> DEFINE a == Append(s, x)
           b == SubSeq(a, 1, Len(s))
<1>1. a \in Seq(S) /\ Len(a) = Len(s) + 1 /\ Len(s) \in Nat OBVIOUS
<1>2. \A i \in 1 .. Len(s) : a[i] = s[i] OBVIOUS
<1> HIDE DEF a
<1>3. b = [i \in 1 .. Len(s) |-> a[i]] BY <1>1
<1>4. s = [i \in 1 .. Len(s) |-> s[i]] OBVIOUS
<1>5. b = s BY <1>2, <1>3, <1>4
<1> QED BY <1>5 DEF a

-----------------------------------------------------------------------------
(* Sums: folds with + over a finite set, whose order CHOOSE decides.        *)

\* The element a fold takes first.
Taken(s) == CHOOSE x \in s : TRUE

\* f has an amount for each element of D, f may have more.
NaturalOn(f, D) == \A x \in D : f[x] \in Nat

\* h adds up the amounts f over the subsets of S as a fold does.
Summing(h, f, S) ==
    h = [s \in SUBSET S |-> IF s = {} THEN 0 ELSE f[Taken(s)] + h[s \ {Taken(s)}]]

\* g adds them up in whatever order.
Adds(g, f, D) ==
    /\ g \in [SUBSET D -> Nat]
    /\ g[{}] = 0
    /\ \A s \in SUBSET D : \A x \in s : g[s] = f[x] + g[s \ {x}]

\* What the amounts come to.
TotalOf(f, S) == (CHOOSE g : Adds(g, f, S))[S]

\* A subset of a finite set is finite, and has one element fewer without one of its own.
LEMMA FewerElements ==
    ASSUME NEW D, IsFiniteSet(D), NEW s \in SUBSET D
    PROVE  /\ IsFiniteSet(s) /\ Cardinality(s) \in 0 .. Cardinality(D)
           /\ Cardinality(D) \in Nat
           /\ (Cardinality(s) = 0) <=> (s = {})
           /\ \A x \in s : Cardinality(s \ {x}) = Cardinality(s) - 1
<1>1. IsFiniteSet(s) /\ Cardinality(s) <= Cardinality(D) BY FS_Subset
<1>2. Cardinality(s) \in Nat /\ Cardinality(D) \in Nat BY <1>1, FS_CardinalityType
<1>3. \A x \in s : Cardinality(s \ {x}) = Cardinality(s) - 1 BY <1>1, FS_RemoveElement
<1>4. (Cardinality(s) = 0) <=> (s = {}) BY <1>1, FS_EmptySet
<1>5. Cardinality(s) \in 0 .. Cardinality(D)
  <2> DEFINE c == Cardinality(s)
             d == Cardinality(D)
  <2>1. c \in Nat /\ d \in Nat /\ c <= d BY <1>1, <1>2
  <2> HIDE DEF c, d
  <2>2. c \in 0 .. d BY <2>1
  <2> QED BY <2>2 DEF c, d
<1> QED BY <1>1, <1>2, <1>3, <1>4, <1>5

\* There are sums over one more element.
LEMMA AddsExtend ==
    ASSUME NEW D, NEW n \in D, NEW f, NaturalOn(f, D), NEW g, Adds(g, f, D \ {n})
    PROVE  \E h : Adds(h, f, D)
<1> DEFINE P == SUBSET D
           h == [s \in P |-> g[s \ {n}] + (IF n \in s THEN f[n] ELSE 0)]
<1>1. g \in [SUBSET (D \ {n}) -> Nat] /\ g[{}] = 0
      /\ \A s \in SUBSET (D \ {n}) : \A x \in s : g[s] = f[x] + g[s \ {x}]
    BY DEF Adds
<1>2. \A s \in P : s \ {n} \in SUBSET (D \ {n}) OBVIOUS
<1>3. \A s \in P : g[s \ {n}] \in Nat BY <1>1, <1>2
<1>0. \A x \in D : f[x] \in Nat BY DEF NaturalOn
<1>4. h \in [P -> Nat]
  <2>1. f[n] \in Nat BY <1>0
  <2>2. \A s \in P : g[s \ {n}] + (IF n \in s THEN f[n] ELSE 0) \in Nat BY <1>3, <2>1
  <2> QED BY <2>2
<1>5. h[{}] = 0
  <2>1. {} \in P /\ {} \ {n} = {} OBVIOUS
  <2> QED BY <1>1, <2>1
<1>6. ASSUME NEW s \in P, NEW x \in s PROVE h[s] = f[x] + h[s \ {x}]
  <2>1. s \ {x} \in P OBVIOUS
  <2>2. CASE x = n
    <3>1. (s \ {x}) \ {n} = s \ {n} /\ n \notin s \ {x} BY <2>2
    <3>2. h[s] = g[s \ {n}] + f[n] BY <1>6, <2>2
    <3>3. h[s \ {x}] = g[s \ {n}] + 0 BY <2>1, <3>1
    <3>4. g[s \ {n}] \in Nat /\ f[n] \in Nat BY <1>0, <1>3
    <3> HIDE DEF h
    <3> QED BY <2>2, <3>2, <3>3, <3>4
  <2>3. CASE x # n
    <3>1. x \in s \ {n} /\ s \ {n} \in SUBSET (D \ {n}) BY <2>3, <1>2
    <3>2. (s \ {x}) \ {n} = (s \ {n}) \ {x} /\ (n \in s <=> n \in s \ {x}) BY <2>3
    <3>3. g[s \ {n}] = f[x] + g[(s \ {n}) \ {x}] BY <1>1, <3>1
    <3>4. h[s] = g[s \ {n}] + (IF n \in s THEN f[n] ELSE 0) OBVIOUS
    <3>5. h[s \ {x}] = g[(s \ {n}) \ {x}] + (IF n \in s THEN f[n] ELSE 0)
        BY <2>1, <3>2
    <3>6. g[(s \ {n}) \ {x}] \in Nat /\ g[s \ {n}] \in Nat BY <1>3, <2>1, <3>2
    <3>7. f[x] \in Nat /\ (IF n \in s THEN f[n] ELSE 0) \in Nat BY <1>0
    <3> HIDE DEF h
    <3> QED BY <3>3, <3>4, <3>5, <3>6, <3>7
  <2> QED BY <2>2, <2>3
<1> HIDE DEF h
<1>7. Adds(h, f, D) BY <1>4, <1>5, <1>6 DEF Adds
<1> QED BY <1>7

\* There are sums of the amounts of every finite set.
LEMMA AddsExist ==
    ASSUME NEW D, IsFiniteSet(D), NEW f, NaturalOn(f, D)
    PROVE  \E g : Adds(g, f, D)
<1> DEFINE N == Cardinality(D)
           Good == {n \in 0 .. N : \A s \in SUBSET D : Cardinality(s) = n => \E g : Adds(g, f, s)}
<1>1. N \in Nat BY FS_CardinalityType
<1>2. 0 \in Good
  <2>1. ASSUME NEW s \in SUBSET D, Cardinality(s) = 0 PROVE \E g : Adds(g, f, s)
    <3>1. s = {} BY <2>1, FewerElements
    <3> DEFINE g == [t \in SUBSET {} |-> 0]
    <3>2. g \in [SUBSET {} -> Nat] /\ g[{}] = 0 OBVIOUS
    <3>3. \A t \in SUBSET {} : \A x \in t : FALSE OBVIOUS
    <3> HIDE DEF g
    <3>4. Adds(g, f, {}) BY <3>2, <3>3 DEF Adds
    <3> QED BY <3>1, <3>4
  <2>2. 0 \in 0 .. N BY <1>1
  <2> QED BY <2>1, <2>2, Zenon
<1>3. ASSUME NEW n \in 1 .. N, n - 1 \in Good PROVE n \in Good
  <2>1. ASSUME NEW s \in SUBSET D, Cardinality(s) = n PROVE \E g : Adds(g, f, s)
    <3>1. s # {} /\ \A x \in s : Cardinality(s \ {x}) = n - 1
      <4>1. n # 0 BY <1>1
      <4> QED BY <2>1, <4>1, FewerElements
    <3>2. PICK x \in s : TRUE BY <3>1
    <3>3. s \ {x} \in SUBSET D OBVIOUS
    <3>4. PICK g : Adds(g, f, s \ {x}) BY <1>3, <3>1, <3>2, <3>3
    <3>5. NaturalOn(f, s) BY DEF NaturalOn
    <3> QED BY <3>2, <3>4, <3>5, AddsExtend
  <2>2. n \in 0 .. N BY <1>1
  <2> QED BY <2>1, <2>2, Zenon
<1> HIDE DEF Good, N
<1>4. 0 .. N \subseteq Good BY <1>1, <1>2, <1>3, UpTo
<1>5. N \in Good BY <1>1, <1>4
<1> QED BY <1>5 DEF Good, N

\* There is only one sum, whatever the order: what adds the amounts of a set adds
\* those of its subsets.
LEMMA SumIsAdded ==
    ASSUME NEW D, IsFiniteSet(D), NEW f, NaturalOn(f, D), NEW g, Adds(g, f, D),
           NEW S \in SUBSET D
    PROVE  TotalOf(f, S) = g[S]
<1> DEFINE N == Cardinality(S)
           k == CHOOSE h : Adds(h, f, S)
           Good == {n \in 0 .. N : \A s \in SUBSET S : Cardinality(s) = n => k[s] = g[s]}
<1>1. IsFiniteSet(S) /\ NaturalOn(f, S) BY FS_Subset DEF NaturalOn
<1>2. Adds(k, f, S) BY <1>1, AddsExist
<1>3. N \in Nat BY <1>1, FS_CardinalityType
<1>4. /\ g[{}] = 0 /\ \A s \in SUBSET D : \A x \in s : g[s] = f[x] + g[s \ {x}]
      /\ k[{}] = 0 /\ \A s \in SUBSET S : \A x \in s : k[s] = f[x] + k[s \ {x}]
    BY <1>2 DEF Adds
<1> HIDE DEF k
<1>5. 0 \in Good
  <2>1. \A s \in SUBSET S : Cardinality(s) = 0 => s = {} BY <1>1, FewerElements
  <2>2. \A s \in SUBSET S : Cardinality(s) = 0 => k[s] = g[s] BY <1>4, <2>1
  <2>3. 0 \in 0 .. N BY <1>3
  <2> QED BY <2>2, <2>3, Zenon
<1>6. ASSUME NEW n \in 1 .. N, n - 1 \in Good PROVE n \in Good
  <2>1. ASSUME NEW s \in SUBSET S, Cardinality(s) = n PROVE k[s] = g[s]
    <3>1. s # {} /\ \A x \in s : Cardinality(s \ {x}) = n - 1
      <4>1. n # 0 BY <1>3
      <4> QED BY <1>1, <2>1, <4>1, FewerElements
    <3>2. PICK x \in s : TRUE BY <3>1
    <3>3. s \ {x} \in SUBSET S /\ s \in SUBSET D OBVIOUS
    <3>4. k[s \ {x}] = g[s \ {x}] BY <1>6, <3>1, <3>2, <3>3
    <3> QED BY <1>4, <3>2, <3>3, <3>4
  <2>2. n \in 0 .. N BY <1>3
  <2> QED BY <2>1, <2>2, Zenon
<1> HIDE DEF Good, N
<1>7. 0 .. N \subseteq Good BY <1>3, <1>5, <1>6, UpTo
<1>8. N \in Good BY <1>3, <1>7
<1>9. k[S] = g[S] BY <1>8 DEF Good, N
<1> QED BY <1>9 DEF TotalOf, k

\* A sum is a natural number, nothing is the sum over nothing, and what one element
\* adds to it is its amount.
LEMMA SumAdds ==
    ASSUME NEW D, IsFiniteSet(D), NEW f, NaturalOn(f, D)
    PROVE  /\ TotalOf(f, {}) = 0
           /\ \A S \in SUBSET D : TotalOf(f, S) \in Nat
           /\ \A S \in SUBSET D : \A x \in S : TotalOf(f, S) = f[x] + TotalOf(f, S \ {x})
<1>1. PICK g : Adds(g, f, D) BY AddsExist
<1>2. \A S \in SUBSET D : TotalOf(f, S) = g[S] BY <1>1, SumIsAdded
<1>3. /\ \A S \in SUBSET D : g[S] \in Nat
      /\ g[{}] = 0
      /\ \A S \in SUBSET D : \A x \in S : g[S] = f[x] + g[S \ {x}]
    BY <1>1 DEF Adds
<1>4. {} \in SUBSET D OBVIOUS
<1>5. ASSUME NEW S \in SUBSET D, NEW x \in S PROVE TotalOf(f, S) = f[x] + TotalOf(f, S \ {x})
  <2>1. S \ {x} \in SUBSET D OBVIOUS
  <2> QED BY <1>2, <1>3, <2>1
<1> QED BY <1>2, <1>3, <1>4, <1>5

\* Only the amounts of the elements count.
LEMMA SumSame ==
    ASSUME NEW S, IsFiniteSet(S), NEW f, NaturalOn(f, S), NEW h, \A x \in S : h[x] = f[x]
    PROVE  TotalOf(h, S) = TotalOf(f, S)
<1>1. PICK g : Adds(g, f, S) BY AddsExist
<1>2. Adds(g, h, S)
  <2>1. \A s \in SUBSET S : \A x \in s : f[x] = h[x] OBVIOUS
  <2> QED BY <1>1, <2>1 DEF Adds
<1>3. NaturalOn(h, S) BY DEF NaturalOn
<1>4. S \in SUBSET S OBVIOUS
<1> QED BY <1>1, <1>2, <1>3, <1>4, SumIsAdded

\* One more element.
LEMMA SumOneMore ==
    ASSUME NEW S, IsFiniteSet(S), NEW x, x \notin S, NEW f, NaturalOn(f, S \cup {x})
    PROVE  TotalOf(f, S \cup {x}) = f[x] + TotalOf(f, S)
<1> DEFINE T == S \cup {x}
<1>1. IsFiniteSet(T) BY FS_AddElement
<1>2. T \in SUBSET T /\ x \in T /\ T \ {x} = S OBVIOUS
<1>3. TotalOf(f, T) = f[x] + TotalOf(f, T \ {x})
  <2> HIDE DEF T
  <2> QED BY <1>1, <1>2, SumAdds DEF T
<1> QED BY <1>2, <1>3

\* Fewer elements come to no more.
LEMMA SumMonotonic ==
    ASSUME NEW D, IsFiniteSet(D), NEW f, NaturalOn(f, D), NEW S \in SUBSET D
    PROVE  TotalOf(f, S) <= TotalOf(f, D)
<1> DEFINE N == Cardinality(D)
           Good == {n \in 0 .. N : \A s \in SUBSET D : Cardinality(s) = n =>
                                      \A t \in SUBSET s : TotalOf(f, t) <= TotalOf(f, s)}
<1>0. N \in Nat BY FS_CardinalityType
<1>1. /\ \A s \in SUBSET D : TotalOf(f, s) \in Nat
      /\ \A s \in SUBSET D : \A x \in s : TotalOf(f, s) = f[x] + TotalOf(f, s \ {x})
    BY SumAdds
<1>2. 0 \in Good
  <2>1. ASSUME NEW s \in SUBSET D, Cardinality(s) = 0, NEW t \in SUBSET s
        PROVE  TotalOf(f, t) <= TotalOf(f, s)
    <3>1. s = {} /\ t = s BY <2>1, FewerElements
    <3>2. TotalOf(f, s) \in Nat BY <1>1
    <3> QED BY <3>1, <3>2
  <2>2. 0 \in 0 .. N BY <1>0
  <2> QED BY <2>1, <2>2, Zenon
<1>3. ASSUME NEW n \in 1 .. N, n - 1 \in Good PROVE n \in Good
  <2>1. ASSUME NEW s \in SUBSET D, Cardinality(s) = n, NEW t \in SUBSET s
        PROVE  TotalOf(f, t) <= TotalOf(f, s)
    <3>1. TotalOf(f, s) \in Nat BY <1>1
    <3>2. CASE t = s BY <3>1, <3>2
    <3>3. CASE t # s
      <4>1. PICK x \in s : x \notin t BY <3>3
      <4>2. s \ {x} \in SUBSET D /\ t \in SUBSET (s \ {x}) /\ x \in D /\ t \in SUBSET D
          BY <4>1
      <4>3. Cardinality(s \ {x}) = n - 1 BY <2>1, FewerElements
      <4>4. TotalOf(f, t) <= TotalOf(f, s \ {x}) BY <1>3, <4>2, <4>3
      <4>5. TotalOf(f, s) = f[x] + TotalOf(f, s \ {x}) BY <1>1
      <4>6. TotalOf(f, s \ {x}) \in Nat /\ TotalOf(f, t) \in Nat /\ f[x] \in Nat
          BY <1>1, <4>2 DEF NaturalOn
      <4> QED BY <4>4, <4>5, <4>6
    <3> QED BY <3>2, <3>3
  <2>2. n \in 0 .. N BY <1>0
  <2> QED BY <2>1, <2>2, Zenon
<1> HIDE DEF Good, N
<1>4. 0 .. N \subseteq Good BY <1>0, <1>2, <1>3, UpTo
<1>5. N \in Good BY <1>0, <1>4
<1>6. D \in SUBSET D /\ Cardinality(D) = N BY DEF N
<1> QED BY <1>5, <1>6 DEF Good

\* Folds exist, and come to the sum: the recursion a fold is made of has a solution,
\* and every solution of it adds the amounts up.
LEMMA FoldIsSum ==
    ASSUME NEW S, IsFiniteSet(S), NEW f, NaturalOn(f, S)
    PROVE  /\ \E h : Summing(h, f, S)
           /\ \A h : Summing(h, f, S) => h[S] = TotalOf(f, S)
<1>1. PICK g : Adds(g, f, S) BY AddsExist
<1>2. /\ g[{}] = 0 /\ g \in [SUBSET S -> Nat]
      /\ \A s \in SUBSET S : \A x \in s : g[s] = f[x] + g[s \ {x}]
    BY <1>1 DEF Adds
<1>3. \A s \in SUBSET S : s # {} => Taken(s) \in s BY DEF Taken
<1>4. Summing(g, f, S)
  <2>1. \A s \in SUBSET S :
           g[s] = IF s = {} THEN 0 ELSE f[Taken(s)] + g[s \ {Taken(s)}]
      BY <1>2, <1>3
  <2>2. g = [s \in SUBSET S |-> g[s]] BY <1>2
  <2> QED BY <2>1, <2>2 DEF Summing
<1>5. ASSUME NEW h, Summing(h, f, S) PROVE h[S] = TotalOf(f, S)
  <2> DEFINE N == Cardinality(S)
             Good == {n \in 0 .. N : \A s \in SUBSET S : Cardinality(s) = n => h[s] = g[s]}
  <2>1. N \in Nat BY FS_CardinalityType
  <2>2. \A s \in SUBSET S : h[s] = IF s = {} THEN 0 ELSE f[Taken(s)] + h[s \ {Taken(s)}]
      BY <1>5 DEF Summing
  <2>3. 0 \in Good
    <3>1. \A s \in SUBSET S : Cardinality(s) = 0 => s = {} BY FewerElements
    <3>2. \A s \in SUBSET S : Cardinality(s) = 0 => h[s] = g[s] BY <1>2, <2>2, <3>1
    <3>3. 0 \in 0 .. N BY <2>1
    <3> QED BY <3>2, <3>3, Zenon
  <2>4. ASSUME NEW n \in 1 .. N, n - 1 \in Good PROVE n \in Good
    <3>1. ASSUME NEW s \in SUBSET S, Cardinality(s) = n PROVE h[s] = g[s]
      <4>1. s # {} /\ \A x \in s : Cardinality(s \ {x}) = n - 1
        <5>1. n # 0 BY <2>1
        <5> QED BY <3>1, <5>1, FewerElements
      <4>2. Taken(s) \in s /\ s \ {Taken(s)} \in SUBSET S BY <1>3, <4>1
      <4>3. h[s \ {Taken(s)}] = g[s \ {Taken(s)}] BY <2>4, <4>1, <4>2
      <4>4. g[s] = f[Taken(s)] + g[s \ {Taken(s)}] BY <1>2, <4>2
      <4> QED BY <2>2, <4>1, <4>3, <4>4
    <3>2. n \in 0 .. N BY <2>1
    <3> QED BY <3>1, <3>2, Zenon
  <2> HIDE DEF Good, N
  <2>5. 0 .. N \subseteq Good BY <2>1, <2>3, <2>4, UpTo
  <2>6. N \in Good BY <2>1, <2>5
  <2>7. h[S] = g[S] BY <2>6 DEF Good, N
  <2>8. S \in SUBSET S OBVIOUS
  <2> QED BY <1>1, <2>7, <2>8, SumIsAdded
<1> QED BY <1>4, <1>5

\* A fold with + of the amounts f over S.
SumOver(f, S) ==
    LET iter[s \in SUBSET S] == IF s = {} THEN 0 ELSE f[Taken(s)] + iter[s \ {Taken(s)}]
    IN  iter[S]

\* It is the total, in any order.
LEMMA SumOverIsTotal ==
    ASSUME NEW S, IsFiniteSet(S), NEW f, NaturalOn(f, S)
    PROVE  SumOver(f, S) = TotalOf(f, S)
<1> DEFINE iter == CHOOSE h : Summing(h, f, S)
<1>1. SumOver(f, S) = iter[S] BY DEF SumOver, Summing
<1>2. Summing(iter, f, S)
  <2>1. \E h : Summing(h, f, S) BY FoldIsSum
  <2> QED BY <2>1
<1> HIDE DEF iter
<1> QED BY <1>1, <1>2, FoldIsSum

\* Amounts of at most u come to at most u each.
LEMMA SumBounded ==
    ASSUME NEW D, IsFiniteSet(D), NEW f, NaturalOn(f, D), NEW u \in Nat, \A x \in D : f[x] <= u
    PROVE  TotalOf(f, D) <= Cardinality(D) * u
<1> DEFINE N == Cardinality(D)
           Good == {n \in 0 .. N : \A s \in SUBSET D : Cardinality(s) = n => TotalOf(f, s) <= n * u}
<1>0. N \in Nat BY FS_CardinalityType
<1>1. /\ TotalOf(f, {}) = 0
      /\ \A s \in SUBSET D : TotalOf(f, s) \in Nat
      /\ \A s \in SUBSET D : \A x \in s : TotalOf(f, s) = f[x] + TotalOf(f, s \ {x})
    BY SumAdds
<1>2. 0 \in Good
  <2>1. \A s \in SUBSET D : Cardinality(s) = 0 => s = {} BY FewerElements
  <2>2. \A s \in SUBSET D : Cardinality(s) = 0 => TotalOf(f, s) <= 0 * u BY <1>1, <2>1
  <2>3. 0 \in 0 .. N BY <1>0
  <2> QED BY <2>2, <2>3, Zenon
<1>3. ASSUME NEW n \in 1 .. N, n - 1 \in Good PROVE n \in Good
  <2>1. ASSUME NEW s \in SUBSET D, Cardinality(s) = n PROVE TotalOf(f, s) <= n * u
    <3>1. s # {} /\ \A x \in s : Cardinality(s \ {x}) = n - 1
      <4>1. n # 0 BY <1>0
      <4> QED BY <2>1, <4>1, FewerElements
    <3>2. PICK x \in s : TRUE BY <3>1
    <3>3. s \ {x} \in SUBSET D /\ x \in D OBVIOUS
    <3>4. TotalOf(f, s \ {x}) <= (n - 1) * u BY <1>3, <3>1, <3>2, <3>3
    <3>5. TotalOf(f, s) = f[x] + TotalOf(f, s \ {x}) BY <1>1, <3>2
    <3>6. TotalOf(f, s \ {x}) \in Nat /\ f[x] \in Nat /\ f[x] <= u BY <1>1, <3>3 DEF NaturalOn
    <3>7. (n - 1) * u + u = n * u /\ n * u \in Nat /\ (n - 1) * u \in Nat BY <1>0
    <3> QED BY <3>4, <3>5, <3>6, <3>7
  <2>2. n \in 0 .. N BY <1>0
  <2> QED BY <2>1, <2>2, Zenon
<1> HIDE DEF Good, N
<1>4. 0 .. N \subseteq Good BY <1>0, <1>2, <1>3, UpTo
<1>5. N \in Good BY <1>0, <1>4
<1>6. D \in SUBSET D /\ Cardinality(D) = N BY DEF N
<1> QED BY <1>5, <1>6 DEF Good
=============================================================================
