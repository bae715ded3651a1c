------------------------------- MODULE Sums -------------------------------
(***************************************************************************)
(* Facts about the sum of a function over a finite set, which the library  *)
(* defines by a recursive function, and about induction in the form the    *)
(* provers can use: a set that holds 0 and is closed under +1, or that     *)
(* holds {} and is closed under adding an element.                         *)
(***************************************************************************)
EXTENDS Integers, FiniteSets, Functions, FiniteSetTheorems,
        WellFoundedInduction, TLAPS

\* A set with 0 and the successor of each of its members has all naturals.
LEMMA NaturalsIn ==
  ASSUME NEW A, 0 \in A, \A n \in Nat : n \in A => n + 1 \in A
  PROVE  Nat \subseteq A
<1> DEFINE Bad == Nat \ A
<1> SUFFICES ASSUME Bad # {} PROVE FALSE
  OBVIOUS
<1>1. Bad \subseteq Nat
  OBVIOUS
<1> HIDE DEF Bad
<1>2. PICK m \in Bad : \A k \in Bad : <<k, m>> \notin OpToRel(<, Nat)
  BY <1>1, NatLessThanWellFounded, WFMin, Zenon
<1>3. \A k \in Bad : ~(k < m)
  <2> SUFFICES ASSUME NEW k \in Bad PROVE ~(k < m)
    OBVIOUS
  <2>1. k \in Nat /\ m \in Nat
    BY <1>1
  <2>2. <<k, m>> \notin OpToRel(<, Nat)
    BY <1>2
  <2> QED BY <2>1, <2>2, Zenon DEF OpToRel
<1>4. m \in Nat /\ m # 0
  BY DEF Bad
<1>5. m - 1 \in Nat /\ m - 1 \notin Bad
  BY <1>3, <1>4
<1>6. m - 1 \in A
  BY <1>5 DEF Bad
<1>7. (m - 1) + 1 = m
  BY <1>4
<1>8. m \in A
  BY <1>5, <1>6, <1>7
<1> QED BY <1>8 DEF Bad

\* A family that holds {} and stays closed when one element is added holds
\* every finite set.
LEMMA FinitesIn ==
  ASSUME NEW S, IsFiniteSet(S), NEW A, {} \in A,
         \A T \in SUBSET S : \A x \in S \ T : T \in A => T \cup {x} \in A
  PROVE  S \in A
<1> DEFINE B == {n \in Nat : \A T \in SUBSET S : Cardinality(T) = n => T \in A}
<1>1. 0 \in B
  <2> SUFFICES ASSUME NEW T \in SUBSET S, Cardinality(T) = 0 PROVE T \in A
    OBVIOUS
  <2>1. T = {}
    BY FS_Subset, FS_EmptySet
  <2> QED BY <2>1
<1>2. ASSUME NEW n \in Nat, n \in B PROVE n + 1 \in B
  <2> SUFFICES ASSUME NEW T \in SUBSET S, Cardinality(T) = n + 1 PROVE T \in A
    OBVIOUS
  <2>1. IsFiniteSet(T)
    BY FS_Subset
  <2>2. T # {}
    BY <2>1, FS_EmptySet
  <2>3. PICK x \in T : TRUE
    BY <2>2
  <2>4. Cardinality(T \ {x}) = n
    <3>1. Cardinality(T \ {x}) = Cardinality(T) - 1
      BY <2>1, FS_RemoveElement
    <3> QED BY <3>1
  <2>5. T \ {x} \in A
    BY <1>2, <2>4
  <2>6. T = (T \ {x}) \cup {x} /\ x \in S \ (T \ {x}) /\ T \ {x} \in SUBSET S
    OBVIOUS
  <2> QED BY <2>5, <2>6
<1> HIDE DEF B
<1>3. Nat \subseteq B
  BY <1>1, <1>2, NaturalsIn
<1>4. Cardinality(S) \in B
  BY <1>3, FS_CardinalityType
<1> QED BY <1>4 DEF B

-----------------------------------------------------------------------------
(* The recursion behind the sum has a solution, and only one.              *)

FirstOf(s) == CHOOSE x \in s : TRUE

\* The function adds up f on the sets of D.
Adds(it, f, D) ==
  it = [s \in D |-> IF s = {} THEN 0 ELSE f[FirstOf(s)] + it[s \ {FirstOf(s)}]]

LEMMA SumChooses ==
  ASSUME NEW f, NEW S
  PROVE  SumFunctionOnSet(f, S) = (CHOOSE it : Adds(it, f, SUBSET S))[S]
BY DEF SumFunctionOnSet, FoldFunctionOnSet, MapThenFoldSet, Adds, FirstOf

LEMMA FirstIn == ASSUME NEW s, s # {} PROVE FirstOf(s) \in s
BY DEF FirstOf

LEMMA AddsExists ==
  ASSUME NEW f, NEW S, IsFiniteSet(S)
  PROVE  \E it : Adds(it, f, SUBSET S)
<1> DEFINE Small(n) == {s \in SUBSET S : Cardinality(s) <= n}
           B == {n \in Nat : \E it : Adds(it, f, Small(n))}
<1>0. \A s \in SUBSET S : IsFiniteSet(s) /\ Cardinality(s) \in Nat
  BY FS_Subset, FS_CardinalityType
<1>1. 0 \in B
  <2>1. \A s \in Small(0) : s = {}
    <3> TAKE s \in Small(0)
    <3>1. Cardinality(s) = 0
      BY <1>0
    <3> QED BY <3>1, <1>0, FS_EmptySet
  <2>2. Adds([s \in Small(0) |-> 0], f, Small(0))
    BY <2>1 DEF Adds
  <2> QED BY <2>2
<1>2. ASSUME NEW n \in Nat, n \in B PROVE n + 1 \in B
  <2>1. PICK it : Adds(it, f, Small(n))
    BY <1>2
  <2> DEFINE next == [s \in Small(n + 1) |->
                IF s = {} THEN 0 ELSE f[FirstOf(s)] + it[s \ {FirstOf(s)}]]
  <2>2. ASSUME NEW s \in Small(n + 1), s # {}
        PROVE  s \ {FirstOf(s)} \in Small(n) /\ s \ {FirstOf(s)} \in Small(n + 1)
    <3>1. FirstOf(s) \in s /\ s \in SUBSET S
      BY <2>2, FirstIn
    <3>2. Cardinality(s \ {FirstOf(s)}) = Cardinality(s) - 1
      BY <3>1, <1>0, FS_RemoveElement
    <3>3. Cardinality(s) \in Nat /\ Cardinality(s) <= n + 1
      BY <1>0
    <3>4. s \ {FirstOf(s)} \in SUBSET S
      BY <3>1
    <3> QED BY <3>2, <3>3, <3>4
  <2>3. \A s \in Small(n) : next[s] = it[s]
    <3> SUFFICES ASSUME NEW s \in Small(n) PROVE next[s] = it[s]
      OBVIOUS
    <3>1. s \in Small(n + 1)
      BY <1>0
    <3> HIDE DEF Small
    <3>2. it[s] = IF s = {} THEN 0 ELSE f[FirstOf(s)] + it[s \ {FirstOf(s)}]
      BY <2>1 DEF Adds
    <3> QED BY <3>1, <3>2
  <2> HIDE DEF Small
  <2>4. \A s \in Small(n + 1) : s # {} =>
           next[s \ {FirstOf(s)}] = it[s \ {FirstOf(s)}]
    BY <2>2, <2>3
  <2>5. next = [s \in Small(n + 1) |->
           IF s = {} THEN 0 ELSE f[FirstOf(s)] + next[s \ {FirstOf(s)}]]
    <3> DEFINE again == [s \in Small(n + 1) |->
           IF s = {} THEN 0 ELSE f[FirstOf(s)] + next[s \ {FirstOf(s)}]]
    <3>1. \A s \in Small(n + 1) : next[s] = again[s]
      BY <2>4
    <3>2. /\ next = [s \in Small(n + 1) |-> next[s]]
          /\ again = [s \in Small(n + 1) |-> again[s]]
      OBVIOUS
    <3> HIDE DEF next, again
    <3>3. next = again
      BY <3>1, <3>2
    <3> QED BY <3>3 DEF again
  <2> HIDE DEF next
  <2>6. Adds(next, f, Small(n + 1))
    BY <2>5 DEF Adds
  <2> QED BY <2>6
<1>3. Nat \subseteq B
  <2> HIDE DEF B
  <2> QED BY <1>1, <1>2, NaturalsIn
<1>4. PICK it : Adds(it, f, Small(Cardinality(S)))
  BY <1>3, FS_CardinalityType
<1>5. Small(Cardinality(S)) = SUBSET S
  BY <1>0, FS_Subset
<1> QED BY <1>4, <1>5

\* On finite sets two solutions agree.
LEMMA AddsUnique ==
  ASSUME NEW f, NEW S, NEW T, NEW s, NEW it, NEW ot,
         IsFiniteSet(s), s \subseteq S, s \subseteq T,
         Adds(it, f, SUBSET S), Adds(ot, f, SUBSET T)
  PROVE  it[s] = ot[s]
<1> DEFINE B == {n \in Nat : \A u \in SUBSET s : Cardinality(u) = n => it[u] = ot[u]}
<1>1. /\ \A u \in SUBSET S : it[u] = IF u = {} THEN 0 ELSE f[FirstOf(u)] + it[u \ {FirstOf(u)}]
      /\ \A u \in SUBSET T : ot[u] = IF u = {} THEN 0 ELSE f[FirstOf(u)] + ot[u \ {FirstOf(u)}]
  BY DEF Adds
<1>2. 0 \in B
  <2> SUFFICES ASSUME NEW u \in SUBSET s, Cardinality(u) = 0 PROVE it[u] = ot[u]
    OBVIOUS
  <2>1. u = {}
    BY FS_Subset, FS_EmptySet
  <2> QED BY <2>1, <1>1
<1>3. ASSUME NEW n \in Nat, n \in B PROVE n + 1 \in B
  <2> SUFFICES ASSUME NEW u \in SUBSET s, Cardinality(u) = n + 1 PROVE it[u] = ot[u]
    OBVIOUS
  <2>1. IsFiniteSet(u)
    BY FS_Subset
  <2>2. u # {}
    BY <2>1, FS_EmptySet
  <2>3. FirstOf(u) \in u
    BY <2>2, FirstIn
  <2>4. Cardinality(u \ {FirstOf(u)}) = n
    <3>1. Cardinality(u \ {FirstOf(u)}) = Cardinality(u) - 1
      BY <2>1, <2>3, FS_RemoveElement
    <3> QED BY <3>1
  <2>5. it[u \ {FirstOf(u)}] = ot[u \ {FirstOf(u)}]
    BY <1>3, <2>4
  <2>6. u \in SUBSET S /\ u \in SUBSET T
    OBVIOUS
  <2> QED BY <1>1, <2>2, <2>5, <2>6
<1> HIDE DEF B
<1>4. Nat \subseteq B
  BY <1>2, <1>3, NaturalsIn
<1>5. Cardinality(s) \in B
  BY <1>4, FS_CardinalityType
<1> QED BY <1>5 DEF B

\* The sum of a set is found by adding up any set around it.
LEMMA SumIs ==
  ASSUME NEW f, NEW S, IsFiniteSet(S), NEW s \in SUBSET S,
         NEW it, Adds(it, f, SUBSET S)
  PROVE  SumFunctionOnSet(f, s) = it[s]
<1>1. IsFiniteSet(s)
  BY FS_Subset
<1>2. PICK ot : Adds(ot, f, SUBSET s)
  BY <1>1, AddsExists
<1> DEFINE ch == CHOOSE jt : Adds(jt, f, SUBSET s)
<1>3. Adds(ch, f, SUBSET s)
  BY <1>2
<1>4. SumFunctionOnSet(f, s) = ch[s]
  BY SumChooses
<1> HIDE DEF ch
<1>5. s \subseteq s
  OBVIOUS
<1>6. \A jt : Adds(jt, f, SUBSET s) => jt[s] = it[s]
  <2> SUFFICES ASSUME NEW jt, Adds(jt, f, SUBSET s) PROVE jt[s] = it[s]
    OBVIOUS
  <2>1. s \subseteq S
    OBVIOUS
  <2> QED BY <1>1, <1>5, <2>1, AddsUnique
<1> QED BY <1>3, <1>4, <1>6

-----------------------------------------------------------------------------
(* What a sum is.                                                          *)

LEMMA SumNothing == ASSUME NEW f PROVE SumFunctionOnSet(f, {}) = 0
<1>1. IsFiniteSet({})
  BY FS_EmptySet
<1>2. PICK it : Adds(it, f, SUBSET {})
  BY <1>1, AddsExists
<1>3. SumFunctionOnSet(f, {}) = it[{}]
  <2>1. {} \in SUBSET {}
    OBVIOUS
  <2> QED BY <1>1, <1>2, <2>1, SumIs
<1>4. it[{}] = 0
  BY <1>2 DEF Adds
<1> QED BY <1>3, <1>4

LEMMA SumFirst ==
  ASSUME NEW f, NEW S, IsFiniteSet(S), S # {}
  PROVE  SumFunctionOnSet(f, S) =
            f[FirstOf(S)] + SumFunctionOnSet(f, S \ {FirstOf(S)})
<1>1. PICK it : Adds(it, f, SUBSET S)
  BY AddsExists
<1>2. SumFunctionOnSet(f, S) = it[S]
  BY <1>1, SumIs
<1>3. SumFunctionOnSet(f, S \ {FirstOf(S)}) = it[S \ {FirstOf(S)}]
  BY <1>1, SumIs
<1>4. it[S] = f[FirstOf(S)] + it[S \ {FirstOf(S)}]
  BY <1>1 DEF Adds
<1> QED BY <1>2, <1>3, <1>4


LEMMA SumInteger ==
  ASSUME NEW f, NEW S, IsFiniteSet(S), \A x \in S : f[x] \in Int
  PROVE  SumFunctionOnSet(f, S) \in Int
<1> DEFINE B == {n \in Nat : \A T \in SUBSET S :
                    Cardinality(T) = n => SumFunctionOnSet(f, T) \in Int}
<1>0. \A T \in SUBSET S : IsFiniteSet(T) /\ Cardinality(T) \in Nat
  BY FS_Subset, FS_CardinalityType
<1>1. 0 \in B
  <2> SUFFICES ASSUME NEW T \in SUBSET S, Cardinality(T) = 0
               PROVE  SumFunctionOnSet(f, T) \in Int
    OBVIOUS
  <2>1. T = {}
    BY <1>0, FS_EmptySet
  <2> QED BY <2>1, SumNothing
<1>2. ASSUME NEW n \in Nat, n \in B PROVE n + 1 \in B
  <2> SUFFICES ASSUME NEW T \in SUBSET S, Cardinality(T) = n + 1
               PROVE  SumFunctionOnSet(f, T) \in Int
    OBVIOUS
  <2>1. T # {}
    BY <1>0, FS_EmptySet
  <2>2. FirstOf(T) \in T
    BY <2>1, FirstIn
  <2>3. Cardinality(T \ {FirstOf(T)}) = Cardinality(T) - 1
    BY <1>0, <2>2, FS_RemoveElement
  <2>4. Cardinality(T \ {FirstOf(T)}) = n
    BY <2>3
  <2>5. SumFunctionOnSet(f, T \ {FirstOf(T)}) \in Int
    BY <1>2, <2>4
  <2> QED BY <1>0, <2>1, <2>2, <2>5, SumFirst
<1> HIDE DEF B
<1>3. Nat \subseteq B
  BY <1>1, <1>2, NaturalsIn
<1>4. Cardinality(S) \in B
  BY <1>3, <1>0
<1> QED BY <1>4 DEF B

\* The elements may be added up in any order: any one of them last.
LEMMA SumRemove ==
  ASSUME NEW f, NEW S, IsFiniteSet(S), \A x \in S : f[x] \in Int
  PROVE  \A x \in S : SumFunctionOnSet(f, S) = f[x] + SumFunctionOnSet(f, S \ {x})
<1> DEFINE Sum(T) == SumFunctionOnSet(f, T)
           Good(T) == \A x \in T : Sum(T) = f[x] + Sum(T \ {x})
           B == {n \in Nat : \A T \in SUBSET S : Cardinality(T) = n => Good(T)}
<1>0. \A T \in SUBSET S : IsFiniteSet(T) /\ Cardinality(T) \in Nat
  BY FS_Subset, FS_CardinalityType
<1>i. \A T \in SUBSET S : Sum(T) \in Int
  BY <1>0, SumInteger
<1>f. \A T \in SUBSET S : T # {} =>
         FirstOf(T) \in T /\ Sum(T) = f[FirstOf(T)] + Sum(T \ {FirstOf(T)})
  BY <1>0, SumFirst, FirstIn
<1> HIDE DEF Sum
<1>1. 0 \in B
  <2> SUFFICES ASSUME NEW T \in SUBSET S, Cardinality(T) = 0 PROVE Good(T)
    OBVIOUS
  <2>1. T = {}
    BY <1>0, FS_EmptySet
  <2> QED BY <2>1
<1>2. ASSUME NEW n \in Nat, n \in B PROVE n + 1 \in B
  <2> SUFFICES ASSUME NEW T \in SUBSET S, Cardinality(T) = n + 1, NEW x \in T
               PROVE  Sum(T) = f[x] + Sum(T \ {x})
    OBVIOUS
  <2> DEFINE p == FirstOf(T)
  <2>1. p \in T /\ Sum(T) = f[p] + Sum(T \ {p})
    BY <1>f
  <2> HIDE DEF p
  <2>2. CASE x = p
    BY <2>1, <2>2
  <2>3. CASE x # p
    <3>1. ASSUME NEW y \in T PROVE Good(T \ {y})
      <4>1. Cardinality(T \ {y}) = Cardinality(T) - 1
        BY <1>0, FS_RemoveElement
      <4>2. Cardinality(T \ {y}) = n /\ T \ {y} \in SUBSET S
        BY <4>1
      <4> HIDE DEF Good
      <4> QED BY <1>2, <4>2
    <3>2. Sum(T \ {p}) = f[x] + Sum((T \ {p}) \ {x})
      BY <3>1, <2>1, <2>3
    <3>3. Sum(T \ {x}) = f[p] + Sum((T \ {x}) \ {p})
      BY <3>1, <2>1, <2>3
    <3>4. (T \ {p}) \ {x} = (T \ {x}) \ {p}
      OBVIOUS
    <3>5. Sum((T \ {p}) \ {x}) \in Int /\ f[x] \in Int /\ f[p] \in Int
      BY <1>i, <2>1
    <3>6. Sum((T \ {x}) \ {p}) = Sum((T \ {p}) \ {x})
      BY <3>4
    <3>7. \A a, b, c \in Int : a + (b + c) = b + (a + c)
      OBVIOUS
    <3>8. Sum(T) = f[p] + (f[x] + Sum((T \ {p}) \ {x}))
      BY <2>1, <3>2
    <3>9. Sum(T \ {x}) = f[p] + Sum((T \ {p}) \ {x})
      BY <3>3, <3>6
    <3> QED BY <3>5, <3>7, <3>8, <3>9
  <2> QED BY <2>2, <2>3
<1> HIDE DEF B
<1>3. Nat \subseteq B
  BY <1>1, <1>2, NaturalsIn
<1>4. Cardinality(S) \in B
  BY <1>3, <1>0
<1>5. Good(S)
  BY <1>4 DEF B
<1> QED BY <1>5 DEF Sum

-----------------------------------------------------------------------------
(* How sums compare.                                                       *)

LEMMA SumWith ==
  ASSUME NEW f, NEW S, IsFiniteSet(S), NEW x, x \notin S,
         f[x] \in Int, \A y \in S : f[y] \in Int
  PROVE  SumFunctionOnSet(f, S \cup {x}) = f[x] + SumFunctionOnSet(f, S)
<1>1. IsFiniteSet(S \cup {x}) /\ \A y \in S \cup {x} : f[y] \in Int
  BY FS_AddElement
<1>2. (S \cup {x}) \ {x} = S /\ x \in S \cup {x}
  OBVIOUS
<1>3. SumFunctionOnSet(f, S \cup {x}) = f[x] + SumFunctionOnSet(f, (S \cup {x}) \ {x})
  BY <1>1, <1>2, SumRemove
<1> QED BY <1>2, <1>3

\* Equal terms, equal sums.
LEMMA SumSame ==
  ASSUME NEW f, NEW g, NEW S, IsFiniteSet(S),
         \A x \in S : f[x] \in Int /\ g[x] = f[x]
  PROVE  SumFunctionOnSet(g, S) = SumFunctionOnSet(f, S)
<1> DEFINE A == {T \in SUBSET S : SumFunctionOnSet(g, T) = SumFunctionOnSet(f, T)}
<1>1. {} \in A
  BY SumNothing
<1>2. ASSUME NEW T \in SUBSET S, NEW x \in S \ T, T \in A PROVE T \cup {x} \in A
  <2>1. IsFiniteSet(T)
    BY FS_Subset
  <2>2. SumFunctionOnSet(g, T \cup {x}) = g[x] + SumFunctionOnSet(g, T)
    BY <2>1, SumWith
  <2>3. SumFunctionOnSet(f, T \cup {x}) = f[x] + SumFunctionOnSet(f, T)
    BY <2>1, SumWith
  <2> QED BY <1>2, <2>2, <2>3
<1> HIDE DEF A
<1>3. S \in A
  BY <1>1, <1>2, FinitesIn
<1> QED BY <1>3 DEF A

\* The sum of sums.
LEMMA SumPlus ==
  ASSUME NEW f, NEW g, NEW h, NEW S, IsFiniteSet(S),
         \A x \in S : f[x] \in Int /\ g[x] \in Int /\ h[x] = f[x] + g[x]
  PROVE  SumFunctionOnSet(h, S) = SumFunctionOnSet(f, S) + SumFunctionOnSet(g, S)
<1> DEFINE A == {T \in SUBSET S : SumFunctionOnSet(h, T) =
                    SumFunctionOnSet(f, T) + SumFunctionOnSet(g, T)}
<1>1. {} \in A
  BY SumNothing
<1>2. ASSUME NEW T \in SUBSET S, NEW x \in S \ T, T \in A PROVE T \cup {x} \in A
  <2>1. IsFiniteSet(T)
    BY FS_Subset
  <2>2. SumFunctionOnSet(f, T) \in Int /\ SumFunctionOnSet(g, T) \in Int
    BY <2>1, SumInteger
  <2>3. SumFunctionOnSet(f, T \cup {x}) = f[x] + SumFunctionOnSet(f, T)
    BY <2>1, SumWith
  <2>4. SumFunctionOnSet(g, T \cup {x}) = g[x] + SumFunctionOnSet(g, T)
    BY <2>1, SumWith
  <2>5. SumFunctionOnSet(h, T \cup {x}) = h[x] + SumFunctionOnSet(h, T)
    <3>1. \A y \in S : h[y] \in Int
      OBVIOUS
    <3> QED BY <2>1, <3>1, SumWith
  <2>6. SumFunctionOnSet(h, T) = SumFunctionOnSet(f, T) + SumFunctionOnSet(g, T)
    BY <1>2
  <2>7. \A a, b, c, d \in Int : (a + b) + (c + d) = (a + c) + (b + d)
    OBVIOUS
  <2>8. h[x] = f[x] + g[x] /\ f[x] \in Int /\ g[x] \in Int
    OBVIOUS
  <2>9. SumFunctionOnSet(h, T \cup {x}) =
           SumFunctionOnSet(f, T \cup {x}) + SumFunctionOnSet(g, T \cup {x})
    BY <2>2, <2>3, <2>4, <2>5, <2>6, <2>7, <2>8
  <2> QED BY <2>9
<1> HIDE DEF A
<1>3. S \in A
  BY <1>1, <1>2, FinitesIn
<1> QED BY <1>3 DEF A

LEMMA SumZeros ==
  ASSUME NEW f, NEW S, IsFiniteSet(S), \A x \in S : f[x] = 0
  PROVE  SumFunctionOnSet(f, S) = 0
<1> DEFINE A == {T \in SUBSET S : SumFunctionOnSet(f, T) = 0}
<1>1. {} \in A
  BY SumNothing
<1>2. ASSUME NEW T \in SUBSET S, NEW x \in S \ T, T \in A PROVE T \cup {x} \in A
  <2>1. IsFiniteSet(T)
    BY FS_Subset
  <2>2. SumFunctionOnSet(f, T \cup {x}) = f[x] + SumFunctionOnSet(f, T)
    BY <2>1, SumWith
  <2> QED BY <1>2, <2>2
<1> HIDE DEF A
<1>3. S \in A
  BY <1>1, <1>2, FinitesIn
<1> QED BY <1>3 DEF A

\* Of a set and the rest.
LEMMA SumSplit ==
  ASSUME NEW f, NEW S, IsFiniteSet(S), NEW R, R \subseteq S,
         \A x \in S : f[x] \in Int
  PROVE  SumFunctionOnSet(f, S) = SumFunctionOnSet(f, R) + SumFunctionOnSet(f, S \ R)
<1> DEFINE A == {T \in SUBSET (S \ R) : SumFunctionOnSet(f, R \cup T) =
                    SumFunctionOnSet(f, R) + SumFunctionOnSet(f, T)}
<1>0. IsFiniteSet(R) /\ IsFiniteSet(S \ R)
  BY FS_Subset
<1>1. {} \in A
  <2>1. R \cup {} = R
    OBVIOUS
  <2>2. SumFunctionOnSet(f, R) \in Int
    BY <1>0, SumInteger
  <2> QED BY <2>1, <2>2, SumNothing
<1>2. ASSUME NEW T \in SUBSET (S \ R), NEW x \in (S \ R) \ T, T \in A
      PROVE  T \cup {x} \in A
  <2>1. IsFiniteSet(T) /\ IsFiniteSet(R \cup T)
    BY <1>0, FS_Subset, FS_Union
  <2>2. SumFunctionOnSet(f, T) \in Int /\ SumFunctionOnSet(f, R) \in Int /\ f[x] \in Int
    BY <1>0, <2>1, SumInteger
  <2>3. SumFunctionOnSet(f, T \cup {x}) = f[x] + SumFunctionOnSet(f, T)
    BY <2>1, SumWith
  <2>4. SumFunctionOnSet(f, (R \cup T) \cup {x}) = f[x] + SumFunctionOnSet(f, R \cup T)
    BY <2>1, SumWith
  <2>5. (R \cup T) \cup {x} = R \cup (T \cup {x})
    OBVIOUS
  <2>6. SumFunctionOnSet(f, R \cup T) = SumFunctionOnSet(f, R) + SumFunctionOnSet(f, T)
    BY <1>2
  <2>7. \A a, b, c \in Int : a + (b + c) = b + (a + c)
    OBVIOUS
  <2>8. SumFunctionOnSet(f, (R \cup T) \cup {x}) =
           f[x] + (SumFunctionOnSet(f, R) + SumFunctionOnSet(f, T))
    BY <2>4, <2>6
  <2>9. SumFunctionOnSet(f, (R \cup T) \cup {x}) =
           SumFunctionOnSet(f, R) + (f[x] + SumFunctionOnSet(f, T))
    BY <2>2, <2>7, <2>8
  <2>10. SumFunctionOnSet(f, R \cup (T \cup {x})) =
            SumFunctionOnSet(f, R) + SumFunctionOnSet(f, T \cup {x})
    BY <2>3, <2>5, <2>9
  <2> QED BY <2>10
<1> HIDE DEF A
<1>3. S \ R \in A
  BY <1>0, <1>1, <1>2, FinitesIn
<1>4. R \cup (S \ R) = S
  OBVIOUS
<1>5. SumFunctionOnSet(f, R \cup (S \ R)) =
         SumFunctionOnSet(f, R) + SumFunctionOnSet(f, S \ R)
  BY <1>3 DEF A
<1> QED BY <1>4, <1>5

\* Lesser terms, a lesser sum.
LEMMA SumAtMost ==
  ASSUME NEW f, NEW g, NEW S, IsFiniteSet(S),
         \A x \in S : f[x] \in Int /\ g[x] \in Int /\ f[x] <= g[x]
  PROVE  SumFunctionOnSet(f, S) <= SumFunctionOnSet(g, S)
<1> DEFINE A == {T \in SUBSET S : SumFunctionOnSet(f, T) <= SumFunctionOnSet(g, T)}
<1>1. {} \in A
  BY SumNothing
<1>2. ASSUME NEW T \in SUBSET S, NEW x \in S \ T, T \in A PROVE T \cup {x} \in A
  <2>1. IsFiniteSet(T)
    BY FS_Subset
  <2>2. SumFunctionOnSet(f, T) \in Int /\ SumFunctionOnSet(g, T) \in Int
    BY <2>1, SumInteger
  <2>3. SumFunctionOnSet(f, T \cup {x}) = f[x] + SumFunctionOnSet(f, T)
    BY <2>1, SumWith
  <2>4. SumFunctionOnSet(g, T \cup {x}) = g[x] + SumFunctionOnSet(g, T)
    BY <2>1, SumWith
  <2>5. SumFunctionOnSet(f, T) <= SumFunctionOnSet(g, T)
    BY <1>2
  <2>6. f[x] <= g[x] /\ f[x] \in Int /\ g[x] \in Int
    OBVIOUS
  <2>7. \A a, b, c, d \in Int : a <= b /\ c <= d => a + c <= b + d
    OBVIOUS
  <2>8. SumFunctionOnSet(f, T \cup {x}) <= SumFunctionOnSet(g, T \cup {x})
    BY <2>2, <2>3, <2>4, <2>5, <2>6, <2>7
  <2> QED BY <2>8
<1> HIDE DEF A
<1>3. S \in A
  BY <1>1, <1>2, FinitesIn
<1> QED BY <1>3 DEF A

\* Naturals: no part of the sum is greater than the whole.
LEMMA SumNatural ==
  ASSUME NEW f, NEW S, IsFiniteSet(S), \A x \in S : f[x] \in Nat
  PROVE  /\ SumFunctionOnSet(f, S) \in Nat
         /\ \A R \in SUBSET S : SumFunctionOnSet(f, R) <= SumFunctionOnSet(f, S)
         /\ \A x \in S : f[x] <= SumFunctionOnSet(f, S)
<1> DEFINE zero == [x \in S |-> 0]
<1>1. ASSUME NEW R \in SUBSET S
      PROVE  SumFunctionOnSet(f, R) \in Int /\ 0 <= SumFunctionOnSet(f, R)
  <2>1. IsFiniteSet(R)
    BY FS_Subset
  <2>2. SumFunctionOnSet(zero, R) = 0
    BY <2>1, SumZeros
  <2>3. SumFunctionOnSet(zero, R) <= SumFunctionOnSet(f, R)
    <3>1. \A x \in R : zero[x] \in Int /\ f[x] \in Int /\ zero[x] <= f[x]
      OBVIOUS
    <3> HIDE DEF zero
    <3> QED BY <2>1, <3>1, SumAtMost
  <2>4. SumFunctionOnSet(f, R) \in Int
    BY <2>1, SumInteger
  <2> QED BY <2>2, <2>3, <2>4
<1>2. SumFunctionOnSet(f, S) \in Nat
  <2>1. S \in SUBSET S
    OBVIOUS
  <2> QED BY <1>1, <2>1
<1>3. ASSUME NEW R \in SUBSET S
      PROVE  SumFunctionOnSet(f, R) <= SumFunctionOnSet(f, S)
  <2>1. S \ R \in SUBSET S
    OBVIOUS
  <2>2. SumFunctionOnSet(f, S) = SumFunctionOnSet(f, R) + SumFunctionOnSet(f, S \ R)
    BY SumSplit
  <2>3. SumFunctionOnSet(f, R) \in Int
    BY <1>1
  <2>4. SumFunctionOnSet(f, S \ R) \in Int /\ 0 <= SumFunctionOnSet(f, S \ R)
    BY <1>1, <2>1
  <2>5. \A a, b \in Int : 0 <= b => a <= a + b
    OBVIOUS
  <2> QED BY <2>2, <2>3, <2>4, <2>5
<1>4. ASSUME NEW x \in S PROVE f[x] <= SumFunctionOnSet(f, S)
  <2>1. S \ {x} \in SUBSET S
    OBVIOUS
  <2>2. SumFunctionOnSet(f, S) = f[x] + SumFunctionOnSet(f, S \ {x})
    BY SumRemove
  <2>3. SumFunctionOnSet(f, S \ {x}) \in Int /\ 0 <= SumFunctionOnSet(f, S \ {x})
    BY <1>1, <2>1
  <2> QED BY <2>2, <2>3
<1> QED BY <1>2, <1>3, <1>4

\* One term changes.
LEMMA SumChange ==
  ASSUME NEW f, NEW g, NEW S, IsFiniteSet(S), NEW x \in S, g[x] \in Int,
         \A y \in S : f[y] \in Int,
         \A y \in S \ {x} : g[y] = f[y]
  PROVE  SumFunctionOnSet(g, S) = (SumFunctionOnSet(f, S) - f[x]) + g[x]
<1>1. IsFiniteSet(S \ {x})
  BY FS_RemoveElement
<1>2. SumFunctionOnSet(g, S \ {x}) = SumFunctionOnSet(f, S \ {x})
  BY <1>1, SumSame
<1>3. SumFunctionOnSet(f, S) = f[x] + SumFunctionOnSet(f, S \ {x})
  BY SumRemove
<1>4. SumFunctionOnSet(g, S) = g[x] + SumFunctionOnSet(g, S \ {x})
  <2>1. \A y \in S : g[y] \in Int
    OBVIOUS
  <2> QED BY <2>1, SumRemove
<1>5. SumFunctionOnSet(f, S \ {x}) \in Int
  BY <1>1, SumInteger
<1>6. \A a, b, c \in Int : c + b = ((a + b) - a) + c
  OBVIOUS
<1> QED BY <1>2, <1>3, <1>4, <1>5, <1>6

\* The terms outside a part count as nothing.
LEMMA SumPart ==
  ASSUME NEW f, NEW S, IsFiniteSet(S), NEW R, R \subseteq S,
         \A x \in S : f[x] \in Int
  PROVE  SumFunctionOnSet([x \in S |-> IF x \in R THEN f[x] ELSE 0], S) =
            SumFunctionOnSet(f, R)
<1> DEFINE part == [x \in S |-> IF x \in R THEN f[x] ELSE 0]
<1>0. IsFiniteSet(R) /\ IsFiniteSet(S \ R)
  BY FS_Subset
<1>1. \A x \in S : part[x] \in Int
  OBVIOUS
<1>2. (\A x \in R : part[x] = f[x]) /\ (\A x \in S \ R : part[x] = 0)
  OBVIOUS
<1>3. SumFunctionOnSet(f, R) \in Int
  BY <1>0, SumInteger
<1> HIDE DEF part
<1>4. SumFunctionOnSet(part, S) =
         SumFunctionOnSet(part, R) + SumFunctionOnSet(part, S \ R)
  BY <1>1, SumSplit
<1>5. SumFunctionOnSet(part, R) = SumFunctionOnSet(f, R)
  BY <1>0, <1>2, SumSame
<1>6. SumFunctionOnSet(part, S \ R) = 0
  BY <1>0, <1>2, SumZeros
<1>7. SumFunctionOnSet(part, S) = SumFunctionOnSet(f, R)
  BY <1>3, <1>4, <1>5, <1>6
<1> QED BY <1>7 DEF part

LEMMA SumOfFunction ==
  ASSUME NEW f, NEW S, DOMAIN f = S
  PROVE  SumFunction(f) = SumFunctionOnSet(f, S)
BY DEF SumFunction
=============================================================================
