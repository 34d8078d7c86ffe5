------------------------------ MODULE Induction ------------------------------
EXTENDS Integers, FiniteSets, FiniteSetsExt, FiniteSetTheorems, TLAPS

\* Every set of naturals has a least element.
LEMMA LeastElement ==
  ASSUME NEW S \in SUBSET Nat, S # {}
  PROVE  \E n \in S : \A m \in S : n <= m
<1>1. PICK R : R = OpToRel(<, Nat)
  OBVIOUS
<1>2. \A x, y \in Nat : <<y, x>> \in R <=> y < x
  BY <1>1 DEF OpToRel
<1>3. IsWellFoundedOn(R, Nat)
  BY <1>1, NatLessThanWellFounded
<1>4. \E x \in S : \A y \in S : ~ (<<y, x>> \in R)
  BY <1>3, WFMin
<1>5. PICK x \in S : \A y \in S : ~ (<<y, x>> \in R)
  BY <1>4
<1>6. ASSUME NEW m \in S PROVE x <= m
  <2>1. x \in Nat /\ m \in Nat
    OBVIOUS
  <2>2. ~ (<<m, x>> \in R)
    BY <1>5
  <2>3. ~ (m < x)
    BY <1>2, <2>1, <2>2
  <2> QED
    BY <2>1, <2>3
<1> QED
  BY <1>6

\* Induction over the naturals, for a set.
LEMMA InductiveSet ==
  ASSUME NEW S, 0 \in S, \A n \in Nat : n \in S => n + 1 \in S
  PROVE  Nat \subseteq S
<1> SUFFICES ASSUME Nat \ S # {} PROVE FALSE
  OBVIOUS
<1>1. PICK n \in Nat \ S : \A m \in Nat \ S : n <= m
  BY LeastElement
<1>2. n # 0 /\ n - 1 \in Nat
  BY <1>1
<1>3. n - 1 \in S
  BY <1>1, <1>2
<1> QED
  BY <1>1, <1>2, <1>3

\* A set of naturals that is finite and not empty has a greatest element.
LEMMA GreatestElement ==
  ASSUME NEW S \in SUBSET Nat, IsFiniteSet(S), S # {}
  PROVE  \E n \in S : \A m \in S : m <= n
<1> DEFINE Has(T) == T # {} => \E n \in T : \A m \in T : m <= n
           Sizes == {k \in Nat : \A T \in SUBSET Nat : IsFiniteSet(T) /\ Cardinality(T) = k => Has(T)}
<1>1. 0 \in Sizes
  BY FS_EmptySet
<1>2. ASSUME NEW k \in Nat, k \in Sizes PROVE k + 1 \in Sizes
  <2> SUFFICES ASSUME NEW T \in SUBSET Nat, IsFiniteSet(T), Cardinality(T) = k + 1 PROVE Has(T)
    OBVIOUS
  <2>1. T # {}
    BY FS_EmptySet
  <2>2. PICK x \in T : TRUE
    BY <2>1
  <2>3. IsFiniteSet(T \ {x}) /\ Cardinality(T \ {x}) = Cardinality(T) - 1
    BY <2>2, FS_RemoveElement
  <2>4. Has(T \ {x})
    BY <1>2, <2>3
  <2> QED
    BY <2>4
<1> HIDE DEF Sizes
<1>3. Nat \subseteq Sizes
  BY <1>1, <1>2, InductiveSet
<1>4. Cardinality(S) \in Nat
  BY FS_CardinalityType
<1> QED
  BY <1>3, <1>4 DEF Sizes

LEMMA MaxIsGreatest ==
  ASSUME NEW S \in SUBSET Nat, IsFiniteSet(S), S # {}
  PROVE  Max(S) \in S /\ \A m \in S : m <= Max(S)
BY GreatestElement DEF Max
-----------------------------------------------------------------------------

Pick(s) == CHOOSE x \in s : TRUE
Summed(f, g, s) == IF s = {} THEN 0 ELSE f[Pick(s)] + g[s \ {Pick(s)}]
SumsUp(f, S, g) == g = [s \in SUBSET S |-> Summed(f, g, s)]
Total(f, S) == FoldFunctionOnSet(+, 0, f, S)

LEMMA PickIsIn == \A s : s # {} => Pick(s) \in s
  BY DEF Pick

\* Without the element picked a finite set has one element less.
LEMMA Smaller ==
  ASSUME NEW s, IsFiniteSet(s), s # {}
  PROVE  /\ s \ {Pick(s)} \in SUBSET s /\ IsFiniteSet(s \ {Pick(s)}) /\ Cardinality(s) \in Nat
         /\ Cardinality(s \ {Pick(s)}) \in Nat
         /\ Cardinality(s) = Cardinality(s \ {Pick(s)}) + 1
<1>1. Pick(s) \in s
  BY PickIsIn
<1> DEFINE p == Pick(s)
<1> HIDE DEF p
<1>2. /\ IsFiniteSet(s \ {p}) /\ Cardinality(s \ {p}) = Cardinality(s) - 1
  BY <1>1, FS_RemoveElement DEF p
<1>3. Cardinality(s) \in Nat /\ Cardinality(s \ {p}) \in Nat
  BY <1>2, FS_CardinalityType
<1> QED
  BY <1>2, <1>3 DEF p

\* The recursion has a solution on the subsets of a finite set.
LEMMA SumsExist ==
  ASSUME NEW f, NEW S, IsFiniteSet(S)
  PROVE  \E g : SumsUp(f, S, g)
<1> DEFINE Small(k) == {s \in SUBSET S : Cardinality(s) <= k}
           Solved == {k \in Nat : \E g : g = [s \in Small(k) |-> Summed(f, g, s)]}
<1>0. \A s \in SUBSET S : IsFiniteSet(s) /\ Cardinality(s) \in Nat /\ Cardinality(s) <= Cardinality(S)
  BY FS_Subset, FS_CardinalityType
<1>1. 0 \in Solved
  <2>1. Small(0) = {{}}
    BY <1>0, FS_EmptySet
  <2>2. PICK g : g = [s \in Small(0) |-> 0]
    OBVIOUS
  <2>3. g = [s \in Small(0) |-> Summed(f, g, s)]
    BY <2>1, <2>2 DEF Summed
  <2> QED
    BY <2>3
<1>2. ASSUME NEW k \in Nat, k \in Solved PROVE k + 1 \in Solved
  <2>1. PICK g : g = [s \in Small(k) |-> Summed(f, g, s)]
    BY <1>2
  <2>2. PICK h : h = [s \in Small(k + 1) |-> Summed(f, g, s)]
    OBVIOUS
  <2>3. ASSUME NEW s \in Small(k + 1) PROVE Summed(f, g, s) = Summed(f, h, s)
    <3>1. CASE s = {}
      BY <3>1 DEF Summed
    <3>2. CASE s # {}
      <4>1. PICK t : t = s \ {Pick(s)}
        OBVIOUS
      <4>2. t \in SUBSET s /\ Cardinality(s) = Cardinality(t) + 1 /\ Cardinality(t) \in Nat
        BY <1>0, <3>2, <4>1, Smaller
      <4>3. t \in Small(k) /\ t \in Small(k + 1)
        BY <4>2
      <4>4. g[t] = Summed(f, g, t) /\ h[t] = Summed(f, g, t)
        BY <2>1, <2>2, <4>3
      <4> QED
        BY <3>2, <4>1, <4>4 DEF Summed
    <3> QED
      BY <3>1, <3>2
  <2>4. h = [s \in Small(k + 1) |-> Summed(f, h, s)]
    BY <2>2, <2>3
  <2> QED
    BY <2>4
<1>3. Cardinality(S) \in Nat
  BY FS_CardinalityType
<1>4. Small(Cardinality(S)) = SUBSET S
  BY <1>0
<1> HIDE DEF Solved
<1>5. Nat \subseteq Solved
  BY <1>1, <1>2, InductiveSet
<1> QED
  BY <1>3, <1>4, <1>5 DEF Solved, SumsUp

\* Two solutions agree where they are both defined and sum the same values.
LEMMA SumsAgree ==
  ASSUME NEW f, NEW e, NEW S, NEW T \in SUBSET S, IsFiniteSet(T), \A x \in T : f[x] = e[x],
         NEW g, SumsUp(f, S, g), NEW h, SumsUp(e, T, h)
  PROVE  g[T] = h[T]
<1> DEFINE Agree == {k \in Nat : \A s \in SUBSET T : Cardinality(s) = k => g[s] = h[s]}
<1>0. \A s \in SUBSET T : IsFiniteSet(s) /\ g[s] = Summed(f, g, s) /\ h[s] = Summed(e, h, s)
  BY FS_Subset DEF SumsUp
<1>1. 0 \in Agree
  <2>1. \A s \in SUBSET T : Cardinality(s) = 0 => s = {}
    BY <1>0, FS_EmptySet
  <2> QED
    BY <1>0, <2>1 DEF Summed
<1>2. ASSUME NEW k \in Nat, k \in Agree PROVE k + 1 \in Agree
  <2> SUFFICES ASSUME NEW s \in SUBSET T, Cardinality(s) = k + 1 PROVE g[s] = h[s]
    OBVIOUS
  <2>1. s # {}
    BY FS_EmptySet
  <2>2. PICK p, t : p = Pick(s) /\ t = s \ {p}
    OBVIOUS
  <2>3. p \in s /\ t \in SUBSET T /\ Cardinality(t) = k
    <3>1. Cardinality(s) = Cardinality(t) + 1 /\ Cardinality(t) \in Nat
      BY <1>0, <2>1, <2>2, Smaller
    <3> QED
      BY <2>1, <2>2, <3>1, PickIsIn
  <2>4. g[t] = h[t]
    BY <1>2, <2>3
  <2>5. g[s] = f[p] + g[t] /\ h[s] = e[p] + h[t]
    BY <1>0, <2>1, <2>2 DEF Summed
  <2> QED
    BY <2>3, <2>4, <2>5
<1> HIDE DEF Agree
<1>3. Nat \subseteq Agree
  BY <1>1, <1>2, InductiveSet
<1>4. Cardinality(T) \in Nat
  BY FS_CardinalityType
<1> QED
  BY <1>3, <1>4 DEF Agree

LEMMA TotalIsSolution ==
  ASSUME NEW f, NEW S, IsFiniteSet(S)
  PROVE  \E g : SumsUp(f, S, g) /\ Total(f, S) = g[S]
<1>1. Total(f, S) = (CHOOSE g : SumsUp(f, S, g))[S]
  BY DEF Total, FoldFunctionOnSet, MapThenFoldSet, SumsUp, Summed, Pick
<1>2. SumsUp(f, S, CHOOSE g : SumsUp(f, S, g))
  BY SumsExist
<1> QED
  BY <1>1, <1>2

\* A sum depends on the values summed alone.
LEMMA TotalSame ==
  ASSUME NEW f, NEW e, NEW S, IsFiniteSet(S), \A x \in S : f[x] = e[x]
  PROVE  Total(f, S) = Total(e, S)
<1>1. PICK g : SumsUp(f, S, g) /\ Total(f, S) = g[S]
  BY TotalIsSolution
<1>2. PICK h : SumsUp(e, S, h) /\ Total(e, S) = h[S]
  BY TotalIsSolution
<1> QED
  BY <1>1, <1>2, SumsAgree

LEMMA TotalOfNothing == ASSUME NEW f PROVE Total(f, {}) = 0
<1>1. IsFiniteSet({})
  BY FS_EmptySet
<1>2. PICK g : SumsUp(f, {}, g) /\ Total(f, {}) = g[{}]
  BY <1>1, TotalIsSolution
<1> QED
  BY <1>2 DEF SumsUp, Summed

LEMMA TotalPicks ==
  ASSUME NEW f, NEW S, IsFiniteSet(S), S # {}
  PROVE  Total(f, S) = f[Pick(S)] + Total(f, S \ {Pick(S)})
<1>1. PICK p, T : p = Pick(S) /\ T = S \ {p}
  OBVIOUS
<1>2. T \in SUBSET S /\ IsFiniteSet(T)
  BY <1>1, Smaller
<1>3. PICK g : SumsUp(f, S, g) /\ Total(f, S) = g[S]
  BY TotalIsSolution
<1>4. PICK h : SumsUp(f, T, h) /\ Total(f, T) = h[T]
  BY <1>2, TotalIsSolution
<1>5. g[T] = h[T]
  BY <1>2, <1>3, <1>4, SumsAgree
<1>6. g[S] = f[p] + g[T]
  BY <1>1, <1>3 DEF SumsUp, Summed
<1> QED
  BY <1>1, <1>3, <1>4, <1>5, <1>6

LEMMA TotalIsNat ==
  ASSUME NEW f, NEW S, IsFiniteSet(S), \A x \in S : f[x] \in Nat
  PROVE  Total(f, S) \in Nat
<1> DEFINE Fine == {k \in Nat : \A s \in SUBSET S : IsFiniteSet(s) /\ Cardinality(s) = k => Total(f, s) \in Nat}
<1>1. 0 \in Fine
  BY FS_EmptySet, TotalOfNothing
<1>2. ASSUME NEW k \in Nat, k \in Fine PROVE k + 1 \in Fine
  <2> SUFFICES ASSUME NEW s \in SUBSET S, IsFiniteSet(s), Cardinality(s) = k + 1 PROVE Total(f, s) \in Nat
    OBVIOUS
  <2>1. s # {}
    BY FS_EmptySet
  <2>2. PICK p, t : p = Pick(s) /\ t = s \ {p}
    OBVIOUS
  <2>3. p \in s /\ t \in SUBSET S /\ IsFiniteSet(t) /\ Cardinality(t) = k
    <3>1. Cardinality(s) = Cardinality(t) + 1 /\ Cardinality(t) \in Nat /\ IsFiniteSet(t)
      BY <2>1, <2>2, Smaller
    <3> QED
      BY <2>1, <2>2, <3>1, PickIsIn
  <2>4. Total(f, t) \in Nat
    BY <1>2, <2>3
  <2>5. Total(f, s) = f[p] + Total(f, t)
    BY <2>1, <2>2, TotalPicks
  <2> QED
    BY <2>3, <2>4, <2>5
<1> HIDE DEF Fine
<1>3. Nat \subseteq Fine
  BY <1>1, <1>2, InductiveSet
<1> QED
  BY <1>3, FS_CardinalityType DEF Fine

\* A sum does not depend on the order it is made in.
LEMMA TotalRemoves ==
  ASSUME NEW f, NEW S, IsFiniteSet(S), \A y \in S : f[y] \in Nat, NEW x \in S
  PROVE  Total(f, S) = f[x] + Total(f, S \ {x})
<1> DEFINE Fine == {k \in Nat : \A s \in SUBSET S : \A y \in s : IsFiniteSet(s) /\ Cardinality(s) = k =>
                                  Total(f, s) = f[y] + Total(f, s \ {y})}
<1>1. 0 \in Fine
  BY FS_EmptySet
<1>2. ASSUME NEW k \in Nat, k \in Fine PROVE k + 1 \in Fine
  <2> SUFFICES ASSUME NEW s \in SUBSET S, NEW y \in s, IsFiniteSet(s), Cardinality(s) = k + 1
               PROVE  Total(f, s) = f[y] + Total(f, s \ {y})
    OBVIOUS
  <2>2. PICK p, t : p = Pick(s) /\ t = s \ {p}
    OBVIOUS
  <2>3. p \in s /\ t \in SUBSET S /\ IsFiniteSet(t) /\ Cardinality(t) = k
    <3>1. Cardinality(s) = Cardinality(t) + 1 /\ Cardinality(t) \in Nat /\ IsFiniteSet(t)
      BY <2>2, Smaller
    <3> QED
      BY <2>2, <3>1, PickIsIn
  <2>4. Total(f, s) = f[p] + Total(f, t)
    BY <2>2, TotalPicks
  <2>5. CASE p = y
    BY <2>2, <2>4, <2>5
  <2>6. CASE p # y
    <3>1. PICK u, r : u = s \ {y} /\ r = t \ {y}
      OBVIOUS
    <3>2. y \in t /\ p \in u /\ r = u \ {p} /\ u \in SUBSET S /\ r \in SUBSET S
      BY <2>2, <2>3, <2>6, <3>1
    <3>3. IsFiniteSet(u) /\ Cardinality(u) = k /\ IsFiniteSet(r)
      <4>1. IsFiniteSet(u) /\ Cardinality(u) = Cardinality(s) - 1
        BY <3>1, FS_RemoveElement
      <4>2. IsFiniteSet(r)
        BY <2>3, <3>1, <3>2, FS_RemoveElement
      <4> QED
        BY <4>1, <4>2
    <3>4. Total(f, t) = f[y] + Total(f, r)
      BY <1>2, <2>3, <3>1, <3>2
    <3>5. Total(f, u) = f[p] + Total(f, r)
      BY <1>2, <3>2, <3>3
    <3>6. f[p] \in Nat /\ f[y] \in Nat /\ Total(f, r) \in Nat
      BY <2>3, <3>2, <3>3, TotalIsNat
    <3> QED
      BY <2>4, <3>1, <3>4, <3>5, <3>6
  <2> QED
    BY <2>5, <2>6
<1> HIDE DEF Fine
<1>3. Nat \subseteq Fine
  BY <1>1, <1>2, InductiveSet
<1> QED
  BY <1>3, FS_CardinalityType DEF Fine

LEMMA TotalAdds ==
  ASSUME NEW f, NEW S, IsFiniteSet(S), NEW x, x \notin S, \A y \in S \cup {x} : f[y] \in Nat
  PROVE  Total(f, S \cup {x}) = Total(f, S) + f[x]
<1>1. PICK T : T = S \cup {x}
  OBVIOUS
<1>2. IsFiniteSet(T) /\ T \ {x} = S /\ x \in T /\ \A y \in T : f[y] \in Nat
  BY <1>1, FS_AddElement
<1>3. Total(f, T) = f[x] + Total(f, T \ {x})
  BY <1>2, TotalRemoves
<1>4. Total(f, S) \in Nat
  BY TotalIsNat
<1>5. f[x] \in Nat
  OBVIOUS
<1>6. Total(f, T) = f[x] + Total(f, S)
  BY <1>2, <1>3
<1> QED
  BY <1>1, <1>4, <1>5, <1>6

\* One of the values summed changes.
LEMMA TotalChanges ==
  ASSUME NEW f, NEW e, NEW S, IsFiniteSet(S), NEW x \in S, \A y \in S : f[y] \in Nat, e[x] \in Nat,
         \A y \in S \ {x} : e[y] = f[y]
  PROVE  Total(e, S) = Total(f, S) - f[x] + e[x]
<1>1. PICK T : T = S \ {x}
  OBVIOUS
<1>2. IsFiniteSet(T)
  BY <1>1, FS_RemoveElement
<1>3. Total(f, S) = f[x] + Total(f, T)
  BY <1>1, TotalRemoves
<1>4. \A y \in S : e[y] \in Nat
  OBVIOUS
<1>5. Total(e, S) = e[x] + Total(e, T)
  BY <1>1, <1>4, TotalRemoves
<1>6. Total(e, T) = Total(f, T)
  BY <1>1, <1>2, TotalSame
<1>7. Total(f, T) \in Nat
  BY <1>1, <1>2, TotalIsNat
<1> QED
  BY <1>3, <1>5, <1>6, <1>7

\* What a function maps a finite set to is finite.
LEMMA FiniteImage ==
  ASSUME NEW S, IsFiniteSet(S), NEW f
  PROVE  IsFiniteSet({f[x] : x \in S})
<1>1. PICK T, g : T = {f[x] : x \in S} /\ g = [x \in S |-> f[x]]
  OBVIOUS
<1>2. g \in Surjection(S, T)
  BY <1>1 DEF Surjection
<1> QED
  BY <1>1, <1>2, FS_Surjection

\* The same values under other names have the same sum.
LEMMA TotalRenamed ==
  ASSUME NEW S, IsFiniteSet(S), NEW T, NEW h \in Bijection(S, T), NEW f, NEW g,
         \A x \in S : f[x] \in Nat /\ g[h[x]] = f[x]
  PROVE  Total(f, S) = Total(g, T)
<1> DEFINE I(s) == {h[x] : x \in s}
           Fine == {k \in Nat : \A s \in SUBSET S : Cardinality(s) = k => Total(f, s) = Total(g, I(s))}
<1>1. ASSUME NEW s \in SUBSET S PROVE IsFiniteSet(s) /\ IsFiniteSet(I(s))
  <2>1. IsFiniteSet(s)
    BY FS_Subset
  <2> QED
    BY <2>1, FiniteImage
<1>2. \A x \in S, y \in S : h[x] = h[y] => x = y
  BY DEF Bijection, Injection, IsInjective
<1>3. 0 \in Fine
  <2>1. \A s \in SUBSET S : Cardinality(s) = 0 => s = {} /\ I(s) = {}
    BY <1>1, FS_EmptySet
  <2> HIDE DEF I
  <2> QED
    BY <2>1, TotalOfNothing
<1>4. ASSUME NEW k \in Nat, k \in Fine PROVE k + 1 \in Fine
  <2> SUFFICES ASSUME NEW s \in SUBSET S, Cardinality(s) = k + 1 PROVE Total(f, s) = Total(g, I(s))
    OBVIOUS
  <2>0. IsFiniteSet(s) /\ s # {}
    <3>1. IsFiniteSet(s)
      BY <1>1
    <3>2. s # {}
      BY FS_EmptySet
    <3> QED
      BY <3>1, <3>2
  <2>1. PICK x : x \in s
    BY <2>0
  <2>2. PICK r : r = s \ {x}
    OBVIOUS
  <2>3. r \in SUBSET S /\ Cardinality(r) = k
    <3>1. Cardinality(r) = Cardinality(s) - 1
      BY <2>0, <2>1, <2>2, FS_RemoveElement
    <3> QED
      BY <2>2, <3>1
  <2>4. Total(f, r) = Total(g, I(r))
    BY <1>4, <2>3
  <2>5. I(r) = I(s) \ {h[x]} /\ h[x] \in I(s)
    BY <1>2, <2>1, <2>2
  <2>6. \A y \in I(s) : g[y] \in Nat
    OBVIOUS
  <2>7. Total(f, s) = f[x] + Total(f, r)
    <3>1. \A y \in s : f[y] \in Nat
      OBVIOUS
    <3> QED
      BY <2>0, <2>1, <2>2, <3>1, TotalRemoves
  <2>8. Total(g, I(s)) = g[h[x]] + Total(g, I(s) \ {h[x]})
    <3>1. IsFiniteSet(I(s)) /\ h[x] \in I(s)
      BY <1>1, <2>5
    <3> HIDE DEF I
    <3> QED
      BY <2>6, <3>1, TotalRemoves
  <2> QED
    BY <2>1, <2>4, <2>5, <2>7, <2>8
<1>5. Nat \subseteq Fine
  <2> HIDE DEF Fine
  <2> QED
    BY <1>3, <1>4, InductiveSet
<1>6. I(S) = T
  BY DEF Bijection, Surjection
<1>7. Cardinality(S) \in Nat
  BY FS_CardinalityType
<1> QED
  BY <1>5, <1>6, <1>7

\* A part of what is summed sums up to no more.
LEMMA TotalOfPart ==
  ASSUME NEW f, NEW S, IsFiniteSet(S), \A x \in S : f[x] \in Nat, NEW T \in SUBSET S
  PROVE  Total(f, T) <= Total(f, S)
<1> DEFINE Fine == {k \in Nat : \A s \in SUBSET S : T \subseteq s /\ Cardinality(s \ T) = k => Total(f, T) <= Total(f, s)}
<1>1. \A s \in SUBSET S : IsFiniteSet(s) /\ IsFiniteSet(s \ T) /\ Total(f, s) \in Nat
  BY FS_Subset, FS_Difference, TotalIsNat
<1>2. 0 \in Fine
  <2>1. \A s \in SUBSET S : T \subseteq s /\ Cardinality(s \ T) = 0 => s = T
    BY <1>1, FS_EmptySet
  <2>2. Total(f, T) \in Nat
    BY <1>1
  <2> QED
    BY <2>1, <2>2
<1>3. ASSUME NEW k \in Nat, k \in Fine PROVE k + 1 \in Fine
  <2> SUFFICES ASSUME NEW s \in SUBSET S, T \subseteq s, Cardinality(s \ T) = k + 1 PROVE Total(f, T) <= Total(f, s)
    OBVIOUS
  <2>0. IsFiniteSet(s) /\ IsFiniteSet(s \ T) /\ s \ T # {}
    BY <1>1, FS_EmptySet
  <2>1. PICK x : x \in s \ T
    BY <2>0
  <2>2. PICK r : r = s \ {x}
    OBVIOUS
  <2>3. r \in SUBSET S /\ T \subseteq r /\ r \ T = (s \ T) \ {x}
    BY <2>1, <2>2
  <2>4. Cardinality(r \ T) = k
    <3>1. Cardinality((s \ T) \ {x}) = Cardinality(s \ T) - 1
      BY <2>0, <2>1, FS_RemoveElement
    <3> QED
      BY <2>3, <3>1
  <2>5. Total(f, T) <= Total(f, r)
    BY <1>3, <2>3, <2>4
  <2>6. Total(f, s) = f[x] + Total(f, r)
    <3>1. \A y \in s : f[y] \in Nat
      OBVIOUS
    <3> QED
      BY <2>0, <2>1, <2>2, <3>1, TotalRemoves
  <2>7. f[x] \in Nat /\ Total(f, r) \in Nat /\ Total(f, T) \in Nat
    BY <1>1, <2>1, <2>3
  <2> QED
    BY <2>5, <2>6, <2>7
<1>4. Nat \subseteq Fine
  <2> HIDE DEF Fine
  <2> QED
    BY <1>2, <1>3, InductiveSet
<1>5. Cardinality(S \ T) \in Nat
  BY <1>1, FS_CardinalityType
<1> QED
  BY <1>4, <1>5
=============================================================================
