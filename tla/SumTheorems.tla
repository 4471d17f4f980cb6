------------------------------ MODULE SumTheorems ------------------------------
(***************************************************************************)
(* Facts about SumFunctionOnSet, the sum of the values a function takes on *)
(* a finite set.  The library defines it by a recursive function on the    *)
(* subsets of the set, of which nothing may be used before it is known to  *)
(* exist; and its own theorems on sums take the summand as an operator,    *)
(* so the facts are stated and proved here for functions.                  *)
(***************************************************************************)
EXTENDS Integers, FiniteSets, FiniteSetsExt, FiniteSetTheorems, WellFoundedInduction, TLAPS


(* The element the sum takes first. *)
First(s) == CHOOSE x \in s : TRUE

(* A non-empty set of naturals has a least element. *)
LEMMA LeastNat ==
    ASSUME NEW S, S \subseteq Nat, S # {} PROVE \E x \in S : \A y \in S : x <= y
<1> DEFINE R == OpToRel(<, Nat)
<1>1. IsWellFoundedOn(R, Nat) BY NatLessThanWellFounded
<1>2. \A x, y \in Nat : <<y, x>> \in R <=> y < x BY DEF OpToRel
<1> HIDE DEF R
<1>3. \E x \in S : \A y \in S : ~ (<<y, x>> \in R) BY <1>1, WFMin
<1>4. PICK x \in S : \A y \in S : ~ (<<y, x>> \in R) BY <1>3
<1>5. ASSUME NEW y \in S PROVE x <= y
  <2>1. x \in Nat /\ y \in Nat OBVIOUS
  <2>2. ~ (y < x) BY <1>2, <1>4, <2>1
  <2> QED BY <2>1, <2>2
<1> QED BY <1>5

(* Induction over the subsets of a finite set, as minimal counterexample:  *)
(* among subsets of which some are bad, one is bad although no subset with *)
(* an element less is.                                                     *)
LEMMA MinimalSubset ==
    ASSUME NEW S, IsFiniteSet(S), NEW Bad, Bad \subseteq SUBSET S, Bad # {}
    PROVE  \E s \in Bad : IsFiniteSet(s) /\ \A x \in s : s \ {x} \notin Bad
<1>1. \A s \in SUBSET S : IsFiniteSet(s) /\ Cardinality(s) \in Nat
  BY FS_Subset, FS_CardinalityType
<1> DEFINE Sizes == {Cardinality(s) : s \in Bad}
<1>2. Sizes \subseteq Nat /\ Sizes # {} BY <1>1
<1>3. PICK n \in Sizes : \A k \in Sizes : n <= k
  <2> HIDE DEF Sizes
  <2> QED BY <1>2, LeastNat
<1>4. PICK s \in Bad : Cardinality(s) = n OBVIOUS
<1>5. ASSUME NEW x \in s, s \ {x} \in Bad PROVE FALSE
  <2>1. Cardinality(s \ {x}) = Cardinality(s) - 1 BY <1>1, FS_RemoveElement
  <2>2. Cardinality(s) <= Cardinality(s \ {x}) BY <1>3, <1>4, <1>5
  <2>3. Cardinality(s) \in Nat BY <1>1
  <2> QED BY <2>1, <2>2, <2>3
<1> QED BY <1>1, <1>5

(* The recursive function behind a sum.                                    *)
Iterates(f, S, g) == g = [s \in SUBSET S |->
                             IF s = {} THEN 0 ELSE f[First(s)] + g[s \ {First(s)}]]

Iteration(f, S) == CHOOSE g : Iterates(f, S, g)

(* It exists: it is built up by the size of the subsets.                   *)
LEMMA IterationExists ==
    ASSUME NEW f, NEW S, IsFiniteSet(S)
    PROVE  \E g : Iterates(f, S, g)
<1> DEFINE UpTo(n) == {s \in SUBSET S : Cardinality(s) <= n}
           Built(n, g) == g = [s \in UpTo(n) |-> IF s = {} THEN 0
                                                 ELSE f[First(s)] + g[s \ {First(s)}]]
           Bad == {n \in Nat : ~ \E g : Built(n, g)}
<1>1. \A s \in SUBSET S : IsFiniteSet(s) /\ Cardinality(s) \in Nat
  BY FS_Subset, FS_CardinalityType
<1>2. \A s \in SUBSET S : s # {} => /\ First(s) \in s
                                    /\ Cardinality(s \ {First(s)}) = Cardinality(s) - 1
  <2> SUFFICES ASSUME NEW s \in SUBSET S, s # {} 
               PROVE First(s) \in s /\ Cardinality(s \ {First(s)}) = Cardinality(s) - 1
    OBVIOUS
  <2>1. First(s) \in s BY DEF First
  <2> QED BY <1>1, <2>1, FS_RemoveElement
<1>3. ASSUME NEW n \in Nat, NEW g, n = 0 \/ Built(n - 1, g) PROVE \E h : Built(n, h)
  <2> DEFINE h == [s \in UpTo(n) |-> IF s = {} THEN 0 ELSE f[First(s)] + g[s \ {First(s)}]]
  <2>1. ASSUME NEW s \in UpTo(n), s # {} PROVE h[s \ {First(s)}] = g[s \ {First(s)}]
    <3> DEFINE t == s \ {First(s)}
    <3>1. Cardinality(t) = Cardinality(s) - 1 /\ s \in SUBSET S /\ t \in SUBSET S BY <1>2, <2>1
    <3>2. Cardinality(t) \in Nat /\ Cardinality(s) \in Nat /\ Cardinality(s) <= n BY <1>1, <3>1
    <3>3. n # 0 BY <3>1, <3>2
    <3>4. t \in UpTo(n - 1) /\ t \in UpTo(n) BY <3>1, <3>2
    <3>5. g[t] = IF t = {} THEN 0 ELSE f[First(t)] + g[t \ {First(t)}]
      BY <1>3, <3>3, <3>4
    <3>6. h[t] = IF t = {} THEN 0 ELSE f[First(t)] + g[t \ {First(t)}] BY <3>4
    <3> QED BY <3>5, <3>6
  <2>2. h = [s \in UpTo(n) |-> IF s = {} THEN 0 ELSE f[First(s)] + h[s \ {First(s)}]]
    <3>1. \A s \in UpTo(n) : (IF s = {} THEN 0 ELSE f[First(s)] + h[s \ {First(s)}])
                           = (IF s = {} THEN 0 ELSE f[First(s)] + g[s \ {First(s)}])
      <4> HIDE DEF UpTo, h
      <4> QED BY <2>1
    <3> HIDE DEF UpTo
    <3> QED BY <3>1
  <2>3. Built(n, h) BY <2>2
  <2> QED BY <2>3
<1>4. Bad = {}
  <2> SUFFICES ASSUME Bad # {} PROVE FALSE OBVIOUS
  <2>1. Bad \subseteq Nat OBVIOUS
  <2>2. PICK n \in Bad : \A k \in Bad : n <= k
    <3> HIDE DEF Bad
    <3> QED BY <2>1, LeastNat
  <2> HIDE DEF Built
  <2>3. n \in Nat /\ ~ \E h : Built(n, h) OBVIOUS
  <2>4. n = 0 \/ n - 1 \notin Bad
    <3> HIDE DEF Bad
    <3> QED BY <2>1, <2>2
  <2>5. n = 0 \/ \E g : Built(n - 1, g) BY <2>1, <2>4
  <2> QED BY <1>3, <2>3, <2>5
<1>5. Cardinality(S) \in Nat BY FS_CardinalityType
<1>6. UpTo(Cardinality(S)) = SUBSET S
  <2>1. \A s \in SUBSET S : Cardinality(s) <= Cardinality(S) BY FS_Subset
  <2> QED BY <2>1
<1>7. PICK g : Built(Cardinality(S), g)
  <2> HIDE DEF Built
  <2> QED BY <1>4, <1>5
<1>8. g = [s \in SUBSET S |-> IF s = {} THEN 0 ELSE f[First(s)] + g[s \ {First(s)}]]
  BY <1>6, <1>7
<1> QED BY <1>8 DEF Iterates

LEMMA SumIsIteration ==
    ASSUME NEW f, NEW S PROVE SumFunctionOnSet(f, S) = Iteration(f, S)[S]
BY DEF SumFunctionOnSet, FoldFunctionOnSet, MapThenFoldSet, Iteration, Iterates, First

LEMMA IterationEquation ==
    ASSUME NEW f, NEW S, IsFiniteSet(S), NEW T, T \subseteq S
    PROVE  Iteration(f, S)[T] = IF T = {} THEN 0 ELSE f[First(T)] + Iteration(f, S)[T \ {First(T)}]
<1>1. Iterates(f, S, Iteration(f, S)) BY IterationExists DEF Iteration
<1>2. T \in SUBSET S OBVIOUS
<1> QED BY <1>1, <1>2 DEF Iterates

(* The value does not depend on the set the recursion is defined over.     *)
LEMMA IterationLocal ==
    ASSUME NEW f, NEW S, IsFiniteSet(S), NEW T, T \subseteq S
    PROVE  Iteration(f, S)[T] = Iteration(f, T)[T]
<1>1. IsFiniteSet(T) BY FS_Subset
<1> DEFINE Bad == {s \in SUBSET T : Iteration(f, S)[s] # Iteration(f, T)[s]}
<1>2. Bad = {}
  <2> SUFFICES ASSUME Bad # {} PROVE FALSE OBVIOUS
  <2>1. PICK s \in Bad : \A x \in s : s \ {x} \notin Bad
    <3>1. Bad \subseteq SUBSET T OBVIOUS
    <3> HIDE DEF Bad
    <3> QED BY <1>1, <3>1, MinimalSubset
  <2>2. s \subseteq T /\ s \subseteq S OBVIOUS
  <2>3. Iteration(f, S)[s] = IF s = {} THEN 0 ELSE f[First(s)] + Iteration(f, S)[s \ {First(s)}]
    BY <2>2, IterationEquation
  <2>4. Iteration(f, T)[s] = IF s = {} THEN 0 ELSE f[First(s)] + Iteration(f, T)[s \ {First(s)}]
    BY <1>1, <2>2, IterationEquation
  <2>5. s # {} BY <2>3, <2>4
  <2>6. First(s) \in s BY <2>5 DEF First
  <2>7. Iteration(f, S)[s \ {First(s)}] = Iteration(f, T)[s \ {First(s)}] BY <2>1, <2>2, <2>6
  <2> QED BY <2>3, <2>4, <2>7
<1>3. T \in SUBSET T OBVIOUS
<1> QED BY <1>2, <1>3

-------------------------------------------------------------------------------
LEMMA SumEmpty == ASSUME NEW f PROVE SumFunctionOnSet(f, {}) = 0
<1>1. IsFiniteSet({}) BY FS_EmptySet
<1> QED BY <1>1, SumIsIteration, IterationEquation

LEMMA SumFirst ==
    ASSUME NEW f, NEW S, IsFiniteSet(S), S # {}
    PROVE  SumFunctionOnSet(f, S) = f[First(S)] + SumFunctionOnSet(f, S \ {First(S)})
<1> DEFINE T == S \ {First(S)}
<1>1. SumFunctionOnSet(f, S) = f[First(S)] + Iteration(f, S)[T]
  <2>1. SumFunctionOnSet(f, S) = Iteration(f, S)[S] BY SumIsIteration
  <2>2. S \subseteq S OBVIOUS
  <2>3. Iteration(f, S)[S] = IF S = {} THEN 0 ELSE f[First(S)] + Iteration(f, S)[S \ {First(S)}]
    BY <2>2, IterationEquation
  <2> QED BY <2>1, <2>3
<1>2. Iteration(f, S)[T] = Iteration(f, T)[T] BY IterationLocal
<1>3. SumFunctionOnSet(f, T) = Iteration(f, T)[T] BY SumIsIteration
<1> QED BY <1>1, <1>2, <1>3

(* Sums of integers are integers.                                          *)
LEMMA SumInt ==
    ASSUME NEW f, NEW S, IsFiniteSet(S), \A x \in S : f[x] \in Int
    PROVE  SumFunctionOnSet(f, S) \in Int
<1> DEFINE Bad == {s \in SUBSET S : SumFunctionOnSet(f, s) \notin Int}
<1>1. Bad = {}
  <2> SUFFICES ASSUME Bad # {} PROVE FALSE OBVIOUS
  <2>1. PICK s \in Bad : IsFiniteSet(s) /\ \A x \in s : s \ {x} \notin Bad
    <3>1. Bad \subseteq SUBSET S OBVIOUS
    <3> HIDE DEF Bad
    <3> QED BY <3>1, MinimalSubset
  <2>2. s \subseteq S /\ SumFunctionOnSet(f, s) \notin Int OBVIOUS
  <2>3. s # {} BY <2>2, SumEmpty
  <2>4. First(s) \in s BY <2>3 DEF First
  <2>5. SumFunctionOnSet(f, s \ {First(s)}) \in Int BY <2>1, <2>2, <2>4
  <2> QED BY <2>1, <2>2, <2>3, <2>4, <2>5, SumFirst
<1>2. S \in SUBSET S OBVIOUS
<1> QED BY <1>1, <1>2

(* Any element may be taken out first.                                     *)
LEMMA SumPeel ==
    ASSUME NEW f, NEW S, IsFiniteSet(S), \A x \in S : f[x] \in Int, NEW z \in S
    PROVE  SumFunctionOnSet(f, S) = f[z] + SumFunctionOnSet(f, S \ {z})
<1> DEFINE Good(s) == \A x \in s : SumFunctionOnSet(f, s) = f[x] + SumFunctionOnSet(f, s \ {x})
           Bad == {s \in SUBSET S : ~ Good(s)}
<1>1. Bad = {}
  <2> SUFFICES ASSUME Bad # {} PROVE FALSE OBVIOUS
  <2>1. PICK s \in Bad : IsFiniteSet(s) /\ \A x \in s : s \ {x} \notin Bad
    <3>1. Bad \subseteq SUBSET S OBVIOUS
    <3> HIDE DEF Bad
    <3> QED BY <3>1, MinimalSubset
  <2>2. s \subseteq S /\ ~ Good(s) OBVIOUS
  <2> DEFINE p == First(s)
  <2>3. \A x \in s : Good(s \ {x}) BY <2>1, <2>2
  <2>4. PICK x \in s : SumFunctionOnSet(f, s) # f[x] + SumFunctionOnSet(f, s \ {x}) BY <2>2
  <2>5. p \in s BY DEF First
  <2>6. SumFunctionOnSet(f, s) = f[p] + SumFunctionOnSet(f, s \ {p}) BY <2>1, SumFirst
  <2>7. x # p BY <2>4, <2>6
  <2>8. x \in s \ {p} /\ p \in s \ {x} BY <2>5, <2>7
  <2>9. SumFunctionOnSet(f, s \ {p}) = f[x] + SumFunctionOnSet(f, (s \ {p}) \ {x}) BY <2>3, <2>5, <2>8
  <2>10. SumFunctionOnSet(f, s \ {x}) = f[p] + SumFunctionOnSet(f, (s \ {x}) \ {p}) BY <2>3, <2>8
  <2>11. (s \ {p}) \ {x} = (s \ {x}) \ {p} OBVIOUS
  <2>12. f[x] \in Int /\ f[p] \in Int BY <2>2, <2>5
  <2> DEFINE rest == SumFunctionOnSet(f, (s \ {x}) \ {p})
             lessP == SumFunctionOnSet(f, s \ {p})
             lessX == SumFunctionOnSet(f, s \ {x})
  <2>13. rest \in Int
    <3>1. IsFiniteSet((s \ {x}) \ {p}) BY <2>1, FS_Subset
    <3>2. \A y \in (s \ {x}) \ {p} : f[y] \in Int BY <2>2
    <3> QED BY <3>1, <3>2, SumInt
  <2>14. lessP = f[x] + rest /\ lessX = f[p] + rest BY <2>9, <2>10, <2>11
  <2>15. f[p] + lessP # f[x] + lessX BY <2>4, <2>6
  <2> HIDE DEF p, rest, lessP, lessX
  <2> QED BY <2>12, <2>13, <2>14, <2>15
<1>2. S \in SUBSET S OBVIOUS
<1> QED BY <1>1, <1>2

(* Functions that agree on a set have the same sum over it.                *)
LEMMA SumAgree ==
    ASSUME NEW f, NEW g, NEW S, IsFiniteSet(S), \A x \in S : f[x] = g[x]
    PROVE  SumFunctionOnSet(f, S) = SumFunctionOnSet(g, S)
<1> DEFINE Bad == {s \in SUBSET S : SumFunctionOnSet(f, s) # SumFunctionOnSet(g, s)}
<1>1. Bad = {}
  <2> SUFFICES ASSUME Bad # {} PROVE FALSE OBVIOUS
  <2>1. PICK s \in Bad : IsFiniteSet(s) /\ \A x \in s : s \ {x} \notin Bad
    <3>1. Bad \subseteq SUBSET S OBVIOUS
    <3> HIDE DEF Bad
    <3> QED BY <3>1, MinimalSubset
  <2>2. s \subseteq S /\ SumFunctionOnSet(f, s) # SumFunctionOnSet(g, s) OBVIOUS
  <2>3. s # {} BY <2>2, SumEmpty
  <2>4. First(s) \in s BY <2>3 DEF First
  <2>5. SumFunctionOnSet(f, s \ {First(s)}) = SumFunctionOnSet(g, s \ {First(s)}) BY <2>1, <2>2, <2>4
  <2>6. f[First(s)] = g[First(s)] BY <2>2, <2>4
  <2>7. SumFunctionOnSet(f, s) = f[First(s)] + SumFunctionOnSet(f, s \ {First(s)}) BY <2>1, <2>3, SumFirst
  <2>8. SumFunctionOnSet(g, s) = g[First(s)] + SumFunctionOnSet(g, s \ {First(s)}) BY <2>1, <2>3, SumFirst
  <2> QED BY <2>2, <2>5, <2>6, <2>7, <2>8
<1>2. S \in SUBSET S OBVIOUS
<1> QED BY <1>1, <1>2

(* A sum grows with its summands.                                          *)
LEMMA SumMonotone ==
    ASSUME NEW f, NEW g, NEW S, IsFiniteSet(S),
           \A x \in S : f[x] \in Int /\ g[x] \in Int /\ f[x] <= g[x]
    PROVE  SumFunctionOnSet(f, S) <= SumFunctionOnSet(g, S)
<1> DEFINE Bad == {s \in SUBSET S : ~ (SumFunctionOnSet(f, s) <= SumFunctionOnSet(g, s))}
<1>1. Bad = {}
  <2> SUFFICES ASSUME Bad # {} PROVE FALSE OBVIOUS
  <2>1. PICK s \in Bad : IsFiniteSet(s) /\ \A x \in s : s \ {x} \notin Bad
    <3>1. Bad \subseteq SUBSET S OBVIOUS
    <3> HIDE DEF Bad
    <3> QED BY <3>1, MinimalSubset
  <2>2. s \subseteq S /\ ~ (SumFunctionOnSet(f, s) <= SumFunctionOnSet(g, s)) OBVIOUS
  <2>3. s # {} BY <2>2, SumEmpty
  <2> DEFINE p == First(s)
  <2>4. p \in s BY <2>3 DEF First
  <2> DEFINE t == s \ {p}
  <2>5. SumFunctionOnSet(f, t) <= SumFunctionOnSet(g, t) BY <2>1, <2>2, <2>4
  <2>6. f[p] \in Int /\ g[p] \in Int /\ f[p] <= g[p] BY <2>2, <2>4
  <2>7. SumFunctionOnSet(f, s) = f[p] + SumFunctionOnSet(f, t) /\ SumFunctionOnSet(g, s) = g[p] + SumFunctionOnSet(g, t) BY <2>1, <2>3, SumFirst
  <2>8. SumFunctionOnSet(f, t) \in Int /\ SumFunctionOnSet(g, t) \in Int
    <3>1. IsFiniteSet(t) BY <2>1, FS_Subset
    <3>2. \A y \in t : f[y] \in Int /\ g[y] \in Int BY <2>2
    <3> HIDE DEF t
    <3> QED BY <3>1, <3>2, SumInt
  <2> HIDE DEF p, t
  <2> QED BY <2>2, <2>5, <2>6, <2>7, <2>8
<1>2. S \in SUBSET S OBVIOUS
<1> QED BY <1>1, <1>2

(* Changing one summand changes the sum by the difference.                 *)
LEMMA SumChange ==
    ASSUME NEW f, NEW g, NEW S, IsFiniteSet(S), NEW z \in S,
           \A x \in S : f[x] \in Int /\ g[x] \in Int,
           \A x \in S \ {z} : f[x] = g[x]
    PROVE  SumFunctionOnSet(g, S) = SumFunctionOnSet(f, S) + g[z] - f[z]
<1> DEFINE t == S \ {z}
<1>1. IsFiniteSet(t) BY FS_Subset
<1>2. SumFunctionOnSet(f, S) = f[z] + SumFunctionOnSet(f, t) /\ SumFunctionOnSet(g, S) = g[z] + SumFunctionOnSet(g, t) BY SumPeel
<1>3. SumFunctionOnSet(f, t) = SumFunctionOnSet(g, t) BY <1>1, SumAgree
<1>4. SumFunctionOnSet(f, t) \in Int BY <1>1, SumInt
<1>5. f[z] \in Int /\ g[z] \in Int OBVIOUS
<1> HIDE DEF t
<1> QED BY <1>2, <1>3, <1>4, <1>5

(* A new element adds its value.                                           *)
LEMMA SumAdd ==
    ASSUME NEW f, NEW S, IsFiniteSet(S), NEW z, z \notin S, \A x \in S \cup {z} : f[x] \in Int
    PROVE  SumFunctionOnSet(f, S \cup {z}) = SumFunctionOnSet(f, S) + f[z]
<1> DEFINE t == S \cup {z}
<1>1. IsFiniteSet(t) BY FS_AddElement
<1>2. z \in t /\ t \ {z} = S OBVIOUS
<1>3. SumFunctionOnSet(f, t) = f[z] + SumFunctionOnSet(f, t \ {z})
  <2>1. \A x \in t : f[x] \in Int OBVIOUS
  <2> HIDE DEF t
  <2> QED BY <1>1, <1>2, <2>1, SumPeel
<1>4. SumFunctionOnSet(f, S) \in Int /\ f[z] \in Int
  <2>1. \A x \in S : f[x] \in Int OBVIOUS
  <2>2. SumFunctionOnSet(f, S) \in Int BY <2>1, SumInt
  <2> QED BY <2>2
<1> HIDE DEF t
<1>5. SumFunctionOnSet(f, t) = f[z] + SumFunctionOnSet(f, S) BY <1>2, <1>3
<1>6. SumFunctionOnSet(f, t) = SumFunctionOnSet(f, S) + f[z] BY <1>4, <1>5
<1> QED BY <1>6 DEF t

(* Summands that are not negative have a sum that is not.                  *)
LEMMA SumNat ==
    ASSUME NEW f, NEW S, IsFiniteSet(S), \A x \in S : f[x] \in Nat
    PROVE  SumFunctionOnSet(f, S) \in Nat
<1> DEFINE Bad == {s \in SUBSET S : SumFunctionOnSet(f, s) \notin Nat}
<1>1. Bad = {}
  <2> SUFFICES ASSUME Bad # {} PROVE FALSE OBVIOUS
  <2>1. PICK s \in Bad : IsFiniteSet(s) /\ \A x \in s : s \ {x} \notin Bad
    <3>1. Bad \subseteq SUBSET S OBVIOUS
    <3> HIDE DEF Bad
    <3> QED BY <3>1, MinimalSubset
  <2>2. s \subseteq S /\ SumFunctionOnSet(f, s) \notin Nat OBVIOUS
  <2>3. s # {} BY <2>2, SumEmpty
  <2>4. First(s) \in s BY <2>3 DEF First
  <2>5. SumFunctionOnSet(f, s \ {First(s)}) \in Nat BY <2>1, <2>2, <2>4
  <2> QED BY <2>1, <2>2, <2>3, <2>4, <2>5, SumFirst
<1>2. S \in SUBSET S OBVIOUS
<1> QED BY <1>1, <1>2

(* A sum is not larger than one whose summands it maps into, one to one.   *)
LEMMA SumInjection ==
    ASSUME NEW f, NEW g, NEW m, NEW S, NEW T, IsFiniteSet(S), IsFiniteSet(T),
           \A x \in S : f[x] \in Nat /\ m[x] \in T /\ f[x] <= g[m[x]],
           \A x, y \in S : m[x] = m[y] => x = y,
           \A y \in T : g[y] \in Nat
    PROVE  SumFunctionOnSet(f, S) <= SumFunctionOnSet(g, T)
<1> DEFINE Fits(s, t) == (\A x \in s : m[x] \in t)
                            => SumFunctionOnSet(f, s) <= SumFunctionOnSet(g, t)
           Bad == {s \in SUBSET S : ~ \A t \in SUBSET T : Fits(s, t)}
<1>1. Bad = {}
  <2> SUFFICES ASSUME Bad # {} PROVE FALSE OBVIOUS
  <2>1. PICK s \in Bad : IsFiniteSet(s) /\ \A x \in s : s \ {x} \notin Bad
    <3>1. Bad \subseteq SUBSET S OBVIOUS
    <3> HIDE DEF Bad
    <3> QED BY <3>1, MinimalSubset
  <2>2. s \subseteq S OBVIOUS
  <2>3. PICK t \in SUBSET T : ~ Fits(s, t) OBVIOUS
  <2>4. IsFiniteSet(t) BY FS_Subset
  <2>5. s # {}
    <3>1. SumFunctionOnSet(g, t) \in Nat BY <2>4, SumNat
    <3> QED BY <2>3, <3>1, SumEmpty
  <2> DEFINE p == First(s)
  <2>6. p \in s BY <2>5 DEF First
  <2> HIDE DEF p
  <2> DEFINE s1 == s \ {p}
             t1 == t \ {m[p]}
  <2>7. \A x \in s1 : m[x] \in t1 BY <2>2, <2>3, <2>6
  <2>8. SumFunctionOnSet(f, s1) <= SumFunctionOnSet(g, t1)
    <3>1. s1 \notin Bad /\ s1 \in SUBSET S /\ t1 \in SUBSET T BY <2>1, <2>2, <2>6
    <3>2. Fits(s1, t1) BY <3>1
    <3> QED BY <2>7, <3>2
  <2>9. SumFunctionOnSet(f, s) = f[p] + SumFunctionOnSet(f, s1)
    BY <2>1, <2>2, <2>6, SumPeel
  <2>10. SumFunctionOnSet(g, t) = g[m[p]] + SumFunctionOnSet(g, t1)
    <3>1. m[p] \in t BY <2>3, <2>6
    <3> QED BY <2>4, <3>1, SumPeel
  <2>11. SumFunctionOnSet(f, s1) \in Int /\ SumFunctionOnSet(g, t1) \in Int
    <3>1. IsFiniteSet(s1) /\ IsFiniteSet(t1) BY <2>1, <2>4, FS_Subset
    <3>2. (\A x \in s1 : f[x] \in Int) /\ (\A y \in t1 : g[y] \in Int) BY <2>2
    <3> HIDE DEF s1, t1
    <3> QED BY <3>1, <3>2, SumInt
  <2>12. f[p] \in Int /\ g[m[p]] \in Int /\ f[p] <= g[m[p]] BY <2>2, <2>6
  <2> HIDE DEF s1, t1
  <2>13. SumFunctionOnSet(f, s) <= SumFunctionOnSet(g, t) BY <2>8, <2>9, <2>10, <2>11, <2>12
  <2> QED BY <2>3, <2>13
<1>2. S \in SUBSET S /\ T \in SUBSET T /\ \A x \in S : m[x] \in T OBVIOUS
<1>3. Fits(S, T) BY <1>1, <1>2
<1> QED BY <1>2, <1>3

(* Part of a sum is not larger than the sum.                               *)
LEMMA SumSubset ==
    ASSUME NEW f, NEW S, NEW T, IsFiniteSet(T), S \subseteq T, \A x \in T : f[x] \in Nat
    PROVE  SumFunctionOnSet(f, S) <= SumFunctionOnSet(f, T)
<1> DEFINE m == [x \in S |-> x]
<1>1. \A x \in S : m[x] = x OBVIOUS
<1> HIDE DEF m
<1>2. IsFiniteSet(S) BY FS_Subset
<1>3. \A x \in S : f[x] \in Nat /\ m[x] \in T /\ f[x] <= f[m[x]] BY <1>1
<1>4. \A x, y \in S : m[x] = m[y] => x = y BY <1>1
<1> QED BY <1>2, <1>3, <1>4, SumInjection

(* One term of a sum is not larger than the sum.                           *)
LEMMA SumTerm ==
    ASSUME NEW T, IsFiniteSet(T), NEW f, \A x \in T : f[x] \in Nat, NEW x \in T
    PROVE  f[x] <= SumFunctionOnSet(f, T)
<1> DEFINE S == {x}
<1>1. SumFunctionOnSet(f, S) <= SumFunctionOnSet(f, T)
  <2>1. S \subseteq T OBVIOUS
  <2> HIDE DEF S
  <2> QED BY <2>1, SumSubset
<1>2. SumFunctionOnSet(f, S) = f[x] + SumFunctionOnSet(f, S \ {x})
  <2>1. IsFiniteSet(S) BY FS_Singleton
  <2>2. x \in S /\ \A y \in S : f[y] \in Int OBVIOUS
  <2> HIDE DEF S
  <2> QED BY <2>1, <2>2, SumPeel
<1>3. S \ {x} = {} OBVIOUS
<1>4. f[x] \in Nat OBVIOUS
<1> HIDE DEF S
<1>5. SumFunctionOnSet(f, S \ {x}) = 0 BY <1>3, SumEmpty
<1> QED BY <1>1, <1>2, <1>4, <1>5

(* A sum of zeros is zero.                                                 *)
LEMMA SumZero ==
    ASSUME NEW f, NEW S, IsFiniteSet(S), \A x \in S : f[x] = 0
    PROVE  SumFunctionOnSet(f, S) = 0
<1> DEFINE g == [x \in {} |-> 0]
<1>1. SumFunctionOnSet(f, S) <= SumFunctionOnSet(f, {})
  <2> DEFINE Bad == {s \in SUBSET S : SumFunctionOnSet(f, s) # 0}
  <2>1. Bad = {}
    <3> SUFFICES ASSUME Bad # {} PROVE FALSE OBVIOUS
    <3>1. PICK s \in Bad : IsFiniteSet(s) /\ \A x \in s : s \ {x} \notin Bad
      <4>1. Bad \subseteq SUBSET S OBVIOUS
      <4> HIDE DEF Bad
      <4> QED BY <4>1, MinimalSubset
    <3>2. s # {} BY SumEmpty
    <3>3. First(s) \in s BY <3>2 DEF First
    <3>4. SumFunctionOnSet(f, s \ {First(s)}) = 0 /\ f[First(s)] = 0 BY <3>1, <3>3
    <3> QED BY <3>1, <3>2, <3>4, SumFirst
  <2>2. S \in SUBSET S OBVIOUS
  <2> QED BY <2>1, <2>2, SumEmpty
<1>2. \A x \in S : f[x] \in Nat OBVIOUS
<1>3. SumFunctionOnSet(f, S) \in Nat BY <1>2, SumNat
<1> QED BY <1>1, <1>3, SumEmpty

(* Summing over a function's own domain.                                   *)
LEMMA SumOfFunction ==
    ASSUME NEW f, NEW S, DOMAIN f = S PROVE SumFunction(f) = SumFunctionOnSet(f, S)
BY DEF SumFunction

(* The sum of two functions' values.                                       *)
LEMMA SumPlus ==
    ASSUME NEW f, NEW g, NEW h, NEW S, IsFiniteSet(S),
           \A x \in S : f[x] \in Int /\ g[x] \in Int /\ h[x] = f[x] + g[x]
    PROVE  SumFunctionOnSet(h, S) = SumFunctionOnSet(f, S) + SumFunctionOnSet(g, S)
<1> DEFINE Adds(s) == SumFunctionOnSet(h, s) = SumFunctionOnSet(f, s) + SumFunctionOnSet(g, s)
           Bad     == {s \in SUBSET S : ~ Adds(s)}
<1>1. Bad = {}
  <2> SUFFICES ASSUME Bad # {} PROVE FALSE OBVIOUS
  <2>1. PICK s \in Bad : IsFiniteSet(s) /\ \A x \in s : s \ {x} \notin Bad
    <3>1. Bad \subseteq SUBSET S OBVIOUS
    <3> HIDE DEF Bad
    <3> QED BY <3>1, MinimalSubset
  <2>2. s \subseteq S /\ ~ Adds(s) OBVIOUS
  <2>3. s # {} BY <2>2, SumEmpty
  <2> DEFINE p == First(s)
  <2>4. p \in s BY <2>3 DEF First
  <2> DEFINE t == s \ {p}
  <2>5. Adds(t) BY <2>1, <2>2, <2>4
  <2>6. f[p] \in Int /\ g[p] \in Int /\ h[p] = f[p] + g[p] BY <2>2, <2>4
  <2>7. /\ SumFunctionOnSet(f, s) = f[p] + SumFunctionOnSet(f, t)
        /\ SumFunctionOnSet(g, s) = g[p] + SumFunctionOnSet(g, t)
        /\ SumFunctionOnSet(h, s) = h[p] + SumFunctionOnSet(h, t)
    BY <2>1, <2>3, SumFirst
  <2>8. SumFunctionOnSet(f, t) \in Int /\ SumFunctionOnSet(g, t) \in Int
    <3>1. IsFiniteSet(t) BY <2>1, FS_Subset
    <3>2. \A y \in t : f[y] \in Int /\ g[y] \in Int BY <2>2
    <3> HIDE DEF t
    <3> QED BY <3>1, <3>2, SumInt
  <2> HIDE DEF p, t
  <2> QED BY <2>2, <2>5, <2>6, <2>7, <2>8
<1>2. S \in SUBSET S OBVIOUS
<1> QED BY <1>1, <1>2

(* A common factor.                                                        *)
LEMMA SumScale ==
    ASSUME NEW f, NEW g, NEW k \in Int, NEW S, IsFiniteSet(S),
           \A x \in S : f[x] \in Int /\ g[x] = k * f[x]
    PROVE  SumFunctionOnSet(g, S) = k * SumFunctionOnSet(f, S)
<1> DEFINE Scales(s) == SumFunctionOnSet(g, s) = k * SumFunctionOnSet(f, s)
           Bad       == {s \in SUBSET S : ~ Scales(s)}
<1>1. Bad = {}
  <2> SUFFICES ASSUME Bad # {} PROVE FALSE OBVIOUS
  <2>1. PICK s \in Bad : IsFiniteSet(s) /\ \A x \in s : s \ {x} \notin Bad
    <3>1. Bad \subseteq SUBSET S OBVIOUS
    <3> HIDE DEF Bad
    <3> QED BY <3>1, MinimalSubset
  <2>2. s \subseteq S /\ ~ Scales(s) OBVIOUS
  <2>3. s # {}
    <3>1. k * 0 = 0 OBVIOUS
    <3>2. Scales({}) BY <3>1, SumEmpty
    <3> HIDE DEF Scales
    <3> QED BY <2>2, <3>2
  <2> DEFINE p == First(s)
  <2>4. p \in s BY <2>3 DEF First
  <2> DEFINE t == s \ {p}
  <2>5. Scales(t) BY <2>1, <2>2, <2>4
  <2>6. f[p] \in Int /\ g[p] = k * f[p] BY <2>2, <2>4
  <2>7. /\ SumFunctionOnSet(f, s) = f[p] + SumFunctionOnSet(f, t)
        /\ SumFunctionOnSet(g, s) = g[p] + SumFunctionOnSet(g, t)
    BY <2>1, <2>3, SumFirst
  <2>8. SumFunctionOnSet(f, t) \in Int
    <3>1. IsFiniteSet(t) BY <2>1, FS_Subset
    <3>2. \A y \in t : f[y] \in Int BY <2>2
    <3> HIDE DEF t
    <3> QED BY <3>1, <3>2, SumInt
  <2>9. \A a, b \in Int : k * (a + b) = k * a + k * b OBVIOUS
  <2> HIDE DEF p, t
  <2>10. k * SumFunctionOnSet(f, s) = k * f[p] + k * SumFunctionOnSet(f, t)
    BY <2>6, <2>7, <2>8, <2>9
  <2> QED BY <2>2, <2>5, <2>6, <2>7, <2>10
<1>2. S \in SUBSET S OBVIOUS
<1> QED BY <1>1, <1>2

(* Counting: ones sum up to how many they are.                             *)
LEMMA SumCount ==
    ASSUME NEW f, NEW S, IsFiniteSet(S), \A x \in S : f[x] \in {0, 1}
    PROVE  SumFunctionOnSet(f, S) = Cardinality({x \in S : f[x] = 1})
<1> DEFINE Ones(s)   == {x \in s : f[x] = 1}
           Counts(s) == SumFunctionOnSet(f, s) = Cardinality(Ones(s))
           Bad       == {s \in SUBSET S : ~ Counts(s)}
<1>1. Bad = {}
  <2> SUFFICES ASSUME Bad # {} PROVE FALSE OBVIOUS
  <2>1. PICK s \in Bad : IsFiniteSet(s) /\ \A x \in s : s \ {x} \notin Bad
    <3>1. Bad \subseteq SUBSET S OBVIOUS
    <3> HIDE DEF Bad
    <3> QED BY <3>1, MinimalSubset
  <2>2. s \subseteq S /\ ~ Counts(s) OBVIOUS
  <2>3. s # {}
    <3>1. Ones({}) = {} OBVIOUS
    <3> QED BY <2>2, <3>1, SumEmpty, FS_EmptySet
  <2> DEFINE p == First(s)
  <2>4. p \in s BY <2>3 DEF First
  <2> DEFINE t == s \ {p}
  <2>5. Counts(t) BY <2>1, <2>2, <2>4
  <2>6. f[p] \in {0, 1} BY <2>2, <2>4
  <2>7. SumFunctionOnSet(f, s) = f[p] + SumFunctionOnSet(f, t) BY <2>1, <2>3, SumFirst
  <2>8. IsFiniteSet(Ones(t)) /\ Cardinality(Ones(t)) \in Nat
    BY <2>1, FS_Subset, FS_CardinalityType
  <2>9. CASE f[p] = 0
    <3>1. Ones(s) = Ones(t) BY <2>9
    <3> HIDE DEF Ones, t
    <3> QED BY <2>2, <2>5, <2>7, <2>8, <2>9, <3>1
  <2>10. CASE f[p] = 1
    <3>1. Ones(s) = Ones(t) \cup {p} /\ p \notin Ones(t) BY <2>4, <2>10
    <3>2. Cardinality(Ones(s)) = Cardinality(Ones(t)) + 1 BY <2>8, <3>1, FS_AddElement
    <3> HIDE DEF Ones, t
    <3> QED BY <2>2, <2>5, <2>7, <2>8, <2>10, <3>2
  <2> QED BY <2>6, <2>9, <2>10
<1>2. S \in SUBSET S OBVIOUS
<1> QED BY <1>1, <1>2

(* The sum over two disjoint sets.                                         *)
LEMMA SumUnion ==
    ASSUME NEW f, NEW A, NEW B, IsFiniteSet(A), IsFiniteSet(B), A \cap B = {},
           \A x \in A \cup B : f[x] \in Int
    PROVE  SumFunctionOnSet(f, A \cup B) = SumFunctionOnSet(f, A) + SumFunctionOnSet(f, B)
<1> DEFINE Joins(s) == SumFunctionOnSet(f, A \cup s) = SumFunctionOnSet(f, A) + SumFunctionOnSet(f, s)
           Bad      == {s \in SUBSET B : ~ Joins(s)}
<1>0. SumFunctionOnSet(f, A) \in Int
  <2>1. \A x \in A : f[x] \in Int OBVIOUS
  <2> QED BY <2>1, SumInt
<1>1. Bad = {}
  <2> SUFFICES ASSUME Bad # {} PROVE FALSE OBVIOUS
  <2>1. PICK s \in Bad : IsFiniteSet(s) /\ \A x \in s : s \ {x} \notin Bad
    <3>1. Bad \subseteq SUBSET B OBVIOUS
    <3> HIDE DEF Bad
    <3> QED BY <3>1, MinimalSubset
  <2>2. s \subseteq B /\ ~ Joins(s) OBVIOUS
  <2>3. s # {}
    <3>1. A \cup {} = A OBVIOUS
    <3>2. Joins({}) BY <1>0, <3>1, SumEmpty
    <3> HIDE DEF Joins
    <3> QED BY <2>2, <3>2
  <2>4. PICK p \in s : TRUE BY <2>3
  <2> DEFINE t == s \ {p}
  <2>5. Joins(t) BY <2>1, <2>2, <2>4
  <2>6. f[p] \in Int BY <2>2
  <2>7. SumFunctionOnSet(f, s) = f[p] + SumFunctionOnSet(f, t)
    <3>1. \A x \in s : f[x] \in Int BY <2>2
    <3> QED BY <2>1, <3>1, SumPeel
  <2>8. SumFunctionOnSet(f, A \cup s) = f[p] + SumFunctionOnSet(f, A \cup t)
    <3> DEFINE u == A \cup s
    <3>1. IsFiniteSet(u) BY <2>1, FS_Union
    <3>2. \A x \in u : f[x] \in Int BY <2>2
    <3>3. p \in u /\ u \ {p} = A \cup t BY <2>2
    <3> HIDE DEF u
    <3>4. SumFunctionOnSet(f, u) = f[p] + SumFunctionOnSet(f, u \ {p}) BY <3>1, <3>2, <3>3, SumPeel
    <3> QED BY <3>3, <3>4 DEF u
  <2>9. SumFunctionOnSet(f, t) \in Int
    <3>1. IsFiniteSet(t) BY <2>1, FS_Subset
    <3>2. \A y \in t : f[y] \in Int BY <2>2
    <3> HIDE DEF t
    <3> QED BY <3>1, <3>2, SumInt
  <2> HIDE DEF t
  <2> QED BY <1>0, <2>2, <2>5, <2>6, <2>7, <2>8, <2>9
<1>2. B \in SUBSET B OBVIOUS
<1> QED BY <1>1, <1>2

(* Elements whose value is zero may be left out.                           *)
LEMMA SumSupport ==
    ASSUME NEW f, NEW S, NEW T, IsFiniteSet(T), S \subseteq T,
           \A x \in S : f[x] \in Int, \A x \in T \ S : f[x] = 0
    PROVE  SumFunctionOnSet(f, T) = SumFunctionOnSet(f, S)
<1> DEFINE rest == T \ S
<1>1. IsFiniteSet(S) /\ IsFiniteSet(rest) BY FS_Subset
<1>2. S \cap rest = {} /\ S \cup rest = T OBVIOUS
<1>3. SumFunctionOnSet(f, rest) = 0 BY <1>1, SumZero
<1>4. \A x \in S \cup rest : f[x] \in Int OBVIOUS
<1> HIDE DEF rest
<1>5. SumFunctionOnSet(f, S) \in Int BY <1>1, SumInt
<1>6. SumFunctionOnSet(f, S \cup rest) = SumFunctionOnSet(f, S) + SumFunctionOnSet(f, rest)
  BY <1>1, <1>2, <1>4, SumUnion
<1> QED BY <1>2, <1>3, <1>5, <1>6

-------------------------------------------------------------------------------
(* A set ordered by who is ahead of whom: every non-empty part has a last. *)
Ranking(S, ahead) ==
    /\ \A i \in S : ahead[i] \subseteq S /\ i \notin ahead[i]
    /\ \A i, j \in S : i = j \/ i \in ahead[j] \/ j \in ahead[i]
    /\ \A i, j, k \in S : i \in ahead[j] /\ j \in ahead[k] => i \in ahead[k]

LEMMA LastRanked ==
    ASSUME NEW S, IsFiniteSet(S), NEW ahead, Ranking(S, ahead)
    PROVE  \A T \in SUBSET S : T # {} => \E m \in T : \A c \in T : c = m \/ c \in ahead[m]
<1> DEFINE HasLast(s) == \E m \in s : \A c \in s : c = m \/ c \in ahead[m]
           Bad == {s \in SUBSET S : s # {} /\ ~ HasLast(s)}
<1>1. Bad = {}
  <2> SUFFICES ASSUME Bad # {} PROVE FALSE OBVIOUS
  <2>1. PICK s \in Bad : IsFiniteSet(s) /\ \A x \in s : s \ {x} \notin Bad
    <3>1. Bad \subseteq SUBSET S OBVIOUS
    <3> HIDE DEF Bad
    <3> QED BY <3>1, MinimalSubset
  <2>2. PICK x \in s : TRUE OBVIOUS
  <2>3. s \subseteq S OBVIOUS
  <2>4. CASE s = {x}
    <3>1. HasLast(s) BY <2>4
    <3> QED BY <3>1
  <2>5. CASE s # {x}
    <3>1. s \ {x} # {} /\ s \ {x} \in SUBSET S BY <2>2, <2>5
    <3>2. HasLast(s \ {x}) BY <2>1, <2>2, <3>1
    <3>3. PICK m \in s \ {x} : \A c \in s \ {x} : c = m \/ c \in ahead[m] BY <3>2
    <3>4. CASE x \in ahead[m]
      <4>1. HasLast(s) BY <3>3, <3>4
      <4> QED BY <4>1
    <3>5. CASE m \in ahead[x]
      <4>1. \A c \in s : c = x \/ c \in ahead[x] BY <2>3, <2>2, <3>3, <3>5 DEF Ranking
      <4>2. HasLast(s) BY <2>2, <4>1
      <4> QED BY <4>2
    <3> QED BY <2>2, <2>3, <3>3, <3>4, <3>5 DEF Ranking
  <2> QED BY <2>4, <2>5
<1> QED BY <1>1

(* As many elements have fewer than n ahead of them as n says.             *)
LEMMA RankedCount ==
    ASSUME NEW S, IsFiniteSet(S), NEW ahead, Ranking(S, ahead),
           NEW n \in Nat, n <= Cardinality(S)
    PROVE  Cardinality({i \in S : Cardinality(ahead[i]) < n}) = n
<1> DEFINE Rank(i, s)    == Cardinality(ahead[i] \cap s)
           Foremost(s, k) == {i \in s : Rank(i, s) < k}
           Counts(s) == \A k \in Nat : k <= Cardinality(s) => Cardinality(Foremost(s, k)) = k
           Bad       == {s \in SUBSET S : ~ Counts(s)}
<1>1. Bad = {}
  <2> SUFFICES ASSUME Bad # {} PROVE FALSE OBVIOUS
  <2>1. PICK s \in Bad : IsFiniteSet(s) /\ \A x \in s : s \ {x} \notin Bad
    <3>1. Bad \subseteq SUBSET S OBVIOUS
    <3> HIDE DEF Bad
    <3> QED BY <3>1, MinimalSubset
  <2>2. s \subseteq S /\ ~ Counts(s) OBVIOUS
  <2> HIDE DEF Counts, Bad, Foremost, Rank
  <2>3. s # {}
    <3> SUFFICES ASSUME s = {} PROVE FALSE OBVIOUS
    <3>1. Cardinality(s) = 0 BY FS_EmptySet
    <3>2. \A k \in Nat : Foremost(s, k) = {} BY DEF Foremost
    <3>3. \A k \in Nat : k <= 0 => k = 0 OBVIOUS
    <3>4. ASSUME NEW k \in Nat, k <= Cardinality(s) PROVE Cardinality(Foremost(s, k)) = k
      <4>1. Foremost(s, k) = {} BY <3>2
      <4>2. k = 0 BY <3>1, <3>3, <3>4
      <4> QED BY <4>1, <4>2, FS_EmptySet
    <3>5. Counts(s) BY <3>4 DEF Counts
    <3> QED BY <2>2, <3>5
  <2>4. PICK m \in s : \A c \in s : c = m \/ c \in ahead[m] BY <2>2, <2>3, LastRanked
  <2> DEFINE t == s \ {m}
  <2>5. Counts(t)
    <3>1. t \in SUBSET S /\ t \notin Bad BY <2>1, <2>2, <2>4
    <3> QED BY <3>1 DEF Bad
  <2>6. IsFiniteSet(t) /\ Cardinality(s) = Cardinality(t) + 1 /\ Cardinality(t) \in Nat
    <3>1. t \subseteq s OBVIOUS
    <3>2. IsFiniteSet(t) BY <2>1, <3>1, FS_Subset
    <3>3. Cardinality(t) = Cardinality(s) - 1 BY <2>1, <2>4, FS_RemoveElement
    <3>4. Cardinality(s) \in Nat /\ Cardinality(t) \in Nat BY <2>1, <3>2, FS_CardinalityType
    <3> HIDE DEF t
    <3> QED BY <3>2, <3>3, <3>4
  <2>7. Rank(m, s) = Cardinality(t)
    <3>1. ahead[m] \cap s = t BY <2>2, <2>4 DEF Ranking
    <3> QED BY <3>1 DEF Rank
  <2>8. \A i \in t : Rank(i, s) = Rank(i, t)
    <3>1. \A i \in t : m \notin ahead[i] BY <2>2, <2>4 DEF Ranking
    <3>2. \A i \in t : ahead[i] \cap s = ahead[i] \cap t BY <3>1
    <3> QED BY <3>2 DEF Rank
  <2>9. \A i \in t : Rank(i, t) \in Nat /\ Rank(i, t) <= Cardinality(t)
    <3>1. \A i \in t : ahead[i] \cap t \subseteq t OBVIOUS
    <3> HIDE DEF t
    <3> QED BY <2>6, <3>1, FS_Subset, FS_CardinalityType DEF Rank
  <2>10. s = t \cup {m} /\ m \notin t OBVIOUS
  <2> HIDE DEF t
  <2>11. ASSUME NEW k \in Nat, k <= Cardinality(s) PROVE Cardinality(Foremost(s, k)) = k
    <3>1. CASE k <= Cardinality(t)
      <4>1. ~ (Rank(m, s) < k) BY <2>6, <2>7, <3>1
      <4>2. Foremost(s, k) = Foremost(t, k) BY <2>8, <2>10, <4>1 DEF Foremost
      <4> QED BY <2>5, <3>1, <4>2 DEF Counts
    <3>2. CASE k = Cardinality(t) + 1
      <4>1. Rank(m, s) < k BY <2>6, <2>7, <3>2
      <4>2. ASSUME NEW i \in t PROVE Rank(i, s) < k
        <5>1. /\ Rank(i, s) = Rank(i, t) /\ Rank(i, t) \in Nat
              /\ Rank(i, t) <= Cardinality(t) /\ Cardinality(t) \in Nat
          BY <2>6, <2>8, <2>9
        <5> QED BY <5>1, <3>2
      <4>3. \A i \in s : Rank(i, s) < k BY <2>10, <4>1, <4>2
      <4>4. Foremost(s, k) = s BY <4>3 DEF Foremost
      <4> QED BY <2>6, <3>2, <4>4
    <3> QED BY <2>6, <2>11, <3>1, <3>2
  <2>12. Counts(s) BY <2>11 DEF Counts
  <2> QED BY <2>2, <2>12
<1>2. Counts(S)
  <2>1. S \in SUBSET S OBVIOUS
  <2> HIDE DEF Counts
  <2> QED BY <1>1, <2>1
<1>3. \A i \in S : ahead[i] \cap S = ahead[i] BY DEF Ranking
<1>4. Foremost(S, n) = {i \in S : Cardinality(ahead[i]) < n} BY <1>3
<1>5. Cardinality(Foremost(S, n)) = n BY <1>2
<1> HIDE DEF Foremost
<1> QED BY <1>4, <1>5

(* Largest remainder.  Floored parts and remainders account for the total; *)
(* the remainders add up to what is left times the sum of the weights, so  *)
(* no more is left than there are remainders, and only they get one more.  *)
LEMMA DivisionFacts ==
    ASSUME NEW x \in Nat, NEW d \in Nat, d > 0
    PROVE  /\ x \div d \in Nat /\ x % d \in Nat /\ x % d < d
           /\ x = d * (x \div d) + (x % d)
OBVIOUS

LEMMA Factor ==
    ASSUME NEW d \in Nat, d > 0, NEW a \in Int, NEW b \in Int
    PROVE  /\ d * a \in Int /\ a * d = d * a
           /\ d * a <= d * b => a <= b
           /\ 0 <= d * a => 0 <= a
           /\ d * (a - b) = d * a - d * b
           /\ (a + 1) * d = d * a + d
<1>1. d * a \in Int /\ a * d = d * a OBVIOUS
<1>2. a > b => d * a > d * b OBVIOUS
<1>3. a < 0 => d * a < 0 OBVIOUS
<1>4. d * (a - b) = d * a - d * b OBVIOUS
<1>5. (a + 1) * d = d * a + d OBVIOUS
<1>6. d * a \in Int /\ d * b \in Int OBVIOUS
<1>7. d * a <= d * b => a <= b BY <1>2, <1>6
<1>8. 0 <= d * a => 0 <= a BY <1>3, <1>6
<1> QED BY <1>1, <1>4, <1>5, <1>7, <1>8

LEMMA LargestRemainder ==
    ASSUME NEW total \in Nat, NEW S, IsFiniteSet(S), NEW w, \A i \in S : w[i] \in Nat,
           NEW sum \in Nat, sum > 0, sum = SumFunctionOnSet(w, S),
           NEW part, NEW frac,
           \A i \in S : /\ part[i] \in Nat /\ frac[i] \in Nat /\ frac[i] < sum
                        /\ total * w[i] = sum * part[i] + frac[i],
           NEW left, left = total - SumFunctionOnSet(part, S),
           NEW ahead, Ranking(S, ahead),
           \A i, j \in S : frac[j] > frac[i] => j \in ahead[i],
           NEW share,
           \A i \in S : share[i] = part[i] + IF Cardinality(ahead[i]) < left THEN 1 ELSE 0
    PROVE  /\ SumFunctionOnSet(share, S) = total
           /\ \A i \in S : /\ 0 - sum < share[i] * sum - total * w[i]
                           /\ share[i] * sum - total * w[i] < sum
<1>1. \A i \in S : /\ part[i] \in Nat /\ frac[i] \in Nat /\ frac[i] < sum
                   /\ total * w[i] = sum * part[i] + frac[i]
  OBVIOUS
<1>i. total \in Int /\ sum \in Int OBVIOUS
<1> DEFINE parts == SumFunctionOnSet(part, S)
           fracs == SumFunctionOnSet(frac, S)
<1>2. parts \in Nat /\ fracs \in Nat BY <1>1, SumNat
<1>3. fracs = sum * left
  <2> DEFINE exact  == [i \in S |-> total * w[i]]
             floors == [i \in S |-> sum * part[i]]
  <2>1. \A x \in S : w[x] \in Int /\ exact[x] = total * w[x] OBVIOUS
  <2>2. \A i \in S : part[i] \in Int /\ floors[i] = sum * part[i] BY <1>1
  <2>3. \A i \in S : floors[i] \in Int /\ frac[i] \in Int /\ exact[i] = floors[i] + frac[i] BY <1>1
  <2> HIDE DEF exact, floors
  <2>4. SumFunctionOnSet(exact, S) = total * sum BY <1>i, <2>1, SumScale
  <2>5. SumFunctionOnSet(floors, S) = sum * parts BY <1>i, <2>2, SumScale
  <2>6. SumFunctionOnSet(exact, S) = SumFunctionOnSet(floors, S) + fracs BY <2>3, SumPlus
  <2>7. left = total - parts OBVIOUS
  <2> HIDE DEF parts, fracs
  <2>8. sum * (total - parts) = sum * total - sum * parts BY <1>2, Factor
  <2>9. total * sum = sum * total BY Factor
  <2>10. sum * total \in Int /\ sum * parts \in Int BY <1>2, Factor
  <2> QED BY <1>2, <2>4, <2>5, <2>6, <2>7, <2>8, <2>9, <2>10
<1>4. left \in Int BY <1>2
<1> HIDE DEF parts, fracs
<1>5. left >= 0 BY <1>2, <1>3, <1>4, Factor
<1> DEFINE P == {i \in S : frac[i] > 0}
<1>6. IsFiniteSet(P) /\ Cardinality(P) \in Nat /\ Cardinality(P) <= Cardinality(S)
  BY FS_Subset, FS_CardinalityType
<1>7. left <= Cardinality(P)
  <2> DEFINE one  == [i \in S |-> IF frac[i] > 0 THEN 1 ELSE 0]
             most == [i \in S |-> sum * one[i]]
  <2>1. \A i \in S : one[i] \in {0, 1} OBVIOUS
  <2>2. {i \in S : one[i] = 1} = P OBVIOUS
  <2>3. \A i \in S : one[i] \in Int /\ most[i] = sum * one[i] OBVIOUS
  <2>4. \A i \in S : frac[i] \in Int /\ most[i] \in Int /\ frac[i] <= most[i]
    <3> SUFFICES ASSUME NEW i \in S PROVE frac[i] \in Int /\ most[i] \in Int /\ frac[i] <= most[i]
      OBVIOUS
    <3>1. CASE frac[i] > 0
      <4>1. most[i] = sum * 1 BY <3>1
      <4> QED BY <1>1, <4>1
    <3>2. CASE ~ (frac[i] > 0)
      <4>1. most[i] = sum * 0 BY <3>2
      <4> QED BY <1>1, <3>2, <4>1
    <3> QED BY <3>1, <3>2
  <2> HIDE DEF one, most, P
  <2>5. SumFunctionOnSet(one, S) = Cardinality(P) BY <2>1, <2>2, SumCount
  <2>6. SumFunctionOnSet(most, S) = sum * Cardinality(P) BY <1>i, <2>3, <2>5, SumScale
  <2>7. fracs <= SumFunctionOnSet(most, S) BY <2>4, SumMonotone DEF fracs
  <2>8. sum * left <= sum * Cardinality(P) BY <1>3, <2>6, <2>7
  <2> QED BY <1>4, <1>6, <2>8, Factor
<1>8. Ranking(S, ahead) OBVIOUS
<1> DEFINE E     == {i \in S : Cardinality(ahead[i]) < left}
           bonus == [i \in S |-> IF i \in E THEN 1 ELSE 0]
<1>9. Cardinality(E) = left
  <2>1. left \in Nat BY <1>4, <1>5
  <2>2. Cardinality(S) \in Nat BY FS_CardinalityType
  <2>3. left <= Cardinality(S) BY <1>6, <1>7, <2>1, <2>2
  <2> QED BY <1>8, <2>1, <2>3, RankedCount
<1>10. SumFunctionOnSet(bonus, S) = left
  <2>1. \A i \in S : bonus[i] \in {0, 1} OBVIOUS
  <2>2. {i \in S : bonus[i] = 1} = E OBVIOUS
  <2> HIDE DEF bonus, E
  <2> QED BY <1>9, <2>1, <2>2, SumCount
<1>11. SumFunctionOnSet(share, S) = total
  <2>1. \A i \in S : part[i] \in Int /\ bonus[i] \in Int /\ share[i] = part[i] + bonus[i] BY <1>1
  <2> HIDE DEF bonus
  <2>2. SumFunctionOnSet(share, S) = parts + left BY <1>10, <2>1, SumPlus DEF parts
  <2>3. left = total - parts BY DEF parts
  <2> QED BY <1>2, <2>2, <2>3
<1>12. ASSUME NEW i \in S PROVE /\ -sum < share[i] * sum - total * w[i]
                               /\ share[i] * sum - total * w[i] < sum
  <2>0. PICK a, f, x : a = part[i] /\ f = frac[i] /\ x = total * w[i] OBVIOUS
  <2>1. a \in Nat /\ f \in Nat /\ f < sum /\ x = sum * a + f BY <1>1, <2>0
  <2>2. CASE Cardinality(ahead[i]) < left
    <3>1. f > 0
      <4> SUFFICES ASSUME f = 0 PROVE FALSE BY <2>1
      <4>1. P \subseteq ahead[i] BY <1>1, <2>0
      <4>2. IsFiniteSet(ahead[i]) BY <1>8, FS_Subset DEF Ranking
      <4>3. Cardinality(P) <= Cardinality(ahead[i]) /\ Cardinality(ahead[i]) \in Nat
        BY <4>1, <4>2, FS_Subset, FS_CardinalityType
      <4> QED BY <1>4, <1>6, <1>7, <2>2, <4>3
    <3>2. share[i] = a + 1 BY <2>0, <2>2
    <3>3. (a + 1) * sum = sum * a + sum /\ sum * a \in Int BY <2>1, Factor
    <3>4. share[i] * sum - x = sum - f BY <2>1, <3>2, <3>3
    <3> QED BY <2>0, <2>1, <3>1, <3>4
  <2>3. CASE ~ (Cardinality(ahead[i]) < left)
    <3>1. share[i] = a BY <2>0, <2>1, <2>3
    <3>2. a * sum = sum * a /\ sum * a \in Int BY <2>1, Factor
    <3>3. share[i] * sum - x = 0 - f BY <2>1, <3>1, <3>2
    <3> QED BY <2>0, <2>1, <3>3
  <2> QED BY <2>2, <2>3
<1> QED BY <1>11, <1>12
===============================================================================
