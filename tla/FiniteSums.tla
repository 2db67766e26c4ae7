------------------------------ MODULE FiniteSums -------------------------------
(***************************************************************************)
(* Sums over finite sets: Total(f, S) is the sum of f[x] over x \in S.     *)
(* Before them, what the proofs use of finite sets beyond the library.     *)
(*                                                                         *)
(* The theorems are proved by smallest counterexample on the subsets of a  *)
(* finite set: an induction theorem takes an operator as a parameter.      *)
(***************************************************************************)
EXTENDS Integers, FiniteSetTheorems, TLAPS

\* A surjection carries finiteness over.
LEMMA FiniteImage ==
  ASSUME NEW S, IsFiniteSet(S), NEW h
  PROVE  IsFiniteSet({h[x] : x \in S})
<1> DEFINE T == {h[x] : x \in S}
<1>1. [x \in S |-> h[x]] \in Surjection(S, T)
  BY DEF Surjection
<1> QED BY <1>1, FS_Surjection

\* Induction on finite sets: a family of subsets of a finite set, if it is not
\* empty, has a member none of whose proper subsets belongs to it.
LEMMA MinimalSubset ==
  ASSUME NEW S, IsFiniteSet(S), NEW F \in SUBSET SUBSET S, F /= {}
  PROVE  \E T \in F : \A U \in F : U \subseteq T => U = T
<1>1. IsWellFoundedOn(StrictSubsetOrdering(S), SUBSET S)
  BY FS_FiniteSubsetsOfFinite, FS_StrictSubsetOrderingWellFounded
<1>2. PICK T \in F : \A U \in F : <<U, T>> \notin StrictSubsetOrdering(S)
  BY <1>1, WFMin
<1>3. \A U \in F : U \subseteq T => U = T
  BY <1>2 DEF StrictSubsetOrdering
<1> QED BY <1>3

\* A non-empty set of numbers up to n has a greatest.
LEMMA Greatest ==
  ASSUME NEW n \in Nat, NEW S \in SUBSET (1..n), S /= {}
  PROVE  \E x \in S : \A y \in S : y <= x
<1> DEFINE T == {n - x : x \in S}
           R == OpToRel(<, Nat)
<1>1. \A x \in S : x \in Int /\ x <= n
  OBVIOUS
<1>2. T \subseteq Nat
  BY <1>1
<1>3. T /= {} /\ \A x \in S : n - x \in T
  OBVIOUS
<1>4. \A t \in T : \E x \in S : t = n - x
  OBVIOUS
<1>5. \A i, j \in Nat : i < j => <<i, j>> \in R
  BY DEF OpToRel
<1>6. IsWellFoundedOn(R, Nat)
  BY NatLessThanWellFounded
<1> HIDE DEF R, T
<1>7. PICK t \in T : \A u \in T : ~(<<u, t>> \in R)
  BY <1>2, <1>3, <1>6, WFMin
<1>8. PICK x \in S : t = n - x
  BY <1>4
<1>9. ASSUME NEW y \in S PROVE y <= x
  <2>1. n - y \in T /\ n - y \in Nat /\ n - x \in Nat
    BY <1>1, <1>2, <1>3, <1>8
  <2>2. ~(n - y < n - x)
    BY <2>1, <1>5, <1>7, <1>8
  <2> QED BY <1>1, <2>1, <2>2
<1> QED BY <1>9

\* The partial sums of f over the subsets of S, as the fold computes them.
First(s) == CHOOSE x \in s : TRUE
PartialSums(g, f, S) ==
  g = [s \in SUBSET S |-> IF s = {} THEN 0 ELSE f[First(s)] + g[s \ {First(s)}]]
Total(f, S) == (CHOOSE g : PartialSums(g, f, S))[S]

LEMMA FirstIn == \A s : s /= {} => First(s) \in s
  BY DEF First

LEMMA PartialSumsAgree ==
  ASSUME NEW f, NEW S, NEW T, IsFiniteSet(S), T \subseteq S, NEW g, NEW h,
         PartialSums(g, f, S), PartialSums(h, f, T)
  PROVE  \A s \in SUBSET T : g[s] = h[s]
<1> DEFINE F == {s \in SUBSET T : g[s] /= h[s]}
<1>1. SUFFICES ASSUME F /= {} PROVE FALSE
  OBVIOUS
<1>2. PICK s \in F : \A u \in F : u \subseteq s => u = s
  <2>1. F \in SUBSET SUBSET S
    OBVIOUS
  <2> HIDE DEF F
  <2> QED BY <1>1, <2>1, MinimalSubset
<1>3. s \in SUBSET T /\ s \in SUBSET S /\ g[s] /= h[s]
  BY <1>2
<1>4. g[s] = IF s = {} THEN 0 ELSE f[First(s)] + g[s \ {First(s)}]
  BY <1>3 DEF PartialSums
<1>5. h[s] = IF s = {} THEN 0 ELSE f[First(s)] + h[s \ {First(s)}]
  BY <1>3 DEF PartialSums
<1>6. s /= {} => g[s \ {First(s)}] = h[s \ {First(s)}]
  BY <1>2, <1>3, FirstIn
<1> QED BY <1>3, <1>4, <1>5, <1>6

LEMMA PartialSumsExist ==
  ASSUME NEW f, NEW S, IsFiniteSet(S)
  PROVE  \E g : PartialSums(g, f, S)
<1> DEFINE F == {s \in SUBSET S : ~\E g : PartialSums(g, f, s)}
<1>1. SUFFICES ASSUME F /= {} PROVE FALSE
  <2>1. S \in SUBSET S
    OBVIOUS
  <2> QED BY <2>1
<1>2. PICK s \in F : \A u \in F : u \subseteq s => u = s
  <2>1. F \in SUBSET SUBSET S
    OBVIOUS
  <2> HIDE DEF F
  <2> QED BY <1>1, <2>1, MinimalSubset
<1> DEFINE G(u) == CHOOSE g : PartialSums(g, f, u)
<1>3. s \in SUBSET S /\ ~\E g : PartialSums(g, f, s)
  BY <1>2
<1>4. \A u \in SUBSET s : u /= s => PartialSums(G(u), f, u)
  BY <1>2, <1>3
<1> DEFINE V(u) == IF u = {} THEN 0 ELSE f[First(u)] + G(u \ {First(u)})[u \ {First(u)}]
<1> DEFINE g == [u \in SUBSET s |-> V(u)]
<1> HIDE DEF F, G
<1>5. ASSUME NEW u \in SUBSET s, u /= {} PROVE g[u \ {First(u)}] = G(u \ {First(u)})[u \ {First(u)}]
  <2> DEFINE w == u \ {First(u)}
  <2>1. w \in SUBSET s /\ w /= s /\ w \subseteq u
    BY <1>5, FirstIn
  <2>2. g[w] = V(w)
    BY <2>1
  <2>3. PartialSums(G(w), f, w) /\ w \in SUBSET w
    BY <1>4, <2>1
  <2>4. G(w)[w] = IF w = {} THEN 0 ELSE f[First(w)] + G(w)[w \ {First(w)}]
    BY <2>3 DEF PartialSums
  <2>5. ASSUME w /= {} PROVE G(w)[w \ {First(w)}] = G(w \ {First(w)})[w \ {First(w)}]
    <3> DEFINE x == w \ {First(w)}
    <3>1. x \subseteq w /\ x \in SUBSET s /\ x /= s /\ x \in SUBSET x
      BY <2>1, <2>5, FirstIn
    <3>2. PartialSums(G(x), f, x)
      BY <1>4, <3>1
    <3>3. IsFiniteSet(w)
      BY <1>3, <2>1, FS_Subset
    <3> HIDE DEF x, w
    <3>4. G(w)[x] = G(x)[x]
      BY <2>3, <3>1, <3>2, <3>3, PartialSumsAgree
    <3> QED BY <3>4 DEF x
  <2>6. V(w) = IF w = {} THEN 0 ELSE f[First(w)] + G(w \ {First(w)})[w \ {First(w)}]
    OBVIOUS
  <2> HIDE DEF w, V, g
  <2>7. g[w] = G(w)[w]
    BY <2>2, <2>4, <2>5, <2>6
  <2> QED BY <2>7 DEF w
<1>6. PartialSums(g, f, s)
  BY <1>5 DEF PartialSums
<1> QED BY <1>3, <1>6

LEMMA PartialSumsGiveTotal ==
  ASSUME NEW f, NEW S, IsFiniteSet(S), NEW g, PartialSums(g, f, S), NEW T \in SUBSET S
  PROVE  g[T] = Total(f, T)
<1>1. IsFiniteSet(T)
  BY FS_Subset
<1>2. PartialSums(CHOOSE h : PartialSums(h, f, T), f, T)
  BY <1>1, PartialSumsExist
<1> QED BY <1>2, PartialSumsAgree DEF Total

LEMMA TotalSteps ==
  ASSUME NEW f, NEW S, IsFiniteSet(S)
  PROVE  Total(f, S) = IF S = {} THEN 0 ELSE f[First(S)] + Total(f, S \ {First(S)})
<1>1. PICK g : PartialSums(g, f, S)
  BY PartialSumsExist
<1>2. S \in SUBSET S /\ S \ {First(S)} \in SUBSET S
  OBVIOUS
<1>3. g[S] = IF S = {} THEN 0 ELSE f[First(S)] + g[S \ {First(S)}]
  BY <1>1, <1>2 DEF PartialSums
<1>4. g[S] = Total(f, S) /\ g[S \ {First(S)}] = Total(f, S \ {First(S)})
  BY ZenonT(30), <1>1, <1>2, PartialSumsGiveTotal
<1> QED BY <1>3, <1>4

LEMMA TotalOfNone == \A f : Total(f, {}) = 0
  BY TotalSteps, FS_EmptySet

LEMMA TotalInt ==
  ASSUME NEW f, NEW S, IsFiniteSet(S), \A x \in S : f[x] \in Int
  PROVE  Total(f, S) \in Int
<1> DEFINE F == {s \in SUBSET S : Total(f, s) \notin Int}
<1>1. SUFFICES ASSUME F /= {} PROVE FALSE
  <2>1. S \in SUBSET S
    OBVIOUS
  <2> QED BY <2>1
<1>2. PICK s \in F : \A u \in F : u \subseteq s => u = s
  <2>1. F \in SUBSET SUBSET S
    OBVIOUS
  <2> HIDE DEF F
  <2> QED BY <1>1, <2>1, MinimalSubset
<1>3. s \in SUBSET S /\ Total(f, s) \notin Int /\ IsFiniteSet(s)
  BY <1>2, FS_Subset
<1>4. s /= {} => Total(f, s \ {First(s)}) \in Int /\ f[First(s)] \in Int
  BY <1>2, <1>3, FirstIn
<1> QED BY SMTT(30), <1>3, <1>4, TotalSteps

LEMMA TotalOfZeros ==
  ASSUME NEW f, NEW S, IsFiniteSet(S), \A x \in S : f[x] = 0
  PROVE  Total(f, S) = 0
<1> DEFINE F == {s \in SUBSET S : Total(f, s) /= 0}
<1>1. SUFFICES ASSUME F /= {} PROVE FALSE
  <2>1. S \in SUBSET S
    OBVIOUS
  <2> QED BY <2>1
<1>2. PICK s \in F : \A u \in F : u \subseteq s => u = s
  <2>1. F \in SUBSET SUBSET S
    OBVIOUS
  <2> HIDE DEF F
  <2> QED BY <1>1, <2>1, MinimalSubset
<1>3. s \in SUBSET S /\ Total(f, s) /= 0 /\ IsFiniteSet(s)
  BY <1>2, FS_Subset
<1>4. s /= {} => Total(f, s \ {First(s)}) = 0 /\ f[First(s)] = 0
  BY <1>2, <1>3, FirstIn
<1> QED BY <1>3, <1>4, TotalSteps

\* The order of the summands does not matter.
LEMMA TotalRemove ==
  ASSUME NEW f, NEW S, IsFiniteSet(S), \A x \in S : f[x] \in Int, NEW x \in S
  PROVE  Total(f, S) = f[x] + Total(f, S \ {x})
<1> DEFINE F == {s \in SUBSET S : \E y \in s : Total(f, s) /= f[y] + Total(f, s \ {y})}
<1>1. SUFFICES ASSUME F /= {} PROVE FALSE
  <2>1. S \in SUBSET S
    OBVIOUS
  <2> QED BY <2>1
<1>2. PICK s \in F : \A u \in F : u \subseteq s => u = s
  <2>1. F \in SUBSET SUBSET S
    OBVIOUS
  <2> HIDE DEF F
  <2> QED BY <1>1, <2>1, MinimalSubset
<1>3. PICK y \in s : Total(f, s) /= f[y] + Total(f, s \ {y})
  BY <1>2
<1>4. s \in SUBSET S /\ IsFiniteSet(s)
  BY <1>2, FS_Subset
<1> DEFINE c == First(s)
<1>5. c \in s
  BY <1>3, FirstIn
<1>6. Total(f, s) = f[c] + Total(f, s \ {c})
  BY <1>3, <1>4, TotalSteps
<1>7. c /= y
  BY <1>3, <1>6
<1> HIDE DEF c
<1>8. \A u \in SUBSET s : u /= s => \A z \in u : Total(f, u) = f[z] + Total(f, u \ {z})
  BY <1>2, <1>4
<1>9. /\ Total(f, s \ {c}) = f[y] + Total(f, (s \ {c}) \ {y})
      /\ Total(f, s \ {y}) = f[c] + Total(f, (s \ {y}) \ {c})
  BY <1>5, <1>7, <1>8
<1>10. (s \ {c}) \ {y} = (s \ {y}) \ {c}
  OBVIOUS
<1>11. f[c] \in Int /\ f[y] \in Int /\ Total(f, (s \ {y}) \ {c}) \in Int
  <2>1. IsFiniteSet((s \ {y}) \ {c})
    BY <1>4, FS_Subset
  <2> QED BY <1>4, <1>5, <2>1, TotalInt
<1>12. Total(f, s) = f[c] + (f[y] + Total(f, (s \ {y}) \ {c}))
  BY <1>6, <1>9, <1>10
<1>13. f[y] + Total(f, s \ {y}) = f[y] + (f[c] + Total(f, (s \ {y}) \ {c}))
  BY <1>9
<1> HIDE DEF F
<1> QED BY <1>3, <1>11, <1>12, <1>13

LEMMA TotalAdd ==
  ASSUME NEW f, NEW S, IsFiniteSet(S), NEW x, x \notin S,
         \A y \in S \cup {x} : f[y] \in Int
  PROVE  Total(f, S \cup {x}) = f[x] + Total(f, S)
<1>1. IsFiniteSet(S \cup {x}) /\ (S \cup {x}) \ {x} = S
  BY FS_AddElement
<1> QED BY <1>1, TotalRemove

\* Functions that agree on a set have the same total over it.
LEMMA TotalAgree ==
  ASSUME NEW f, NEW g, NEW S, IsFiniteSet(S), \A x \in S : f[x] = g[x]
  PROVE  Total(f, S) = Total(g, S)
<1> DEFINE F == {s \in SUBSET S : Total(f, s) /= Total(g, s)}
<1>1. SUFFICES ASSUME F /= {} PROVE FALSE
  <2>1. S \in SUBSET S
    OBVIOUS
  <2> QED BY <2>1
<1>2. PICK s \in F : \A u \in F : u \subseteq s => u = s
  <2>1. F \in SUBSET SUBSET S
    OBVIOUS
  <2> HIDE DEF F
  <2> QED BY <1>1, <2>1, MinimalSubset
<1>3. s \in SUBSET S /\ IsFiniteSet(s) /\ Total(f, s) /= Total(g, s)
  BY <1>2, FS_Subset
<1>4. s /= {} => /\ f[First(s)] = g[First(s)]
                 /\ Total(f, s \ {First(s)}) = Total(g, s \ {First(s)})
  BY <1>2, <1>3, FirstIn
<1> QED BY SMTT(30), <1>3, <1>4, TotalSteps

\* Taking away summands of which none is negative does not increase the total.
LEMMA TotalMonotone ==
  ASSUME NEW f, NEW S, IsFiniteSet(S), \A x \in S : f[x] \in Int,
         NEW T \in SUBSET S, \A x \in S \ T : f[x] >= 0
  PROVE  Total(f, T) <= Total(f, S)
<1> DEFINE F == {s \in SUBSET S : T \subseteq s /\ ~(Total(f, T) <= Total(f, s))}
<1>1. SUFFICES ASSUME F /= {} PROVE FALSE
  <2>1. S \in SUBSET S
    OBVIOUS
  <2> QED BY <2>1
<1>2. PICK s \in F : \A u \in F : u \subseteq s => u = s
  <2>1. F \in SUBSET SUBSET S
    OBVIOUS
  <2> HIDE DEF F
  <2> QED BY <1>1, <2>1, MinimalSubset
<1>3. s \in SUBSET S /\ IsFiniteSet(s) /\ T \subseteq s /\ ~(Total(f, T) <= Total(f, s))
  BY <1>2, FS_Subset
<1>4. Total(f, T) \in Int /\ IsFiniteSet(T)
  BY FS_Subset, TotalInt
<1>5. PICK x \in s : x \notin T
  <2>1. s /= T
    BY <1>3, <1>4
  <2> QED BY <1>3, <2>1
<1>6. /\ Total(f, s) = f[x] + Total(f, s \ {x})
      /\ f[x] \in Int /\ f[x] >= 0
  BY <1>3, <1>5, TotalRemove
<1>7. Total(f, T) <= Total(f, s \ {x})
  BY <1>2, <1>3, <1>5
<1>8. Total(f, s \ {x}) \in Int
  <2>1. IsFiniteSet(s \ {x})
    BY <1>3, FS_Subset
  <2> QED BY <1>3, <2>1, TotalInt
<1> HIDE DEF F
<1> QED BY <1>3, <1>4, <1>6, <1>7, <1>8

\* Renaming the summands does not change the total.
LEMMA TotalImage ==
  ASSUME NEW f, NEW g, NEW h, NEW S, IsFiniteSet(S), \A x \in S : g[x] \in Int /\ f[h[x]] = g[x],
         \A x, y \in S : h[x] = h[y] => x = y
  PROVE  Total(f, {h[x] : x \in S}) = Total(g, S)
<1> DEFINE I(s) == {h[x] : x \in s}
           F == {s \in SUBSET S : Total(f, I(s)) /= Total(g, s)}
<1>1. SUFFICES ASSUME F /= {} PROVE FALSE
  <2>1. S \in SUBSET S
    OBVIOUS
  <2> QED BY <2>1
<1>2. PICK s \in F : \A u \in F : u \subseteq s => u = s
  <2>1. F \in SUBSET SUBSET S
    OBVIOUS
  <2> HIDE DEF F
  <2> QED BY <1>1, <2>1, MinimalSubset
<1>3. s \in SUBSET S /\ IsFiniteSet(s) /\ Total(f, I(s)) /= Total(g, s)
  BY <1>2, FS_Subset
<1>4. PICK x \in s : TRUE
  <2>1. s /= {}
    BY <1>3, TotalOfNone
  <2> QED BY <2>1
<1> DEFINE u == s \ {x}
<1>5. Total(f, I(u)) = Total(g, u)
  BY <1>2, <1>3, <1>4
<1>6. Total(g, s) = g[x] + Total(g, u)
  BY <1>3, <1>4, TotalRemove
<1>7. Total(f, I(s)) = f[h[x]] + Total(f, I(u))
  <2>1. IsFiniteSet(I(u))
    <3>1. IsFiniteSet(u)
      BY <1>3, FS_Subset
    <3> QED BY <3>1, FiniteImage
  <2>2. h[x] \notin I(u) /\ I(s) = I(u) \cup {h[x]}
    BY <1>3, <1>4
  <2>3. \A y \in I(u) \cup {h[x]} : f[y] \in Int
    BY <1>3, <1>4
  <2> HIDE DEF I
  <2> QED BY <2>1, <2>2, <2>3, TotalAdd
<1> HIDE DEF F, I, u
<1> QED BY <1>3, <1>4, <1>5, <1>6, <1>7

\* Adding n to one value adds n to the total.
LEMMA TotalBump ==
  ASSUME NEW S, IsFiniteSet(S), NEW f \in [S -> Int], NEW g \in [S -> Int],
         NEW x \in S, NEW n \in Int, g[x] = f[x] + n, \A y \in S \ {x} : g[y] = f[y]
  PROVE  Total(g, S) = Total(f, S) + n
<1> DEFINE T == S \ {x}
<1>1. IsFiniteSet(T)
  BY FS_RemoveElement
<1>2. Total(g, T) = Total(f, T)
  BY <1>1, TotalAgree
<1>3. Total(g, S) = g[x] + Total(g, T) /\ Total(f, S) = f[x] + Total(f, T)
  BY TotalRemove
<1>4. Total(f, T) \in Int /\ f[x] \in Int
  BY <1>1, TotalInt
<1> HIDE DEF T
<1> QED BY <1>2, <1>3, <1>4
=============================================================================
