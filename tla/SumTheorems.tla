---------------------------- MODULE SumTheorems ----------------------------
(***************************************************************************)
(* What the proofs about amounts need of sums over finite sets, and of the *)
(* ranks a strict order gives the members of one.  Induction is stated for *)
(* the set of values an assertion holds of: the provers take no predicate  *)
(* as a parameter.                                                         *)
(***************************************************************************)
EXTENDS Integers, FiniteSets, Functions, FiniteSetTheorems, WellFoundedInduction, TLAPS

\* A set that holds 0 and with every number its successor holds all numbers.
LEMMA NatInSet ==
  ASSUME NEW C, 0 \in C, \A n \in Nat : n \in C => n + 1 \in C
  PROVE  Nat \subseteq C
<1> SUFFICES ASSUME ~(Nat \subseteq C) PROVE FALSE
  OBVIOUS
<1> DEFINE T == Nat \ C
<1>1. PICK m \in T : \A k \in T : <<k, m>> \notin OpToRel(<, Nat)
  BY NatLessThanWellFounded, WFMin, T \subseteq Nat, T # {}
<1>2. m \in Nat /\ m # 0 /\ m - 1 \in Nat
  OBVIOUS
<1>3. <<m - 1, m>> \in OpToRel(<, Nat)
  BY <1>2 DEF OpToRel
<1>4. m - 1 \in C
  BY <1>1, <1>2, <1>3
<1> QED
  BY <1>2, <1>4

\* A family of subsets of X that holds the empty set and stays the same family
\* when an element is added holds X.
LEMMA SubsetsInFamily ==
  ASSUME NEW X, IsFiniteSet(X), NEW C, {} \in C,
         \A s \in SUBSET X : \A x \in X \ s : s \in C => s \cup {x} \in C
  PROVE  X \in C
<1> DEFINE N == {n \in Nat : \A s \in SUBSET X : Cardinality(s) = n => s \in C}
<1>0. \A s \in SUBSET X : IsFiniteSet(s) /\ Cardinality(s) \in Nat
  BY FS_Subset, FS_CardinalityType
<1>1. 0 \in N
  BY <1>0, FS_EmptySet
<1>2. ASSUME NEW n \in Nat, n \in N PROVE n + 1 \in N
  <2> SUFFICES ASSUME NEW s \in SUBSET X, Cardinality(s) = n + 1 PROVE s \in C
    OBVIOUS
  <2>1. s # {}
    BY <1>0, FS_EmptySet
  <2>2. PICK x \in s : TRUE
    BY <2>1
  <2>3. Cardinality(s \ {x}) = n
    <3>1. IsFiniteSet(s)
      BY <1>0
    <3>2. Cardinality(s \ {x}) = Cardinality(s) - 1
      BY <3>1, FS_RemoveElement
    <3> QED
      BY <3>2
  <2>4. s \ {x} \in SUBSET X /\ s \ {x} \in C
    BY <1>2, <2>3
  <2>5. (s \ {x}) \cup {x} = s /\ x \in X \ (s \ {x})
    OBVIOUS
  <2> QED
    BY <2>4, <2>5
<1>3. Nat \subseteq N
  BY <1>1, <1>2, NatInSet
<1> QED
  BY <1>0, <1>3

-----------------------------------------------------------------------------
(* The recursion behind SumFunctionOnSet.                                   *)

Chosen(s) == CHOOSE x \in s : TRUE
Step(f, g, s) == IF s = {} THEN 0 ELSE f[Chosen(s)] + g[s \ {Chosen(s)}]
Sums(f, S, g) == g = [s \in SUBSET S |-> Step(f, g, s)]

LEMMA ChosenIn ==
  ASSUME NEW s, s # {}
  PROVE  Chosen(s) \in s
  BY DEF Chosen

LEMMA Smaller ==
  ASSUME NEW S, IsFiniteSet(S), NEW s \in SUBSET S, s # {}
  PROVE  /\ s \ {Chosen(s)} \in SUBSET S
         /\ Cardinality(s) \in Nat /\ Cardinality(s \ {Chosen(s)}) = Cardinality(s) - 1
<1>1. IsFiniteSet(s) /\ Chosen(s) \in s
  BY FS_Subset, ChosenIn
<1> QED
  BY <1>1, FS_CardinalityType, FS_RemoveElement

LEMMA SumsExist ==
  ASSUME NEW f, NEW S, IsFiniteSet(S)
  PROVE  \E g : Sums(f, S, g)
<1> DEFINE Upto(g, n) == /\ g = [s \in SUBSET S |-> g[s]]
                         /\ \A s \in SUBSET S : Cardinality(s) <= n => g[s] = Step(f, g, s)
           N == {n \in Nat : \E g : Upto(g, n)}
<1>0. \A s \in SUBSET S : IsFiniteSet(s) /\ Cardinality(s) \in Nat
  BY FS_Subset, FS_CardinalityType
<1>1. 0 \in N
  <2> DEFINE g == [s \in SUBSET S |-> 0]
  <2>1. \A s \in SUBSET S : Cardinality(s) <= 0 => s = {}
    BY <1>0, FS_EmptySet
  <2>2. Upto(g, 0)
    BY <2>1 DEF Step
  <2> QED
    BY <2>2
<1>2. ASSUME NEW n \in Nat, n \in N PROVE n + 1 \in N
  <2>1. PICK g : Upto(g, n)
    BY <1>2
  <2> DEFINE h == [s \in SUBSET S |-> IF Cardinality(s) <= n THEN g[s] ELSE Step(f, g, s)]
  <2>2. ASSUME NEW s \in SUBSET S, Cardinality(s) <= n + 1
        PROVE  h[s] = Step(f, g, s) /\ Step(f, h, s) = Step(f, g, s)
    <3>1. h[s] = Step(f, g, s)
      BY <2>1
    <3>2. CASE s = {}
      BY <3>1, <3>2 DEF Step
    <3>3. CASE s # {}
      <4>1. /\ s \ {Chosen(s)} \in SUBSET S
            /\ Cardinality(s \ {Chosen(s)}) <= n
        BY <2>2, <3>3, Smaller
      <4>2. h[s \ {Chosen(s)}] = g[s \ {Chosen(s)}]
        BY <4>1
      <4> QED
        BY <3>1, <3>3, <4>2 DEF Step
    <3> QED
      BY <3>2, <3>3
  <2>3. Upto(h, n + 1)
    BY <2>2
  <2>4. \E k : Upto(k, n + 1)
    <3> HIDE DEF h, Upto
    <3> QED BY <2>3
  <2> HIDE DEF h, Upto
  <2> QED
    BY <2>4
<1>3. Cardinality(S) \in N
  BY <1>0, <1>1, <1>2, NatInSet
<1>4. PICK g : Upto(g, Cardinality(S))
  BY <1>3
<1>5. \A s \in SUBSET S : Cardinality(s) <= Cardinality(S)
  BY FS_Subset
<1> QED
  BY <1>4, <1>5 DEF Sums

LEMMA SumsUnique ==
  ASSUME NEW f, NEW S, IsFiniteSet(S), NEW T \in SUBSET S, NEW g, NEW h,
         Sums(f, S, g), Sums(f, T, h)
  PROVE  g[T] = h[T]
<1> DEFINE N == {n \in Nat : \A s \in SUBSET T : Cardinality(s) = n => g[s] = h[s]}
<1>0. \A s \in SUBSET T : s \in SUBSET S /\ IsFiniteSet(s) /\ Cardinality(s) \in Nat
  BY FS_Subset, FS_CardinalityType
<1>1. \A s \in SUBSET T : g[s] = Step(f, g, s) /\ h[s] = Step(f, h, s)
  BY <1>0 DEF Sums
<1>2. 0 \in N
  BY <1>0, <1>1, FS_EmptySet DEF Step
<1>3. ASSUME NEW n \in Nat, n \in N PROVE n + 1 \in N
  <2> SUFFICES ASSUME NEW s \in SUBSET T, Cardinality(s) = n + 1 PROVE g[s] = h[s]
    OBVIOUS
  <2>1. s # {}
    BY FS_EmptySet
  <2>2. s \ {Chosen(s)} \in SUBSET T /\ Cardinality(s \ {Chosen(s)}) = n
    BY <1>0, <2>1, Smaller
  <2> QED
    BY <1>1, <1>3, <2>1, <2>2 DEF Step
<1>4. Nat \subseteq N
  BY <1>2, <1>3, NatInSet
<1> QED
  BY <1>0, <1>4

LEMMA SumIsSums ==
  ASSUME NEW f, NEW S, IsFiniteSet(S)
  PROVE  \E g : Sums(f, S, g) /\ \A T \in SUBSET S : SumFunctionOnSet(f, T) = g[T]
<1>1. ASSUME NEW T, IsFiniteSet(T)
      PROVE  \E h : Sums(f, T, h) /\ SumFunctionOnSet(f, T) = h[T]
  <2> DEFINE h == CHOOSE h : h = [s \in SUBSET T |->
                    IF s = {} THEN 0
                    ELSE f[CHOOSE x \in s : TRUE] + h[s \ {CHOOSE x \in s : TRUE}]]
  <2>1. SumFunctionOnSet(f, T) = h[T]
    BY DEF SumFunctionOnSet, FoldFunctionOnSet, MapThenFoldSet
  <2>2. \E k : k = [s \in SUBSET T |->
                    IF s = {} THEN 0
                    ELSE f[CHOOSE x \in s : TRUE] + k[s \ {CHOOSE x \in s : TRUE}]]
    <3>1. PICK k : Sums(f, T, k)
      BY <1>1, SumsExist
    <3> QED
      BY <3>1 DEF Sums, Step, Chosen
  <2>3. Sums(f, T, h)
    BY <2>2 DEF Sums, Step, Chosen
  <2> HIDE DEF h
  <2> QED
    BY <2>1, <2>3
<1>2. PICK g : Sums(f, S, g)
  BY SumsExist
<1>3. ASSUME NEW T \in SUBSET S PROVE SumFunctionOnSet(f, T) = g[T]
  <2>1. PICK h : Sums(f, T, h) /\ SumFunctionOnSet(f, T) = h[T]
    BY <1>1, FS_Subset
  <2> QED
    BY <1>2, <2>1, SumsUnique
<1> QED
  BY <1>2, <1>3
-----------------------------------------------------------------------------
(* Sums of integers.                                                        *)

\* A sum takes one element after the other; nothing sums up to zero.
LEMMA SumTakesChosen ==
  ASSUME NEW f, NEW S, IsFiniteSet(S)
  PROVE  SumFunctionOnSet(f, S) =
           IF S = {} THEN 0 ELSE f[Chosen(S)] + SumFunctionOnSet(f, S \ {Chosen(S)})
<1>1. PICK g : Sums(f, S, g) /\ \A T \in SUBSET S : SumFunctionOnSet(f, T) = g[T]
  BY SumIsSums
<1>2. g[S] = Step(f, g, S)
  BY <1>1 DEF Sums
<1> QED
  BY <1>1, <1>2 DEF Step

LEMMA SumOfNothing ==
  ASSUME NEW f
  PROVE  SumFunctionOnSet(f, {}) = 0
  BY SumTakesChosen, FS_EmptySet

LEMMA SumInt ==
  ASSUME NEW S, IsFiniteSet(S), NEW f, \A x \in S : f[x] \in Int
  PROVE  SumFunctionOnSet(f, S) \in Int
<1> DEFINE N == {n \in Nat : \A s \in SUBSET S :
                    Cardinality(s) = n => SumFunctionOnSet(f, s) \in Int}
<1>0. \A s \in SUBSET S : IsFiniteSet(s) /\ Cardinality(s) \in Nat
  BY FS_Subset, FS_CardinalityType
<1>1. 0 \in N
  BY <1>0, FS_EmptySet, SumOfNothing
<1>2. ASSUME NEW n \in Nat, n \in N PROVE n + 1 \in N
  <2> SUFFICES ASSUME NEW s \in SUBSET S, Cardinality(s) = n + 1
               PROVE  SumFunctionOnSet(f, s) \in Int
    OBVIOUS
  <2>1. s # {} /\ IsFiniteSet(s)
    BY <1>0, FS_EmptySet
  <2>2. /\ s \ {Chosen(s)} \in SUBSET S
        /\ Cardinality(s \ {Chosen(s)}) = n /\ Chosen(s) \in S
    BY <2>1, Smaller, ChosenIn
  <2>3. SumFunctionOnSet(f, s) = f[Chosen(s)] + SumFunctionOnSet(f, s \ {Chosen(s)})
    BY <2>1, SumTakesChosen
  <2>4. SumFunctionOnSet(f, s \ {Chosen(s)}) \in Int
    BY <1>2, <2>2
  <2> QED
    BY <2>2, <2>3, <2>4
<1>3. Nat \subseteq N
  BY <1>1, <1>2, NatInSet
<1> QED
  BY <1>0, <1>3

\* The sum does not depend on the order.
LEMMA SumRemove ==
  ASSUME NEW S, IsFiniteSet(S), NEW f, \A x \in S : f[x] \in Int, NEW x \in S
  PROVE  SumFunctionOnSet(f, S) = f[x] + SumFunctionOnSet(f, S \ {x})
<1> DEFINE Any(s) == \A y \in s : SumFunctionOnSet(f, s) = f[y] + SumFunctionOnSet(f, s \ {y})
           N == {n \in Nat : \A s \in SUBSET S : Cardinality(s) = n => Any(s)}
<1>0. \A s \in SUBSET S : IsFiniteSet(s) /\ Cardinality(s) \in Nat
  BY FS_Subset, FS_CardinalityType
<1>1. 0 \in N
  BY <1>0, FS_EmptySet
<1>2. ASSUME NEW n \in Nat, n \in N PROVE n + 1 \in N
  <2> SUFFICES ASSUME NEW s \in SUBSET S, Cardinality(s) = n + 1, NEW y \in s
               PROVE  SumFunctionOnSet(f, s) = f[y] + SumFunctionOnSet(f, s \ {y})
    OBVIOUS
  <2> DEFINE c == Chosen(s)
  <2>1. s # {} /\ IsFiniteSet(s) /\ c \in s
    BY <1>0, ChosenIn
  <2>2. SumFunctionOnSet(f, s) = f[c] + SumFunctionOnSet(f, s \ {c})
    BY <2>1, SumTakesChosen
  <2>3. CASE y = c
    BY <2>2, <2>3
  <2>4. CASE y # c
    <3> HIDE DEF c
    <3> DEFINE rest == s \ {c, y}
    <3>1. (s \ {c}) \ {y} = rest /\ (s \ {y}) \ {c} = rest
      BY Zenon
    <3>2. Cardinality(s \ {c}) = n /\ Cardinality(s \ {y}) = n
      <4>1. Cardinality(s \ {c}) = Cardinality(s) - 1 /\ Cardinality(s \ {y}) = Cardinality(s) - 1
        BY <2>1, FS_RemoveElement
      <4> QED
        BY <4>1
    <3>3. Any(s \ {c}) /\ Any(s \ {y})
      BY <1>2, <3>2
    <3>4. /\ SumFunctionOnSet(f, s \ {c}) = f[y] + SumFunctionOnSet(f, rest)
          /\ SumFunctionOnSet(f, s \ {y}) = f[c] + SumFunctionOnSet(f, rest)
      BY <2>1, <2>4, <3>1, <3>3
    <3>5. SumFunctionOnSet(f, rest) \in Int /\ f[c] \in Int /\ f[y] \in Int
      BY <1>0, <2>1, SumInt
    <3> QED
      BY <2>2, <3>4, <3>5
  <2> QED
    BY <2>3, <2>4
<1>3. Nat \subseteq N
  BY <1>1, <1>2, NatInSet
<1> QED
  BY <1>0, <1>3

LEMMA SumAdd ==
  ASSUME NEW S, IsFiniteSet(S), NEW x, x \notin S,
         NEW f, \A y \in S \cup {x} : f[y] \in Int
  PROVE  SumFunctionOnSet(f, S \cup {x}) = f[x] + SumFunctionOnSet(f, S)
<1>1. IsFiniteSet(S \cup {x}) /\ (S \cup {x}) \ {x} = S
  BY FS_AddElement
<1>2. SumFunctionOnSet(f, S \cup {x}) = f[x] + SumFunctionOnSet(f, (S \cup {x}) \ {x})
  BY <1>1, SumRemove
<1> QED
  BY <1>1, <1>2

\* Only the values on the set count.
LEMMA SumOfOne ==
  ASSUME NEW x, NEW f, f[x] \in Int
  PROVE  SumFunctionOnSet(f, {x}) = f[x]
<1>1. IsFiniteSet({}) /\ {} \cup {x} = {x} /\ \A y \in {} \cup {x} : f[y] \in Int
  BY FS_EmptySet
<1>2. SumFunctionOnSet(f, {} \cup {x}) = f[x] + SumFunctionOnSet(f, {})
  BY <1>1, SumAdd
<1>3. SumFunctionOnSet(f, {} \cup {x}) = SumFunctionOnSet(f, {x})
  BY <1>1
<1>4. SumFunctionOnSet(f, {}) = 0
  BY SumOfNothing
<1> QED
  BY <1>2, <1>3, <1>4

LEMMA SumSame ==
  ASSUME NEW S, IsFiniteSet(S), NEW f, NEW g, \A x \in S : f[x] = g[x]
  PROVE  SumFunctionOnSet(f, S) = SumFunctionOnSet(g, S)
<1> DEFINE N == {n \in Nat : \A s \in SUBSET S :
                    Cardinality(s) = n => SumFunctionOnSet(f, s) = SumFunctionOnSet(g, s)}
<1>0. \A s \in SUBSET S : IsFiniteSet(s) /\ Cardinality(s) \in Nat
  BY FS_Subset, FS_CardinalityType
<1>1. 0 \in N
  BY <1>0, FS_EmptySet, SumOfNothing
<1>2. ASSUME NEW n \in Nat, n \in N PROVE n + 1 \in N
  <2> SUFFICES ASSUME NEW s \in SUBSET S, Cardinality(s) = n + 1
               PROVE  SumFunctionOnSet(f, s) = SumFunctionOnSet(g, s)
    OBVIOUS
  <2>1. s # {} /\ IsFiniteSet(s)
    BY <1>0, FS_EmptySet
  <2>2. /\ s \ {Chosen(s)} \in SUBSET S
        /\ Cardinality(s \ {Chosen(s)}) = n /\ Chosen(s) \in S
    BY <2>1, Smaller, ChosenIn
  <2>3. /\ SumFunctionOnSet(f, s) = f[Chosen(s)] + SumFunctionOnSet(f, s \ {Chosen(s)})
        /\ SumFunctionOnSet(g, s) = g[Chosen(s)] + SumFunctionOnSet(g, s \ {Chosen(s)})
    BY <2>1, SumTakesChosen
  <2>4. SumFunctionOnSet(f, s \ {Chosen(s)}) = SumFunctionOnSet(g, s \ {Chosen(s)})
    BY <1>2, <2>2
  <2> QED
    BY <2>2, <2>3, <2>4
<1>3. Nat \subseteq N
  BY <1>1, <1>2, NatInSet
<1> QED
  BY <1>0, <1>3

\* One value changes.
LEMMA SumChange ==
  ASSUME NEW S, IsFiniteSet(S), NEW x \in S, NEW f, NEW g,
         \A y \in S : f[y] \in Int /\ g[y] \in Int,
         \A y \in S \ {x} : f[y] = g[y]
  PROVE  SumFunctionOnSet(g, S) = SumFunctionOnSet(f, S) - f[x] + g[x]
<1>1. IsFiniteSet(S \ {x})
  BY FS_RemoveElement
<1>2. /\ SumFunctionOnSet(f, S) = f[x] + SumFunctionOnSet(f, S \ {x})
      /\ SumFunctionOnSet(g, S) = g[x] + SumFunctionOnSet(g, S \ {x})
  BY SumRemove
<1>3. SumFunctionOnSet(f, S \ {x}) = SumFunctionOnSet(g, S \ {x})
  BY <1>1, SumSame
<1>4. SumFunctionOnSet(f, S \ {x}) \in Int
  BY <1>1, SumInt
<1> QED
  BY <1>2, <1>3, <1>4

\* A sum of natural numbers is one.
LEMMA SumNat ==
  ASSUME NEW S, IsFiniteSet(S), NEW f, \A x \in S : f[x] \in Nat
  PROVE  SumFunctionOnSet(f, S) \in Nat
<1> DEFINE C == {s \in SUBSET S : SumFunctionOnSet(f, s) \in Nat}
<1>1. {} \in C
  BY SumOfNothing
<1>2. ASSUME NEW s \in SUBSET S, NEW x \in S \ s, s \in C PROVE s \cup {x} \in C
  <2>1. IsFiniteSet(s) /\ x \notin s /\ \A y \in s \cup {x} : f[y] \in Int
    BY FS_Subset
  <2>2. SumFunctionOnSet(f, s \cup {x}) = f[x] + SumFunctionOnSet(f, s)
    BY <2>1, SumAdd
  <2> QED
    BY <1>2, <2>2
<1>3. S \in C
  BY <1>1, <1>2, SubsetsInFamily
<1> QED
  BY <1>3

LEMMA SumZero ==
  ASSUME NEW S, IsFiniteSet(S), NEW f, \A x \in S : f[x] = 0
  PROVE  SumFunctionOnSet(f, S) = 0
<1> DEFINE C == {s \in SUBSET S : SumFunctionOnSet(f, s) = 0}
<1>1. {} \in C
  BY SumOfNothing
<1>2. ASSUME NEW s \in SUBSET S, NEW x \in S \ s, s \in C PROVE s \cup {x} \in C
  <2>1. IsFiniteSet(s) /\ x \notin s /\ \A y \in s \cup {x} : f[y] \in Int
    BY FS_Subset
  <2>2. SumFunctionOnSet(f, s \cup {x}) = f[x] + SumFunctionOnSet(f, s)
    BY <2>1, SumAdd
  <2> QED
    BY <1>2, <2>2
<1>3. S \in C
  BY <1>1, <1>2, SubsetsInFamily
<1> QED
  BY <1>3

\* What is zero need not be added.
LEMMA SumPart ==
  ASSUME NEW S, IsFiniteSet(S), NEW T \in SUBSET S, NEW f, NEW g,
         \A x \in T : f[x] = g[x] /\ f[x] \in Int, \A x \in S \ T : f[x] = 0
  PROVE  SumFunctionOnSet(f, S) = SumFunctionOnSet(g, T)
<1> DEFINE C == {s \in SUBSET S : SumFunctionOnSet(f, s) = SumFunctionOnSet(g, s \cap T)}
<1>1. {} \in C
  <2>1. {} \cap T = {}
    OBVIOUS
  <2> QED
    BY <2>1, SumOfNothing
<1>2. ASSUME NEW s \in SUBSET S, NEW x \in S \ s, s \in C PROVE s \cup {x} \in C
  <2>1. IsFiniteSet(s) /\ x \notin s /\ \A y \in s \cup {x} : f[y] \in Int
    BY FS_Subset
  <2>2. SumFunctionOnSet(f, s \cup {x}) = f[x] + SumFunctionOnSet(f, s)
    BY <2>1, SumAdd
  <2>3. SumFunctionOnSet(f, s) = SumFunctionOnSet(g, s \cap T)
    BY <1>2
  <2>4. IsFiniteSet(s \cap T) /\ \A y \in s \cap T : g[y] \in Int
    BY <2>1, FS_Subset
  <2>5. SumFunctionOnSet(g, s \cap T) \in Int
    BY <2>4, SumInt
  <2>6. CASE x \in T
    <3>1. (s \cup {x}) \cap T = (s \cap T) \cup {x} /\ x \notin s \cap T
      BY <2>6
    <3>2. \A y \in (s \cap T) \cup {x} : g[y] \in Int
      BY <2>6
    <3> DEFINE part == s \cap T
    <3>3. IsFiniteSet(part) /\ x \notin part /\ \A y \in part \cup {x} : g[y] \in Int
      BY <2>4, <3>1, <3>2
    <3> HIDE DEF part
    <3>4. SumFunctionOnSet(g, part \cup {x}) = g[x] + SumFunctionOnSet(g, part)
      BY <3>3, SumAdd
    <3>5. (s \cup {x}) \cap T = part \cup {x} /\ f[x] = g[x]
      BY <2>6, <3>1 DEF part
    <3>6. SumFunctionOnSet(f, s) = SumFunctionOnSet(g, part)
      BY <2>3 DEF part
    <3>7. SumFunctionOnSet(f, s \cup {x}) = SumFunctionOnSet(g, part \cup {x})
      BY <2>2, <3>4, <3>5, <3>6
    <3>8. SumFunctionOnSet(f, s \cup {x}) = SumFunctionOnSet(g, (s \cup {x}) \cap T)
      BY <3>5, <3>7, Zenon
    <3> QED
      BY <3>8
  <2>7. CASE x \notin T
    <3>1. (s \cup {x}) \cap T = s \cap T /\ f[x] = 0
      BY <2>7
    <3>2. SumFunctionOnSet(f, s \cup {x}) = SumFunctionOnSet(g, s \cap T)
      BY <2>2, <2>3, <2>5, <3>1
    <3>3. SumFunctionOnSet(f, s \cup {x}) = SumFunctionOnSet(g, (s \cup {x}) \cap T)
      BY <3>1, <3>2, Zenon
    <3> QED
      BY <3>3
  <2> QED
    BY <2>6, <2>7
<1>3. S \in C
  BY <1>1, <1>2, SubsetsInFamily
<1>4. S \cap T = T
  OBVIOUS
<1> QED
  BY <1>3, <1>4

LEMMA SumMinus ==
  ASSUME NEW S, IsFiniteSet(S), NEW f, NEW g, NEW h,
         \A x \in S : f[x] \in Int /\ g[x] \in Int /\ h[x] = f[x] - g[x]
  PROVE  SumFunctionOnSet(h, S) = SumFunctionOnSet(f, S) - SumFunctionOnSet(g, S)
<1> DEFINE C == {s \in SUBSET S :
                   SumFunctionOnSet(h, s) = SumFunctionOnSet(f, s) - SumFunctionOnSet(g, s)}
<1>1. {} \in C
  BY SumOfNothing
<1>2. ASSUME NEW s \in SUBSET S, NEW x \in S \ s, s \in C PROVE s \cup {x} \in C
  <2>1. IsFiniteSet(s) /\ \A y \in s \cup {x} : f[y] \in Int /\ g[y] \in Int /\ h[y] \in Int
    BY FS_Subset
  <2>2. /\ SumFunctionOnSet(f, s \cup {x}) = f[x] + SumFunctionOnSet(f, s)
        /\ SumFunctionOnSet(g, s \cup {x}) = g[x] + SumFunctionOnSet(g, s)
        /\ SumFunctionOnSet(h, s \cup {x}) = h[x] + SumFunctionOnSet(h, s)
    BY <2>1, SumAdd
  <2>3. /\ SumFunctionOnSet(f, s) \in Int /\ SumFunctionOnSet(g, s) \in Int
        /\ f[x] \in Int /\ g[x] \in Int /\ h[x] = f[x] - g[x]
    BY <2>1, SumInt
  <2>4. SumFunctionOnSet(h, s) = SumFunctionOnSet(f, s) - SumFunctionOnSet(g, s)
    BY <1>2
  <2>5. SumFunctionOnSet(h, s \cup {x}) =
          SumFunctionOnSet(f, s \cup {x}) - SumFunctionOnSet(g, s \cup {x})
    BY <2>2, <2>3, <2>4
  <2> QED
    BY <2>5
<1>3. S \in C
  BY <1>1, <1>2, SubsetsInFamily
<1> QED
  BY <1>3

LEMMA SumAtMost ==
  ASSUME NEW S, IsFiniteSet(S), NEW f, NEW g,
         \A x \in S : f[x] \in Int /\ g[x] \in Int /\ f[x] <= g[x]
  PROVE  SumFunctionOnSet(f, S) <= SumFunctionOnSet(g, S)
<1> DEFINE h == [x \in S |-> g[x] - f[x]]
<1>1. \A x \in S : h[x] \in Nat /\ h[x] = g[x] - f[x]
  OBVIOUS
<1> HIDE DEF h
<1>2. SumFunctionOnSet(h, S) \in Nat
  BY <1>1, SumNat
<1>3. SumFunctionOnSet(h, S) = SumFunctionOnSet(g, S) - SumFunctionOnSet(f, S)
  BY <1>1, SumMinus
<1>4. SumFunctionOnSet(f, S) \in Int /\ SumFunctionOnSet(g, S) \in Int
  BY SumInt
<1> QED
  BY <1>2, <1>3, <1>4

LEMMA SumTimes ==
  ASSUME NEW S, IsFiniteSet(S), NEW f, NEW g, NEW c \in Int,
         \A x \in S : f[x] \in Int /\ g[x] = c * f[x]
  PROVE  SumFunctionOnSet(g, S) = c * SumFunctionOnSet(f, S)
<1> DEFINE C == {s \in SUBSET S : SumFunctionOnSet(g, s) = c * SumFunctionOnSet(f, s)}
<1>1. {} \in C
  BY SumOfNothing
<1>2. ASSUME NEW s \in SUBSET S, NEW x \in S \ s, s \in C PROVE s \cup {x} \in C
  <2>1. IsFiniteSet(s) /\ \A y \in s \cup {x} : f[y] \in Int /\ g[y] \in Int
    BY FS_Subset
  <2>2. /\ SumFunctionOnSet(f, s \cup {x}) = f[x] + SumFunctionOnSet(f, s)
        /\ SumFunctionOnSet(g, s \cup {x}) = g[x] + SumFunctionOnSet(g, s)
    BY <2>1, SumAdd
  <2>3. SumFunctionOnSet(f, s) \in Int /\ f[x] \in Int /\ g[x] = c * f[x]
    BY <2>1, SumInt
  <2>4. SumFunctionOnSet(g, s) = c * SumFunctionOnSet(f, s)
    BY <1>2
  <2>5. \A m, n \in Int : c * m + c * n = c * (m + n)
    OBVIOUS
  <2>6. SumFunctionOnSet(g, s \cup {x}) = c * SumFunctionOnSet(f, s \cup {x})
    BY <2>2, <2>3, <2>4, <2>5
  <2> QED
    BY <2>6
<1>3. S \in C
  BY <1>1, <1>2, SubsetsInFamily
<1> QED
  BY <1>3

OneToOne(h, S, T) ==
  /\ h \in [S -> T]
  /\ \A x, y \in S : h[x] = h[y] => x = y
  /\ T = {h[x] : x \in S}

\* Counting each value under another name.
LEMMA SumImage ==
  ASSUME NEW S, IsFiniteSet(S), NEW T, NEW h, NEW f, NEW g, OneToOne(h, S, T),
         \A x \in S : g[x] = f[h[x]] /\ g[x] \in Int
  PROVE  SumFunctionOnSet(f, T) = SumFunctionOnSet(g, S)
<1> USE DEF OneToOne
<1> DEFINE image(s) == {h[x] : x \in s}
           C == {s \in SUBSET S : /\ IsFiniteSet(image(s))
                                  /\ SumFunctionOnSet(f, image(s)) = SumFunctionOnSet(g, s)}
<1>1. {} \in C
  <2>1. image({}) = {}
    OBVIOUS
  <2> QED
    BY <2>1, SumOfNothing, FS_EmptySet
<1>2. ASSUME NEW s \in SUBSET S, NEW x \in S \ s, s \in C PROVE s \cup {x} \in C
  <2>1. IsFiniteSet(s) /\ \A y \in s \cup {x} : g[y] \in Int
    BY FS_Subset
  <2>2. SumFunctionOnSet(g, s \cup {x}) = g[x] + SumFunctionOnSet(g, s)
    BY <2>1, SumAdd
  <2>3. IsFiniteSet(image(s)) /\ SumFunctionOnSet(f, image(s)) = SumFunctionOnSet(g, s)
    BY <1>2
  <2>4. /\ image(s \cup {x}) = image(s) \cup {h[x]} /\ h[x] \notin image(s)
        /\ \A y \in image(s) \cup {h[x]} : f[y] \in Int
    OBVIOUS
  <2> HIDE DEF image
  <2>5. SumFunctionOnSet(f, image(s) \cup {h[x]}) = f[h[x]] + SumFunctionOnSet(f, image(s))
    BY <2>3, <2>4, SumAdd
  <2>6. IsFiniteSet(image(s) \cup {h[x]})
    BY <2>3, FS_AddElement
  <2> QED
    BY <2>2, <2>3, <2>4, <2>5, <2>6
<1>3. S \in C
  BY <1>1, <1>2, SubsetsInFamily
<1> QED
  BY <1>3

-----------------------------------------------------------------------------
(* Ranks. *)

StrictOrder(R, S) ==
  /\ \A a \in S : <<a, a>> \notin R
  /\ \A a, b \in S : a # b => <<a, b>> \in R \/ <<b, a>> \in R
  /\ \A a, b, c \in S : <<a, b>> \in R /\ <<b, c>> \in R => <<a, c>> \in R

\* In a finite set with a strict total order every rank is somebody's.
LEMMA Ranks ==
  ASSUME NEW S, IsFiniteSet(S), NEW R, StrictOrder(R, S), NEW k \in 1 .. Cardinality(S)
  PROVE  \E a \in S : Cardinality({b \in S : <<b, a>> \in R}) = k - 1
<1> USE DEF StrictOrder
<1> DEFINE n == Cardinality(S)
           low == [a \in S |-> {b \in S : <<b, a>> \in R}]
           rank == [a \in S |-> Cardinality(low[a])]
<1>0. n \in Nat /\ S # {} /\ k \in 1 .. n
  BY FS_CardinalityType, FS_EmptySet
<1>1. ASSUME NEW a \in S
      PROVE  /\ low[a] = {b \in S : <<b, a>> \in R}
             /\ IsFiniteSet(low[a])
             /\ rank[a] = Cardinality(low[a]) /\ rank[a] \in Nat /\ rank[a] <= n /\ rank[a] # n
  <2>1. low[a] \in SUBSET S /\ low[a] # S
    OBVIOUS
  <2>2. IsFiniteSet(low[a]) /\ Cardinality(low[a]) <= n /\ Cardinality(low[a]) # n
    BY <2>1, FS_Subset
  <2> QED
    BY <2>2, FS_CardinalityType
<1>2. /\ n = Cardinality(S)
      /\ rank = [a \in S |-> rank[a]]
      /\ \A a \in S : Cardinality({b \in S : <<b, a>> \in R}) = rank[a]
  OBVIOUS
<1> HIDE DEF n, low, rank
<1>3. ASSUME NEW a \in S, NEW b \in S, <<a, b>> \in R PROVE rank[a] < rank[b]
  <2>1. low[a] \in SUBSET low[b] /\ low[a] # low[b]
    BY <1>1, <1>3
  <2>2. rank[a] <= rank[b] /\ rank[a] # rank[b]
    BY <1>1, <2>1, FS_Subset
  <2> QED
    BY <1>1, <2>2
<1>4. rank \in Injection(S, 0 .. n - 1)
  <2>1. \A a \in S : rank[a] \in 0 .. n - 1
    BY <1>0, <1>1
  <2>2. rank \in [S -> 0 .. n - 1]
    BY <1>2, <2>1
  <2>3. ASSUME NEW a \in S, NEW b \in S, rank[a] = rank[b] PROVE a = b
    <3>1. rank[a] \in Nat /\ rank[b] \in Nat
      BY <1>1
    <3>2. a # b => rank[a] < rank[b] \/ rank[b] < rank[a]
      BY <1>3
    <3>3. ~(rank[a] < rank[b]) /\ ~(rank[b] < rank[a])
      BY <2>3, <3>1
    <3> QED
      BY <3>2, <3>3
  <2> QED
    BY <2>2, <2>3 DEF Injection, IsInjective
<1>5. IsFiniteSet(0 .. n - 1) /\ Cardinality(0 .. n - 1) = n
  <2>1. 0 \in Int /\ n - 1 \in Int /\ (IF 0 > n - 1 THEN 0 ELSE n - 1 - 0 + 1) = n
    BY <1>0
  <2> QED
    BY <2>1, FS_Interval
<1>6. rank \in Surjection(S, 0 .. n - 1)
  BY <1>2, <1>4, <1>5, FS_Injection
<1>7. k - 1 \in 0 .. n - 1
  BY <1>0
<1>8. PICK a \in S : rank[a] = k - 1
  BY <1>6, <1>7 DEF Surjection
<1> QED
  BY <1>2, <1>8

=============================================================================
