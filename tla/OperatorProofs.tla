--------------------------- MODULE OperatorProofs ---------------------------
(***************************************************************************)
(* Theorems about the operators that the modules are built from, for every *)
(* value of their arguments.  First induction over sets of numbers and     *)
(* over finite sets, in a form that takes a set where the library's        *)
(* theorems take an operator; what it gives for the sums of a function     *)
(* (SumFunctionOnSet of Functions) that the properties count with; then    *)
(* heapq: what every list keeps, heap or not, that a heap stays one, and   *)
(* that CPython's loops leave what the closed forms of Heapq say; last the *)
(* example contestant's loop, which ends on every order.                   *)
(***************************************************************************)
EXTENDS MCHeapq, ExampleEngine, Functions, Integers, FiniteSetTheorems, WellFoundedInduction, TLAPS

---------------------------------------------------------------------------
(* Induction. *)

LEMMA NatSetInduction ==
  ASSUME NEW T, 0 \in T, \A n \in Nat : n \in T => n + 1 \in T
  PROVE  Nat \subseteq T
PROOF
<1> SUFFICES ASSUME NEW m \in Nat, m \notin T PROVE FALSE
  OBVIOUS
<1> DEFINE Out == {n \in Nat : n \notin T}
<1>1. Out # {} /\ Out \subseteq Nat
  OBVIOUS
<1>2. PICK n \in Out : \A k \in Out : <<k, n>> \notin OpToRel(<, Nat)
  BY <1>1, NatLessThanWellFounded, WFMin
<1>3. \A k \in Nat : k < n => k \in T
  BY <1>2 DEF OpToRel
<1>4. n # 0
  OBVIOUS
<1>5. n - 1 \in Nat /\ n - 1 \in T
  BY <1>3, <1>4
<1>6. QED
  BY <1>5

\* Induction that assumes all smaller numbers.
LEMMA NatSetStrongInduction ==
  ASSUME NEW T, \A n \in Nat : (\A k \in Nat : k < n => k \in T) => n \in T
  PROVE  Nat \subseteq T
PROOF
<1> DEFINE N == {n \in Nat : \A k \in Nat : k < n => k \in T}
<1>1. 0 \in N
  OBVIOUS
<1>2. \A n \in Nat : n \in N => n + 1 \in N
  OBVIOUS
<1>3. Nat \subseteq N
  <2> HIDE DEF N
  <2> QED BY <1>1, <1>2, NatSetInduction
<1> QED BY <1>3

\* A function may be defined by its value at 0 and what it is at n + 1 after n.
GoesBy(f, V, start, step) ==
  f \in [Nat -> V] /\ f[0] = start /\ \A n \in Nat : f[n + 1] = step[n][f[n]]

LEMMA NatRecursion ==
  ASSUME NEW V, NEW start \in V, NEW step \in [Nat -> [V -> V]]
  PROVE  \E f : GoesBy(f, V, start, step)
PROOF
<1> DEFINE Run(f, n) == f[0] = start /\ \A i \in Nat : i < n => f[i + 1] = step[i][f[i]]
           N == {n \in Nat : \E f \in [Nat -> V] : Run(f, n)}
           F == [n \in Nat |-> CHOOSE f \in [Nat -> V] : Run(f, n)]
           T == [n \in Nat |-> F[n][n]]
<1>1. 0 \in N
  <2>1. [i \in Nat |-> start] \in [Nat -> V] /\ Run([i \in Nat |-> start], 0)
    OBVIOUS
  <2> HIDE DEF Run
  <2> QED BY <2>1
<1>2. \A n \in Nat : n \in N => n + 1 \in N
  <2>1. SUFFICES ASSUME NEW n \in Nat, n \in N PROVE n + 1 \in N
    OBVIOUS
  <2>2. PICK f \in [Nat -> V] : Run(f, n)
    BY <2>1
  <2> DEFINE h == [i \in Nat |-> IF i <= n THEN f[i] ELSE step[n][f[n]]]
  <2>3. h \in [Nat -> V]
    OBVIOUS
  <2>4. h[0] = start
    BY <2>2
  <2>5. \A i \in Nat : i < n + 1 => h[i + 1] = step[i][h[i]]
    <3>1. SUFFICES ASSUME NEW i \in Nat, i < n + 1 PROVE h[i + 1] = step[i][h[i]]
      OBVIOUS
    <3>2. h[i] = f[i]
      BY <3>1
    <3>3. h[i + 1] = IF i + 1 <= n THEN f[i + 1] ELSE step[n][f[n]]
      BY <3>1
    <3> HIDE DEF h
    <3> QED BY <2>2, <3>1, <3>2, <3>3
  <2> HIDE DEF h
  <2>6. Run(h, n + 1)
    BY <2>4, <2>5
  <2> HIDE DEF Run
  <2> QED BY <2>3, <2>6
<1>3. Nat \subseteq N
  <2> HIDE DEF N
  <2> QED BY <1>1, <1>2, NatSetInduction
<1>4. \A n \in Nat : F[n] \in [Nat -> V] /\ Run(F[n], n)
  <2>1. \A n \in Nat : \E f \in [Nat -> V] : Run(f, n)
    BY <1>3
  <2>2. \A n \in Nat : F[n] = CHOOSE f \in [Nat -> V] : Run(f, n)
    OBVIOUS
  <2> HIDE DEF Run, F
  <2> QED BY <2>1, <2>2
<1> DEFINE U == {i \in Nat : \A n, k \in Nat : i <= n /\ i <= k => F[n][i] = F[k][i]}
<1> HIDE DEF F
<1>5. 0 \in U
  BY <1>4
<1>6. \A i \in Nat : i \in U => i + 1 \in U
  <2>1. SUFFICES ASSUME NEW i \in Nat, i \in U, NEW n \in Nat, NEW k \in Nat, i + 1 <= n, i + 1 <= k
                 PROVE  F[n][i + 1] = F[k][i + 1]
    OBVIOUS
  <2>2. F[n][i + 1] = step[i][F[n][i]] /\ F[k][i + 1] = step[i][F[k][i]]
    BY <1>4, <2>1
  <2>3. F[n][i] = F[k][i]
    BY <2>1
  <2> QED BY <2>2, <2>3
<1>7. Nat \subseteq U
  <2> HIDE DEF U
  <2> QED BY <1>5, <1>6, NatSetInduction
<1>8. T \in [Nat -> V] /\ T[0] = start
  BY <1>4
<1>9. \A n \in Nat : T[n + 1] = step[n][T[n]]
  <2>1. SUFFICES ASSUME NEW n \in Nat PROVE F[n + 1][n + 1] = step[n][F[n][n]]
    OBVIOUS
  <2>2. F[n + 1][n + 1] = step[n][F[n + 1][n]]
    BY <1>4
  <2>3. F[n + 1][n] = F[n][n]
    BY <1>7
  <2> QED BY <2>2, <2>3
<1> HIDE DEF T
<1>10. GoesBy(T, V, start, step)
  BY <1>8, <1>9 DEF GoesBy
<1> QED BY <1>10

LEMMA LeastNumber ==
  ASSUME NEW S, S \subseteq Nat, S # {}
  PROVE  \E m \in S : \A k \in S : m <= k
PROOF
<1> SUFFICES ASSUME \A m \in S : \E k \in S : ~(m <= k) PROVE FALSE
  OBVIOUS
<1> DEFINE T == {n \in Nat : n \notin S}
<1>1. ASSUME NEW n \in Nat, \A k \in Nat : k < n => k \in T
      PROVE  n \in T
  <2>1. SUFFICES ASSUME n \in S PROVE FALSE
    OBVIOUS
  <2>2. PICK k \in S : ~(n <= k)
    BY <2>1
  <2> QED BY <1>1, <2>2
<1>2. Nat \subseteq T
  <2> HIDE DEF T
  <2> QED BY <1>1, NatSetStrongInduction
<1> QED BY <1>2

LEMMA GreatestNumber ==
  ASSUME NEW S, NEW n \in Nat, S \subseteq 0..n, S # {}
  PROVE  \E m \in S : \A k \in S : k <= m
PROOF
<1> DEFINE T == {n - k : k \in S}
<1>1. T \subseteq Nat /\ T # {}
  <2>1. \A k \in S : k \in 0..n /\ n - k \in Nat
    OBVIOUS
  <2> QED BY <2>1
<1>2. PICK t \in T : \A u \in T : t <= u
  <2> HIDE DEF T
  <2> QED BY <1>1, LeastNumber
<1>3. PICK m \in S : t = n - m
  OBVIOUS
<1>4. ASSUME NEW k \in S PROVE k <= m
  <2>1. n - m <= n - k
    BY <1>2, <1>3
  <2>2. m \in Int /\ k \in Int
    OBVIOUS
  <2> QED BY <2>1, <2>2
<1> QED BY <1>4

\* A family of subsets of a finite set holds them all if it holds the empty set and
\* is closed under adding an element.
LEMMA FiniteSetInduction ==
  ASSUME NEW S, IsFiniteSet(S), NEW F, {} \in F,
         \A T \in SUBSET S, x \in S : T \in F /\ x \notin T => T \cup {x} \in F
  PROVE  SUBSET S \subseteq F
PROOF
<1> DEFINE N == {n \in Nat : \A T \in SUBSET S : Cardinality(T) = n => T \in F}
<1>0. \A T \in SUBSET S : IsFiniteSet(T) /\ Cardinality(T) \in Nat
  BY FS_Subset, FS_CardinalityType
<1>1. 0 \in N
  BY <1>0, FS_EmptySet
<1>2. ASSUME NEW n \in N PROVE n + 1 \in N
  <2>1. SUFFICES ASSUME NEW T \in SUBSET S, Cardinality(T) = n + 1 PROVE T \in F
    BY <1>2
  <2>2. T # {}
    BY <1>2, <2>1, FS_EmptySet
  <2>3. PICK x \in T : TRUE
    BY <2>2
  <2>4. T \ {x} \in SUBSET S /\ x \notin T \ {x} /\ x \in S /\ (T \ {x}) \cup {x} = T
    BY <2>3
  <2>5. Cardinality(T \ {x}) = n
    <3>1. Cardinality(T \ {x}) = Cardinality(T) - 1
      BY <1>0, <2>3, FS_RemoveElement
    <3>2. QED
      BY <1>2, <2>1, <3>1
  <2>6. T \ {x} \in F
    BY <1>2, <2>4, <2>5
  <2>7. QED
    BY <2>4, <2>6
<1>3. Nat \subseteq N
  <2> HIDE DEF N
  <2>1. QED
    BY <1>1, <1>2, NatSetInduction
<1>4. QED
  BY <1>0, <1>3

---------------------------------------------------------------------------
(* The sum of a function. *)

\* The definition in Functions, with the recursive function it goes through.
Chosen(s) == CHOOSE x \in s : TRUE
Sums(f, S) == CHOOSE g : g = [s \in SUBSET S |-> IF s = {} THEN 0
                                                 ELSE f[Chosen(s)] + g[s \ {Chosen(s)}]]

LEMMA SumIsRecursive ==
  ASSUME NEW f, NEW S
  PROVE  SumFunctionOnSet(f, S) = Sums(f, S)[S]
BY DEF SumFunctionOnSet, FoldFunctionOnSet, MapThenFoldSet, Sums, Chosen

\* There is such a function, and it is as defined.
LEMMA SumsUnfold ==
  ASSUME NEW f, NEW S, IsFiniteSet(S)
  PROVE  /\ Sums(f, S)[{}] = 0
         /\ \A s \in SUBSET S : s # {} =>
              Sums(f, S)[s] = f[Chosen(s)] + Sums(f, S)[s \ {Chosen(s)}]
PROOF
<1> DEFINE Small(n) == {s \in SUBSET S : Cardinality(s) <= n}
           Def(g, D) == [s \in D |-> IF s = {} THEN 0
                                     ELSE f[Chosen(s)] + g[s \ {Chosen(s)}]]
           N == {n \in Nat : \E g : g = Def(g, Small(n))}
<1>0. \A s \in SUBSET S : IsFiniteSet(s) /\ Cardinality(s) \in Nat
  BY FS_Subset, FS_CardinalityType
<1>1. 0 \in N
  <2>1. \A s \in Small(0) : s = {}
    BY <1>0, FS_EmptySet
  <2> DEFINE g == [s \in Small(0) |-> 0]
  <2>2. g = Def(g, Small(0))
    BY <2>1
  <2>3. QED
    BY <2>2
<1>2. ASSUME NEW n \in N PROVE n + 1 \in N
  <2>1. PICK g : g = Def(g, Small(n))
    BY <1>2
  <2> DEFINE h == Def(g, Small(n + 1))
  <2>2. Small(n) \subseteq Small(n + 1)
    BY <1>0
  <2>3. \A s \in Small(n + 1) : s # {} => s \ {Chosen(s)} \in Small(n)
    <3>1. SUFFICES ASSUME NEW s \in Small(n + 1), s # {} PROVE s \ {Chosen(s)} \in Small(n)
      OBVIOUS
    <3>2. Chosen(s) \in s
      BY <3>1 DEF Chosen
    <3>3. Cardinality(s \ {Chosen(s)}) = Cardinality(s) - 1
      BY <1>0, <3>2, FS_RemoveElement
    <3>4. QED
      BY <1>0, <3>1, <3>3
  <2> DEFINE rhs(s) == IF s = {} THEN 0 ELSE f[Chosen(s)] + g[s \ {Chosen(s)}]
  <2>4. \A s \in Small(n) : h[s] = g[s]
    <3>1. \A s \in Small(n) : g[s] = rhs(s)
      <4> HIDE DEF Small
      <4>1. QED
        BY <2>1
    <3>2. \A s \in Small(n + 1) : h[s] = rhs(s)
      <4> HIDE DEF Small
      <4>1. QED
        OBVIOUS
    <3>3. QED
      <4> HIDE DEF Small, rhs, h
      <4>1. QED
        BY <2>2, <3>1, <3>2
  <2>5. h = Def(h, Small(n + 1))
    <3> HIDE DEF Small
    <3>1. \A s \in Small(n + 1) : rhs(s) = IF s = {} THEN 0 ELSE f[Chosen(s)] + h[s \ {Chosen(s)}]
      <4> HIDE DEF h
      <4>1. QED
        BY <2>3, <2>4
    <3>2. h = [s \in Small(n + 1) |-> rhs(s)]
      OBVIOUS
    <3> HIDE DEF h, rhs
    <3>3. h = [s \in Small(n + 1) |-> IF s = {} THEN 0 ELSE f[Chosen(s)] + h[s \ {Chosen(s)}]]
      BY <3>1, <3>2
    <3>4. QED
      BY <3>3
  <2> HIDE DEF h, Def, Small
  <2>6. QED
    BY <1>2, <2>5
<1>3. PICK g : g = Def(g, SUBSET S)
  <2>1. Cardinality(S) \in Nat
    BY FS_CardinalityType
  <2>2. Small(Cardinality(S)) = SUBSET S
    BY FS_Subset
  <2>3. Nat \subseteq N
    <3> HIDE DEF N
    <3>1. QED
      BY <1>1, <1>2, NatSetInduction
  <2> HIDE DEF Small, Def
  <2>4. QED
    BY <2>1, <2>2, <2>3
<1>4. PICK h : /\ h = Sums(f, S)
               /\ h = [s \in SUBSET S |-> IF s = {} THEN 0 ELSE f[Chosen(s)] + h[s \ {Chosen(s)}]]
  BY <1>3 DEF Sums
<1> DEFINE rhs(s) == IF s = {} THEN 0 ELSE f[Chosen(s)] + h[s \ {Chosen(s)}]
<1>5. h = [s \in SUBSET S |-> rhs(s)]
  BY <1>4
<1> HIDE DEF rhs
<1>6. \A s \in SUBSET S : h[s] = rhs(s)
  BY <1>5
<1>7. QED
  BY <1>4, <1>6 DEF rhs

\* It does not depend on the set it is a part of.
LEMMA SumsOfPart ==
  ASSUME NEW f, NEW S, IsFiniteSet(S), NEW T \in SUBSET S
  PROVE  Sums(f, S)[T] = Sums(f, T)[T]
PROOF
<1> DEFINE N == {n \in Nat : \A U \in SUBSET T : Cardinality(U) = n
                                => Sums(f, S)[U] = Sums(f, T)[U]}
<1>0. /\ IsFiniteSet(T)
      /\ \A U \in SUBSET T : IsFiniteSet(U) /\ Cardinality(U) \in Nat /\ U \in SUBSET S
  BY FS_Subset, FS_CardinalityType
<1>1. 0 \in N
  <2>1. \A U \in SUBSET T : Cardinality(U) = 0 => U = {}
    BY <1>0, FS_EmptySet
  <2>2. QED
    BY <1>0, <2>1, SumsUnfold
<1>2. ASSUME NEW n \in N PROVE n + 1 \in N
  <2>1. SUFFICES ASSUME NEW U \in SUBSET T, Cardinality(U) = n + 1
                 PROVE  Sums(f, S)[U] = Sums(f, T)[U]
    BY <1>2
  <2>2. U # {}
    BY <1>2, <2>1, FS_EmptySet
  <2>3. Chosen(U) \in U
    BY <2>2 DEF Chosen
  <2>4. Cardinality(U \ {Chosen(U)}) = Cardinality(U) - 1
    BY <1>0, <2>3, FS_RemoveElement
  <2>5. Cardinality(U \ {Chosen(U)}) = n /\ U \ {Chosen(U)} \in SUBSET T
    BY <1>2, <2>1, <2>4
  <2>6. Sums(f, S)[U \ {Chosen(U)}] = Sums(f, T)[U \ {Chosen(U)}]
    BY <1>2, <2>5
  <2>7. Sums(f, S)[U] = f[Chosen(U)] + Sums(f, S)[U \ {Chosen(U)}]
    BY <1>0, <2>2, SumsUnfold
  <2>8. Sums(f, T)[U] = f[Chosen(U)] + Sums(f, T)[U \ {Chosen(U)}]
    <3>1. IsFiniteSet(T)
      BY <1>0
    <3> HIDE DEF N
    <3>2. \A s \in SUBSET T : s # {} =>
            Sums(f, T)[s] = f[Chosen(s)] + Sums(f, T)[s \ {Chosen(s)}]
      BY <3>1, SumsUnfold
    <3>3. QED
      BY <2>2, <3>2
  <2>9. QED
    BY <2>6, <2>7, <2>8
<1>3. Nat \subseteq N
  <2> HIDE DEF N
  <2>1. QED
    BY <1>1, <1>2, NatSetInduction
<1>4. QED
  BY <1>0, <1>3

LEMMA SumEmpty == ASSUME NEW f PROVE SumFunctionOnSet(f, {}) = 0
BY SumIsRecursive, SumsUnfold, FS_EmptySet

LEMMA SumChosen ==
  ASSUME NEW f, NEW S, IsFiniteSet(S), S # {}
  PROVE  /\ Chosen(S) \in S
         /\ SumFunctionOnSet(f, S) = f[Chosen(S)] + SumFunctionOnSet(f, S \ {Chosen(S)})
PROOF
<1>1. Chosen(S) \in S
  BY DEF Chosen
<1>2. Sums(f, S)[S] = f[Chosen(S)] + Sums(f, S)[S \ {Chosen(S)}]
  BY SumsUnfold
<1>3. Sums(f, S)[S \ {Chosen(S)}] = Sums(f, S \ {Chosen(S)})[S \ {Chosen(S)}]
  BY SumsOfPart
<1>4. QED
  BY <1>1, <1>2, <1>3, SumIsRecursive

\* What the sum of numbers is, whichever element is taken first.
LEMMA SumRemove ==
  ASSUME NEW S, IsFiniteSet(S), NEW f, \A x \in S : f[x] \in Int
  PROVE  /\ SumFunctionOnSet(f, S) \in Int
         /\ \A x \in S : SumFunctionOnSet(f, S) = f[x] + SumFunctionOnSet(f, S \ {x})
PROOF
<1> DEFINE Good(T) == /\ SumFunctionOnSet(f, T) \in Int
                      /\ \A x \in T : SumFunctionOnSet(f, T) = f[x] + SumFunctionOnSet(f, T \ {x})
           N == {n \in Nat : \A T \in SUBSET S : Cardinality(T) <= n => Good(T)}
<1>0. \A T \in SUBSET S : IsFiniteSet(T) /\ Cardinality(T) \in Nat
  BY FS_Subset, FS_CardinalityType
<1>1. 0 \in N
  <2>1. \A T \in SUBSET S : Cardinality(T) <= 0 => T = {}
    BY <1>0, FS_EmptySet
  <2>2. Good({})
    BY SumEmpty
  <2> HIDE DEF Good
  <2>3. QED
    BY <2>1, <2>2
<1>2. ASSUME NEW n \in N PROVE n + 1 \in N
  <2> HIDE DEF Good
  <2>1. SUFFICES ASSUME NEW T \in SUBSET S, Cardinality(T) <= n + 1, T # {} PROVE Good(T)
    <3>1. Good({})
      BY SumEmpty DEF Good
    <3>2. QED
      BY <1>2, <3>1
  <2>2. T # {} /\ IsFiniteSet(T) /\ Cardinality(T) \in Nat /\ n \in Nat
    BY <1>0, <1>2, <2>1
  <2> DEFINE c == Chosen(T)
  <2>3. c \in T /\ SumFunctionOnSet(f, T) = f[c] + SumFunctionOnSet(f, T \ {c})
    BY <2>2, SumChosen
  <2> HIDE DEF c
  <2>4. \A U \in SUBSET T : U # T => Good(U)
    <3>1. TAKE U \in SUBSET T
    <3>2. HAVE U # T
    <3>3. PICK x \in T : U \subseteq T \ {x}
      BY <3>2
    <3>4. Cardinality(T \ {x}) = Cardinality(T) - 1 /\ IsFiniteSet(T \ {x})
      BY <2>2, FS_RemoveElement
    <3>5. Cardinality(U) <= Cardinality(T \ {x}) /\ Cardinality(U) \in Nat
      BY <3>3, <3>4, FS_Subset, FS_CardinalityType
    <3>6. Cardinality(U) <= n /\ U \in SUBSET S
      BY <2>1, <2>2, <3>4, <3>5
    <3>7. QED
      BY <1>2, <3>6
  <2>5. SumFunctionOnSet(f, T) \in Int
    BY <2>3, <2>4 DEF Good
  <2>6. ASSUME NEW x \in T PROVE SumFunctionOnSet(f, T) = f[x] + SumFunctionOnSet(f, T \ {x})
    <3>1. CASE x = c
      BY <2>3, <3>1
    <3>2. CASE x # c
      <4>1. x \in T \ {c} /\ c \in T \ {x} /\ (T \ {c}) \ {x} = (T \ {x}) \ {c}
        BY <2>3, <3>2
      <4>2. SumFunctionOnSet(f, T \ {c}) = f[x] + SumFunctionOnSet(f, (T \ {c}) \ {x})
        BY <2>3, <2>4, <4>1 DEF Good
      <4>3. SumFunctionOnSet(f, T \ {x}) = f[c] + SumFunctionOnSet(f, (T \ {c}) \ {x})
        BY <2>4, <4>1 DEF Good
      <4>4. f[x] \in Int /\ f[c] \in Int /\ SumFunctionOnSet(f, (T \ {c}) \ {x}) \in Int
        <5>1. (T \ {c}) \ {x} \in SUBSET T /\ (T \ {c}) \ {x} # T
          BY <4>1
        <5>2. QED
          BY <2>3, <2>4, <5>1 DEF Good
      <4>5. QED
        BY <2>3, <4>2, <4>3, <4>4
    <3>3. QED
      BY <3>1, <3>2
  <2>7. QED
    BY <2>5, <2>6 DEF Good
<1>3. Nat \subseteq N
  <2> HIDE DEF N
  <2>1. QED
    BY <1>1, <1>2, NatSetInduction
<1>4. QED
  BY <1>0, <1>3

LEMMA SumAdd ==
  ASSUME NEW S, IsFiniteSet(S), NEW x, x \notin S, NEW f, \A y \in S \cup {x} : f[y] \in Int
  PROVE  SumFunctionOnSet(f, S \cup {x}) = f[x] + SumFunctionOnSet(f, S)
PROOF
<1>1. IsFiniteSet(S \cup {x}) /\ x \in S \cup {x} /\ (S \cup {x}) \ {x} = S
  BY FS_AddElement
<1>2. \A T : IsFiniteSet(T) /\ (\A y \in T : f[y] \in Int)
        => \A y \in T : SumFunctionOnSet(f, T) = f[y] + SumFunctionOnSet(f, T \ {y})
  BY SumRemove
<1>3. SumFunctionOnSet(f, S \cup {x}) = f[x] + SumFunctionOnSet(f, (S \cup {x}) \ {x})
  BY <1>1, <1>2
<1>4. QED
  BY <1>1, <1>3

\* A sum of natural numbers is one.
LEMMA SumOfNaturals ==
  ASSUME NEW S, IsFiniteSet(S), NEW f, \A x \in S : f[x] \in Nat
  PROVE  SumFunctionOnSet(f, S) \in Nat
PROOF
<1> DEFINE F == {T \in SUBSET S : SumFunctionOnSet(f, T) \in Nat}
<1>1. {} \in F
  BY SumEmpty
<1>2. \A T \in SUBSET S, x \in S : T \in F /\ x \notin T => T \cup {x} \in F
  <2>1. SUFFICES ASSUME NEW T \in SUBSET S, NEW x \in S, T \in F, x \notin T
                 PROVE  SumFunctionOnSet(f, T \cup {x}) \in Nat
    OBVIOUS
  <2>2. IsFiniteSet(T) /\ \A y \in T \cup {x} : f[y] \in Int
    BY FS_Subset
  <2>3. SumFunctionOnSet(f, T \cup {x}) = f[x] + SumFunctionOnSet(f, T)
    BY <2>1, <2>2, SumAdd
  <2>4. QED
    BY <2>1, <2>3
<1>3. SUBSET S \subseteq F
  <2> HIDE DEF F
  <2>1. QED
    BY <1>1, <1>2, FiniteSetInduction
<1>4. QED
  BY <1>3

\* Where A is counted once more, the sum grows by the size of A.
LEMMA SumCountedOnceMore ==
  ASSUME NEW S, IsFiniteSet(S), NEW A \in SUBSET S, NEW f, NEW g, \A x \in S : f[x] \in Int,
         \A x \in S : g[x] = IF x \in A THEN f[x] + 1 ELSE f[x]
  PROVE  SumFunctionOnSet(g, S) = SumFunctionOnSet(f, S) + Cardinality(A)
PROOF
<1> DEFINE Good(T) == SumFunctionOnSet(g, T) = SumFunctionOnSet(f, T) + Cardinality(A \cap T)
           F == {T \in SUBSET S : Good(T)}
<1>1. {} \in F
  <2>1. A \cap {} = {} /\ Cardinality({}) = 0 /\ SumFunctionOnSet(g, {}) = 0
        /\ SumFunctionOnSet(f, {}) = 0
    BY SumEmpty, FS_EmptySet
  <2>2. QED
    BY <2>1
<1>2. \A T \in SUBSET S, x \in S : T \in F /\ x \notin T => T \cup {x} \in F
  <2>1. SUFFICES ASSUME NEW T \in SUBSET S, NEW x \in S, Good(T), x \notin T
                 PROVE  Good(T \cup {x})
    OBVIOUS
  <2>2. IsFiniteSet(T) /\ \A y \in T \cup {x} : f[y] \in Int /\ g[y] \in Int
    BY FS_Subset
  <2>3. SumFunctionOnSet(f, T \cup {x}) = f[x] + SumFunctionOnSet(f, T)
    BY <2>1, <2>2, SumAdd
  <2>4. SumFunctionOnSet(g, T \cup {x}) = g[x] + SumFunctionOnSet(g, T)
    BY <2>1, <2>2, SumAdd
  <2>5. SumFunctionOnSet(f, T) \in Int
    BY <2>2, SumRemove
  <2>6. IsFiniteSet(A \cap T) /\ Cardinality(A \cap T) \in Nat
    BY <2>2, FS_Intersection, FS_CardinalityType
  <2>7. Cardinality(A \cap (T \cup {x})) = Cardinality(A \cap T) + (IF x \in A THEN 1 ELSE 0)
    <3>1. CASE x \in A
      <4>1. A \cap (T \cup {x}) = (A \cap T) \cup {x} /\ x \notin A \cap T
        BY <2>1, <3>1
      <4>2. QED
        BY <2>6, <3>1, <4>1, FS_AddElement
    <3>2. CASE x \notin A
      <4>1. A \cap (T \cup {x}) = A \cap T
        BY <3>2
      <4>2. Cardinality(A \cap (T \cup {x})) = Cardinality(A \cap T)
        BY <4>1, Zenon
      <4>3. QED
        BY <2>6, <3>2, <4>2
    <3>3. QED
      BY <3>1, <3>2
  <2>8. g[x] = f[x] + (IF x \in A THEN 1 ELSE 0) /\ f[x] \in Int
    OBVIOUS
  <2>9. QED
    BY <2>1, <2>3, <2>4, <2>5, <2>6, <2>7, <2>8
<1>3. SUBSET S \subseteq F
  <2> HIDE DEF F
  <2>1. QED
    BY <1>1, <1>2, FiniteSetInduction
<1>4. Good(S) /\ A \cap S = A
  BY <1>3
<1>5. QED
  BY <1>4

\* The sum depends on the values on the set only.
LEMMA SumSame ==
  ASSUME NEW S, IsFiniteSet(S), NEW f, NEW g, \A x \in S : f[x] \in Int, \A x \in S : g[x] = f[x]
  PROVE  SumFunctionOnSet(g, S) = SumFunctionOnSet(f, S)
PROOF
<1>1. {} \in SUBSET S /\ Cardinality({}) = 0
  BY FS_EmptySet
<1>2. \A x \in S : g[x] = IF x \in {} THEN f[x] + 1 ELSE f[x]
  OBVIOUS
<1>3. SumFunctionOnSet(g, S) = SumFunctionOnSet(f, S) + Cardinality({})
  BY <1>1, <1>2, SumCountedOnceMore
<1>4. SumFunctionOnSet(f, S) \in Int
  BY SumRemove
<1>5. QED
  BY <1>1, <1>3, <1>4

---------------------------------------------------------------------------
(* Positions. *)

LEMMA Half ==
  ASSUME NEW i \in Nat
  PROVE  /\ i \div 2 \in Nat /\ 2 * (i \div 2) <= i /\ i <= 2 * (i \div 2) + 1
         /\ i >= 1 => i \div 2 < i
         /\ i >= 2 => i \div 2 >= 1
BY SMT

\* There is such a function, and it is as defined: the set of the positions that
\* every set with i and with the parents of its members holds is one.
LEMMA AncestorsUnfold ==
  /\ Ancestors[0] = {}
  /\ \A i \in Nat : i # 0 => Ancestors[i] = {i} \cup Ancestors[i \div 2]
PROOF
<1> DEFINE Closed(i, S) == i \in S /\ \A j \in S : j > 1 => j \div 2 \in S
           C == [i \in Nat |-> {a \in 1..i : \A S \in SUBSET (1..i) : Closed(i, S) => a \in S}]
           rhs(g, i) == IF i = 0 THEN {} ELSE {i} \cup g[i \div 2]
<1>1. \A i \in Nat : C[i] = {a \in 1..i : \A S \in SUBSET (1..i) : Closed(i, S) => a \in S}
  OBVIOUS
<1> HIDE DEF C
<1>2. C[0] = {}
  BY <1>1
<1>3. ASSUME NEW i \in Nat, i # 0 PROVE C[i] = {i} \cup C[i \div 2]
  <2> DEFINE p == i \div 2
  <2>1. p \in Nat /\ p < i /\ (i > 1 => p \in 1..p) /\ (i <= 1 => p = 0)
    BY <1>3, Half
  <2>2. \A a \in C[p] : a \in 1..p
    BY <1>1, <2>1
  <2>3. \A a \in C[p], S \in SUBSET (1..p) : Closed(p, S) => a \in S
    BY <1>1, <2>1
  <2>4. ASSUME NEW a \in C[p] PROVE a \in C[i]
    <3>1. SUFFICES ASSUME NEW S \in SUBSET (1..i), Closed(i, S) PROVE a \in S
      BY <1>1, <2>1, <2>2, <2>4
    <3>2. i > 1
      BY <1>3, <2>1, <2>2, <2>4
    <3>3. p \in S \cap (1..p)
      BY <2>1, <3>1, <3>2
    <3>4. \A j \in S \cap (1..p) : j > 1 => j \div 2 \in S \cap (1..p)
      <4>1. SUFFICES ASSUME NEW j \in S \cap (1..p), j > 1 PROVE j \div 2 \in 1..p
        BY <3>1
      <4> HIDE DEF p
      <4>2. j \div 2 \in Nat /\ j \div 2 < j /\ j \div 2 >= 1
        BY <2>1, <4>1, Half
      <4> QED BY <2>1, <4>1, <4>2
    <3>5. Closed(p, S \cap (1..p))
      BY <3>3, <3>4
    <3> HIDE DEF p, Closed
    <3> QED BY <2>3, <2>4, <3>5
  <2>5. i \in C[i]
    BY <1>1, <1>3
  <2>6. ASSUME NEW a \in C[i] PROVE a \in {i} \cup C[p]
    <3> DEFINE T == {i} \cup C[p]
    <3>1. T \in SUBSET (1..i)
      BY <1>3, <2>1, <2>2
    <3>2. \A j \in C[p] : j > 1 => j \div 2 \in C[p]
      <4>1. SUFFICES ASSUME NEW j \in C[p], j > 1 PROVE j \div 2 \in C[p]
        OBVIOUS
      <4>2. j \div 2 \in 1..p
        <5> HIDE DEF p
        <5>1. j \in 1..p
          BY <2>2, <4>1
        <5>2. j \div 2 \in Nat /\ j \div 2 < j /\ j \div 2 >= 1
          BY <2>1, <4>1, <5>1, Half
        <5> QED BY <2>1, <5>1, <5>2
      <4>3. ASSUME NEW S \in SUBSET (1..p), Closed(p, S) PROVE j \div 2 \in S
        BY <2>3, <4>1, <4>3
      <4> HIDE DEF p, Closed
      <4> QED BY <1>1, <2>1, <4>2, <4>3
    <3>3. i > 1 => p \in C[p]
      <4> HIDE DEF p
      <4>1. i > 1 => p \in 1..p
        BY <2>1
      <4>2. \A S \in SUBSET (1..p) : Closed(p, S) => p \in S
        OBVIOUS
      <4> HIDE DEF Closed
      <4> QED BY <1>1, <2>1, <4>1, <4>2
    <3>4. Closed(i, T)
      BY <3>2, <3>3
    <3> HIDE DEF Closed, T
    <3>5. a \in T
      BY <1>1, <2>6, <3>1, <3>4
    <3> QED BY <3>5 DEF T
  <2> QED BY <2>4, <2>5, <2>6
<1>4. C = [i \in Nat |-> rhs(C, i)]
  <2>1. \A i \in Nat : C[i] = rhs(C, i)
    BY <1>2, <1>3
  <2>2. C = [i \in Nat |-> C[i]]
    BY DEF C
  <2> HIDE DEF rhs
  <2> QED BY <2>1, <2>2
<1>5. Ancestors = CHOOSE g : g = [i \in Nat |-> IF i = 0 THEN {} ELSE {i} \cup g[i \div 2]]
  BY DEF Ancestors
<1>6. PICK g : g = Ancestors /\ g = [i \in Nat |-> rhs(g, i)]
  BY <1>4, <1>5
<1> HIDE DEF rhs
<1>7. \A i \in Nat : g[i] = rhs(g, i)
  BY <1>6
<1> QED BY <1>6, <1>7 DEF rhs


\* The way from a position to the root: it stays between the two, goes on from
\* each of its members, and each of them but the start has a child on it.
LEMMA AncestorFacts ==
  ASSUME NEW i \in Nat
  PROVE  /\ Ancestors[i] \subseteq 1..i
         /\ i >= 1 => i \in Ancestors[i] /\ 1 \in Ancestors[i]
         /\ \A a \in Ancestors[i] : a >= 2 => a \div 2 \in Ancestors[i]
         /\ \A a, b \in Ancestors[i] : a < b => a <= b \div 2
         /\ \A a, b \in Ancestors[i] : a <= b => a \in Ancestors[b]
         /\ \A a \in Ancestors[i] : a # i => \E c \in Ancestors[i] : c \div 2 = a /\ c > a
PROOF
<1> DEFINE Bounds(j) == /\ Ancestors[j] \subseteq 1..j
                        /\ j >= 1 => j \in Ancestors[j] /\ 1 \in Ancestors[j]
           Up(j) == \A a \in Ancestors[j] : a >= 2 => a \div 2 \in Ancestors[j]
           Steps(j) == \A a, b \in Ancestors[j] : a < b => a <= b \div 2
           Chain(j) == \A a, b \in Ancestors[j] : a <= b => a \in Ancestors[b]
           Down(j) == \A a \in Ancestors[j] :
                        a # j => \E c \in Ancestors[j] : c \div 2 = a /\ c > a
           Good(j) == Bounds(j) /\ Up(j) /\ Steps(j) /\ Chain(j) /\ Down(j)
           T == {j \in Nat : Good(j)}
<1>1. ASSUME NEW n \in Nat, \A k \in Nat : k < n => k \in T
      PROVE  n \in T
  <2>1. CASE n = 0
    BY <2>1, AncestorsUnfold
  <2>2. CASE n # 0
    <3> DEFINE p == n \div 2
    <3>1. /\ p \in Nat /\ p < n /\ n \in Nat /\ n >= 1
          /\ n >= 2 => p >= 1
          /\ n = 1 => p = 0
      BY <2>2, Half
    <3>2. Ancestors[n] = {n} \cup Ancestors[p]
      BY <2>2, AncestorsUnfold
    <3>3. Good(p)
      BY <1>1, <3>1
    <3>4. p = 0 => Ancestors[p] = {}
      BY AncestorsUnfold
    <3>5. n \div 2 = p
      OBVIOUS
    <3> HIDE DEF p
    <3>6. Bounds(n)
      BY <3>1, <3>2, <3>3, <3>4
    <3>7. Up(n)
      BY <3>1, <3>2, <3>3, <3>4, <3>5
    <3>8. Steps(n)
      <4>1. SUFFICES ASSUME NEW a \in Ancestors[n], NEW b \in Ancestors[n], a < b
                     PROVE  a <= b \div 2
        OBVIOUS
      <4>2. CASE b = n
        <5>1. a \in Ancestors[p]
          BY <3>2, <4>1, <4>2, <3>6
        <5> QED BY <3>3, <3>5, <4>2, <5>1
      <4>3. CASE b # n
        <5>1. b \in Ancestors[p] /\ a # n
          BY <3>1, <3>2, <3>3, <4>1, <4>3
        <5> QED BY <3>2, <3>3, <4>1, <5>1
      <4> QED BY <4>2, <4>3
    <3>9. Chain(n)
      <4>1. SUFFICES ASSUME NEW a \in Ancestors[n], NEW b \in Ancestors[n], a <= b
                     PROVE  a \in Ancestors[b]
        OBVIOUS
      <4>2. CASE b # n
        <5>1. b \in Ancestors[p] /\ a # n
          BY <3>1, <3>2, <3>3, <4>1, <4>2
        <5> QED BY <3>2, <3>3, <4>1, <5>1
      <4> QED BY <4>1, <4>2
    <3>10. Down(n)
      <4>1. SUFFICES ASSUME NEW a \in Ancestors[n], a # n
                     PROVE  \E c \in Ancestors[n] : c \div 2 = a /\ c > a
        OBVIOUS
      <4>2. a \in Ancestors[p]
        BY <3>2, <4>1
      <4>3. CASE a = p
        BY <3>1, <3>2, <3>5, <4>3
      <4>4. CASE a # p
        BY <3>2, <3>3, <4>2, <4>4
      <4> QED BY <4>3, <4>4
    <3> QED BY <3>6, <3>7, <3>8, <3>9, <3>10
  <2> QED BY <2>1, <2>2
<1>2. Nat \subseteq T
  <2> HIDE DEF T
  <2> QED BY <1>1, NatSetStrongInduction
<1> QED BY <1>2

---------------------------------------------------------------------------
(* Entries. *)

\* heappush on a list of S entries leaves a list of S entries that holds only
\* what was there and the entry pushed (matching_engine.py pushes makers back
\* and rests takers with it).
LEMMA PushKeepsEntries ==
  ASSUME NEW S, NEW h \in Seq(S), NEW x \in S
  PROVE  /\ HeapPush(h, x) \in Seq(S)
         /\ Len(HeapPush(h, x)) = Len(h) + 1
         /\ \A i \in DOMAIN HeapPush(h, x) :
              HeapPush(h, x)[i] = x \/ \E j \in DOMAIN h : HeapPush(h, x)[i] = h[j]
PROOF
<1> DEFINE n == Len(h) + 1
           Lowered == {i \in Ancestors[n] \ {1} :
                         \A b \in Ancestors[n] \ {1} : b >= i => KeyLess(x, h[b \div 2])}
           IsHole(i) == (i = n \/ \E c \in Lowered : c \div 2 = i) /\ i \notin Lowered
           r == [i \in 1..n |-> IF i \in Lowered THEN h[i \div 2]
                                ELSE IF IsHole(i) THEN x ELSE h[i]]
<1>1. HeapPush(h, x) = r
  BY DEF HeapPush
<1>2. n \in Nat /\ n >= 1 /\ DOMAIN h = 1..(n - 1)
  OBVIOUS
<1>3. \A i \in Lowered : i \div 2 \in 1..(n - 1)
  <2>1. \A i \in Lowered : i \in 2..n
    BY <1>2, AncestorFacts
  <2>2. \A i \in 2..n : i \div 2 \in 1..(n - 1)
    BY <1>2, SMT
  <2> QED BY <2>1, <2>2
<1>4. \A i \in 1..n : r[i] = x \/ \E j \in 1..(n - 1) : r[i] = h[j]
  <2> TAKE i \in 1..n
  <2>1. CASE i \in Lowered
    <3>1. r[i] = h[i \div 2]
      BY <2>1
    <3> HIDE DEF Lowered, r
    <3> QED BY <1>3, <2>1, <3>1
  <2>2. CASE i \notin Lowered /\ IsHole(i)
    BY <2>2
  <2>3. CASE i \notin Lowered /\ ~IsHole(i)
    <3>1. r[i] = h[i]
      BY <2>3
    <3>2. i # n
      BY <2>3
    <3> HIDE DEF Lowered, IsHole, r
    <3> QED BY <1>2, <3>1, <3>2
  <2> QED BY <2>1, <2>2, <2>3
<1>5. DOMAIN r = 1..n
  OBVIOUS
<1> HIDE DEF r
<1>6. \A j \in 1..(n - 1) : h[j] \in S
  BY <1>2
<1>7. \A i \in 1..n : r[i] \in S
  BY <1>4, <1>6
<1>8. r = [i \in 1..n |-> r[i]]
  BY DEF r
<1>9. r \in Seq(S) /\ Len(r) = n
  BY <1>2, <1>5, <1>7, <1>8
<1> QED BY <1>1, <1>2, <1>4, <1>5, <1>9

\* heappop on a list of S entries takes one off, and what it leaves was there
\* at another place than the first.
LEMMA PopKeepsEntries ==
  ASSUME NEW S, NEW h \in Seq(S), h # <<>>
  PROVE  /\ HeapPop(h) \in Seq(S)
         /\ Len(HeapPop(h)) = Len(h) - 1
         /\ \A i \in DOMAIN HeapPop(h) :
              \E j \in DOMAIN h : j # 1 /\ HeapPop(h)[i] = h[j]
PROOF
<1> DEFINE n == Len(h) - 1
           last == h[n + 1]
           Smaller(c) == IF c % 2 = 0 THEN c = n \/ KeyLess(h[c], h[c + 1])
                                      ELSE ~KeyLess(h[c - 1], h[c])
           Path == {c \in 2..n : \A a \in Ancestors[c] \ {1} : Smaller(a)}
           Risen == {c \in Path : \E q \in Path : q >= c /\ ~KeyLess(last, h[q])}
           Child(i) == {c \in Risen : c \div 2 = i}
           r == [i \in 1..n |-> IF Child(i) # {} THEN h[CHOOSE c \in Child(i) : TRUE]
                                ELSE IF i = 1 \/ i \in Risen THEN last ELSE h[i]]
<1>1. HeapPop(h) = r
  BY DEF HeapPop
<1>2. n \in Nat /\ DOMAIN h = 1..(n + 1)
  OBVIOUS
<1>3. Risen \subseteq 2..n
  OBVIOUS
<1>4. \A i \in 1..n : \E j \in 2..(n + 1) : r[i] = h[j]
  <2> TAKE i \in 1..n
  <2>1. CASE Child(i) # {}
    <3>1. PICK c \in Child(i) : r[i] = h[c]
      BY <2>1
    <3>2. c \in 2..n
      BY <1>3, <3>1
    <3> HIDE DEF r, Child
    <3> QED BY <1>2, <3>1, <3>2
  <2>2. CASE Child(i) = {} /\ (i = 1 \/ i \in Risen)
    <3>1. r[i] = h[n + 1]
      BY <2>2
    <3> HIDE DEF r, Child, Risen
    <3> QED BY <1>2, <3>1
  <2>3. CASE Child(i) = {} /\ i # 1 /\ i \notin Risen
    <3>1. r[i] = h[i]
      BY <2>3
    <3> HIDE DEF r, Child, Risen
    <3> QED BY <1>2, <2>3, <3>1
  <2> QED BY <2>1, <2>2, <2>3
<1>5. DOMAIN r = 1..n /\ r = [i \in 1..n |-> r[i]]
  <2> DEFINE body(i) == IF Child(i) # {} THEN h[CHOOSE c \in Child(i) : TRUE]
                        ELSE IF i = 1 \/ i \in Risen THEN last ELSE h[i]
  <2>1. r = [i \in 1..n |-> body(i)]
    OBVIOUS
  <2> HIDE DEF r, body
  <2> QED BY <2>1
<1> HIDE DEF r
<1>6. \A j \in 2..(n + 1) : h[j] \in S /\ j \in DOMAIN h /\ j # 1
  BY <1>2
<1>7. \A i \in 1..n : r[i] \in S
  BY <1>4, <1>6
<1>8. r \in Seq(S) /\ Len(r) = n
  BY <1>2, <1>5, <1>7
<1> QED BY <1>1, <1>2, <1>4, <1>5, <1>6, <1>8
---------------------------------------------------------------------------
(* heappush. *)

Key == Int \X Int

\* Python's order of two pairs is a total order.
LEMMA KeyOrder ==
  /\ \A a \in Key : ~KeyLess(a, a)
  /\ \A a, b \in Key : KeyLess(a, b) => ~KeyLess(b, a)
  /\ \A a, b, c \in Key : ~KeyLess(a, b) /\ ~KeyLess(b, c) => ~KeyLess(a, c)
BY DEF Key, KeyLess

\* The first entry of a heap is its least: what buys[0] and sells[0] are taken for.
THEOREM HeadIsLeast ==
  ASSUME NEW h \in Seq(Key), IsHeap(h), NEW i \in DOMAIN h
  PROVE  ~KeyLess(h[i], h[1])
PROOF
<1> DEFINE T == {j \in Nat : j \in DOMAIN h => ~KeyLess(h[j], h[1])}
<1>1. ASSUME NEW n \in Nat, \A k \in Nat : k < n => k \in T
      PROVE  n \in T
  <2>1. SUFFICES ASSUME n \in DOMAIN h PROVE ~KeyLess(h[n], h[1])
    OBVIOUS
  <2>2. CASE n = 1
    BY <2>1, <2>2, KeyOrder
  <2>3. CASE n # 1
    <3>1. n \div 2 \in Nat /\ n \div 2 < n /\ n \div 2 \in DOMAIN h /\ n \in 2..Len(h)
      BY <2>1, <2>3, Half
    <3>2. ~KeyLess(h[n \div 2], h[1])
      BY <1>1, <3>1
    <3>3. ~KeyLess(h[n], h[n \div 2])
      BY <3>1 DEF IsHeap
    <3>4. h[n] \in Key /\ h[n \div 2] \in Key /\ h[1] \in Key
      BY <2>1, <3>1
    <3> QED BY <3>2, <3>3, <3>4, KeyOrder
  <2> QED BY <2>2, <2>3
<1>2. Nat \subseteq T
  <2> HIDE DEF T
  <2> QED BY <1>1, NatSetStrongInduction
<1> QED BY <1>2

\* The positions whose parent heappush moves down into them.
PushLowered(h, x) ==
  {i \in Ancestors[Len(h) + 1] \ {1} :
     \A b \in Ancestors[Len(h) + 1] \ {1} : b >= i => KeyLess(x, h[b \div 2])}

\* The list after heappush, if L are the lowered positions and x ends at m: L is a
\* stretch of the way to the root that starts at the new position and ends below m.
PushShape(h, x, L, m) ==
  LET n == Len(h) + 1
  IN /\ L \subseteq 2..n /\ m \in (1..n) \ L
     /\ n \in L \cup {m}
     /\ \A i \in L : i \div 2 \in L \cup {m}
     /\ \A i, j \in L : i \div 2 = j \div 2 => i = j
     /\ \A i \in L \cup {m} : i = n \/ \E c \in L : c \div 2 = i
     /\ \A i \in L : KeyLess(x, h[i \div 2])
     /\ m >= 2 => ~KeyLess(x, h[m \div 2]) /\ m \div 2 \notin L
     /\ HeapPush(h, x) = [i \in 1..n |-> IF i \in L THEN h[i \div 2]
                                         ELSE IF i = m THEN x ELSE h[i]]

LEMMA PushHasShape ==
  ASSUME NEW S, NEW h \in Seq(S), NEW x
  PROVE  \E m : PushShape(h, x, PushLowered(h, x), m)
PROOF
<1> DEFINE n == Len(h) + 1
           A == Ancestors[n]
           L == PushLowered(h, x)
           IsHole(i) == (i = n \/ \E c \in L : c \div 2 = i) /\ i \notin L
<1>1. n \in Nat /\ n >= 1
  OBVIOUS
<1>2. HeapPush(h, x) = [i \in 1..n |-> IF i \in L THEN h[i \div 2]
                                       ELSE IF IsHole(i) THEN x ELSE h[i]]
  BY DEF HeapPush, PushLowered
<1>3. /\ A \subseteq 1..n /\ n \in A
      /\ \A a \in A : a >= 2 => a \div 2 \in A
      /\ \A a, b \in A : a < b => a <= b \div 2
      /\ \A a \in A : a # n => \E c \in A : c \div 2 = a /\ c > a
  BY <1>1, AncestorFacts
<1>4. /\ L = {i \in A \ {1} : \A b \in A \ {1} : b >= i => KeyLess(x, h[b \div 2])}
  BY DEF PushLowered
<1> HIDE DEF A, L, n, IsHole
<1>5. L \subseteq 2..n /\ L \subseteq A
  <2>1. L \subseteq A \ {1}
    BY <1>4
  <2>2. \A i \in A \ {1} : i \in 2..n
    BY <1>1, <1>3
  <2> QED BY <2>1, <2>2
<1>6. \A i \in L, b \in A : b >= i => b \in L
  <2> SUFFICES ASSUME NEW i \in L, NEW b \in A, b >= i PROVE b \in L
    OBVIOUS
  <2>1. i \in 2..n /\ b \in 1..n /\ b # 1
    BY <1>1, <1>3, <1>5
  <2>2. \A d \in A \ {1} : d >= b => d >= i
    BY <1>1, <1>3, <2>1
  <2> QED BY <1>4, <2>1, <2>2
<1>7. \A i \in L : KeyLess(x, h[i \div 2])
  <2> SUFFICES ASSUME NEW i \in L PROVE KeyLess(x, h[i \div 2])
    OBVIOUS
  <2>1. i \in A \ {1} /\ i >= i
    BY <1>4, <1>5, <1>1
  <2> QED BY <1>4, <2>1
<1>8. \A i, j \in L : i \div 2 = j \div 2 => i = j
  <2>1. ASSUME NEW i \in L, NEW j \in L, i < j PROVE i \div 2 # j \div 2
    <3>1. i \in Nat /\ i >= 2 /\ i <= j \div 2
      BY <1>3, <1>5, <2>1
    <3> QED BY <3>1, Half
  <2>2. \A i, j \in L : i < j \/ j < i \/ i = j
    BY <1>1, <1>5
  <2> QED BY <2>1, <2>2
<1>9. CASE n \notin L
  <2>1. L = {}
    BY <1>1, <1>3, <1>5, <1>6, <1>9
  <2>2. \A i : IsHole(i) <=> i = n
    BY <2>1 DEF IsHole
  <2>3. n >= 2 => ~KeyLess(x, h[n \div 2])
    <3>1. SUFFICES ASSUME n >= 2 PROVE ~KeyLess(x, h[n \div 2])
      OBVIOUS
    <3>2. PICK b \in A \ {1} : b >= n /\ ~KeyLess(x, h[b \div 2])
      BY <1>1, <1>3, <1>4, <1>9, <3>1
    <3>3. b = n
      BY <1>1, <1>3, <3>2
    <3> QED BY <3>2, <3>3
  <2>4. PushShape(h, x, L, n)
    BY <1>1, <1>2, <2>1, <2>2, <2>3 DEF PushShape, n
  <2> QED BY <2>4 DEF L
<1>10. CASE n \in L
  <2>1. PICK k \in L : \A i \in L : k <= i
    <3>1. L \subseteq Nat /\ L # {}
      BY <1>1, <1>5, <1>10
    <3> QED BY <3>1, LeastNumber
  <2> DEFINE m == k \div 2
  <2>2. k \in Nat /\ k >= 2 /\ m \in Nat /\ m >= 1 /\ m < k /\ m \in A
    <3>1. k \in Nat /\ k >= 2 /\ k \in A
      BY <1>1, <1>5, <2>1
    <3> QED BY <1>3, <3>1, Half
  <2>k. k \div 2 = m
    OBVIOUS
  <2> HIDE DEF m
  <2>3. m \notin L /\ m \in 1..n /\ m # n
    BY <1>1, <1>3, <1>10, <2>1, <2>2
  <2>4. \A i \in L : i \div 2 \in L \cup {m}
    <3> SUFFICES ASSUME NEW i \in L, i # k PROVE i \div 2 \in L
      BY <2>k
    <3>1. k < i /\ i \in A /\ k \in A /\ i >= 2
      BY <1>1, <1>5, <2>1, <2>2
    <3>2. k <= i \div 2 /\ i \div 2 \in A
      BY <1>3, <3>1
    <3> QED BY <1>6, <3>2
  <2>5. \A i \in L \cup {m} : i = n \/ \E c \in L : c \div 2 = i
    <3>1. ASSUME NEW i \in L, i # n PROVE \E c \in L : c \div 2 = i
      <4>1. PICK c \in A : c \div 2 = i /\ c > i
        BY <1>3, <1>5, <3>1
      <4>2. c >= i
        BY <1>1, <1>3, <1>5, <4>1
      <4> QED BY <1>6, <4>1, <4>2
    <3> QED BY <2>1, <2>k, <3>1
  <2>6. \A i : IsHole(i) <=> i = m
    BY <1>10, <2>1, <2>3, <2>4, <2>k DEF IsHole
  <2>7. m >= 2 => ~KeyLess(x, h[m \div 2]) /\ m \div 2 \notin L
    <3>1. SUFFICES ASSUME m >= 2 PROVE ~KeyLess(x, h[m \div 2]) /\ m \div 2 \notin L
      OBVIOUS
    <3>2. PICK b \in A \ {1} : b >= m /\ ~KeyLess(x, h[b \div 2])
      BY <1>4, <2>2, <2>3, <3>1
    <3>3. b \notin L
      BY <1>7, <3>2
    <3>4. b \in Nat /\ ~(b >= k)
      BY <1>1, <1>3, <1>6, <2>1, <3>2, <3>3
    <3>5. b <= m
      BY <1>3, <1>5, <2>1, <2>2, <2>k, <3>2, <3>4
    <3>6. b = m
      BY <2>2, <3>2, <3>4, <3>5
    <3>7. m \div 2 < m /\ m \div 2 \in Nat
      BY <2>2, Half
    <3>8. m \div 2 \notin L
      BY <2>1, <2>2, <3>7
    <3> QED BY <3>2, <3>6, <3>8
  <2>8. PushShape(h, x, L, m)
    <3> HIDE DEF PushShape
    <3>1. HeapPush(h, x) = [i \in 1..n |-> IF i \in L THEN h[i \div 2]
                                           ELSE IF i = m THEN x ELSE h[i]]
      BY <1>2, <2>6
    <3> QED BY <1>5, <1>7, <1>8, <1>10, <2>3, <2>4, <2>5, <2>7, <3>1 DEF PushShape, n
  <2> QED BY <2>8 DEF L
<1> QED BY <1>9, <1>10

\* No entry stands in the list twice.
Distinct(h) == \A i, j \in DOMAIN h : h[i] = h[j] => i = j

\* heappush adds the entry pushed and loses none.
THEOREM PushAddsOne ==
  ASSUME NEW S, NEW h \in Seq(S), NEW x \in S
  PROVE  /\ Range(HeapPush(h, x)) = Range(h) \cup {x}
         /\ Distinct(h) /\ x \notin Range(h) => Distinct(HeapPush(h, x))
PROOF
<1> DEFINE n == Len(h) + 1
           L == PushLowered(h, x)
           r == HeapPush(h, x)
<1>1. n \in Nat /\ n >= 1 /\ DOMAIN h = 1..(n - 1)
  OBVIOUS
<1>2. PICK m : PushShape(h, x, L, m)
  BY PushHasShape
<1> HIDE DEF n, L, r
<1>3. /\ L \subseteq 2..n /\ m \in (1..n) \ L
      /\ n \in L \cup {m}
      /\ \A i \in L : i \div 2 \in L \cup {m}
      /\ \A i, j \in L : i \div 2 = j \div 2 => i = j
      /\ \A i \in L \cup {m} : i = n \/ \E c \in L : c \div 2 = i
      /\ r = [i \in 1..n |-> IF i \in L THEN h[i \div 2] ELSE IF i = m THEN x ELSE h[i]]
  BY <1>2 DEF PushShape, n, r
<1>4. /\ DOMAIN r = 1..n /\ r[m] = x
      /\ \A i \in L : r[i] = h[i \div 2] /\ i \in 1..n
      /\ \A i \in (1..n) \ (L \cup {m}) : r[i] = h[i]
  BY <1>1, <1>3
<1>5. \A i \in L : i \div 2 \in 1..(n - 1)
  <2> SUFFICES ASSUME NEW i \in L PROVE i \div 2 \in 1..(n - 1)
    OBVIOUS
  <2>1. i \in Nat /\ i >= 2 /\ i <= n
    BY <1>1, <1>3
  <2> QED BY <1>1, <2>1, Half
<1>6. \A i \in (1..n) \ (L \cup {m}) : i \in 1..(n - 1)
  BY <1>1, <1>3
<1>7. Range(r) = Range(h) \cup {x}
  <2>1. ASSUME NEW i \in 1..n PROVE r[i] \in Range(h) \cup {x}
    BY <1>1, <1>3, <1>4, <1>5, <1>6 DEF Range
  <2>2. ASSUME NEW j \in 1..(n - 1) PROVE h[j] \in Range(r)
    <3>1. CASE j \in L \cup {m}
      <4>1. PICK c \in L : c \div 2 = j
        BY <1>1, <1>3, <2>2, <3>1
      <4> QED BY <1>4, <4>1 DEF Range
    <3>2. CASE j \notin L \cup {m}
      <4>1. j \in (1..n) \ (L \cup {m})
        BY <1>1, <2>2, <3>2
      <4> QED BY <1>4, <4>1 DEF Range
    <3> QED BY <3>1, <3>2
  <2>3. x \in Range(r)
    BY <1>3, <1>4 DEF Range
  <2> QED BY <1>1, <1>4, <2>1, <2>2, <2>3 DEF Range
<1>8. ASSUME Distinct(h), x \notin Range(h) PROVE Distinct(r)
  <2>1. \A i, j \in 1..(n - 1) : h[i] = h[j] => i = j
    BY <1>1, <1>8 DEF Distinct
  <2>2. \A i \in 1..(n - 1) : h[i] # x
    BY <1>1, <1>8 DEF Range
  <2>3. SUFFICES ASSUME NEW i \in 1..n, NEW j \in 1..n, r[i] = r[j] PROVE i = j
    BY <1>4 DEF Distinct
  <2>4. CASE i = m \/ j = m
    <3>1. \A k \in 1..n : k # m => r[k] # x
      BY <1>4, <1>5, <1>6, <2>2
    <3> QED BY <1>4, <2>3, <2>4, <3>1
  <2>5. CASE i \in L /\ j \in L
    BY <1>3, <1>4, <1>5, <2>1, <2>3, <2>5
  <2>6. CASE i \in L /\ j \notin L \cup {m}
    <3>1. i \div 2 = j
      BY <1>4, <1>5, <1>6, <2>1, <2>3, <2>6
    <3> QED BY <1>3, <2>6, <3>1
  <2>7. CASE j \in L /\ i \notin L \cup {m}
    <3>1. j \div 2 = i
      BY <1>4, <1>5, <1>6, <2>1, <2>3, <2>7
    <3> QED BY <1>3, <2>7, <3>1
  <2>8. CASE i \notin L \cup {m} /\ j \notin L \cup {m}
    BY <1>4, <1>6, <2>1, <2>3, <2>8
  <2> QED BY <2>4, <2>5, <2>6, <2>7, <2>8
<1> QED BY <1>7, <1>8 DEF r

\* heappush keeps a heap.
THEOREM PushKeepsHeap ==
  ASSUME NEW h \in Seq(Key), NEW x \in Key, IsHeap(h)
  PROVE  IsHeap(HeapPush(h, x))
PROOF
<1> DEFINE n == Len(h) + 1
           L == PushLowered(h, x)
           r == HeapPush(h, x)
<1>1. n \in Nat /\ n >= 1 /\ DOMAIN h = 1..(n - 1) /\ \A i \in 1..(n - 1) : h[i] \in Key
  OBVIOUS
<1>2. PICK m : PushShape(h, x, L, m)
  BY PushHasShape
<1>3. \A i \in 2..(n - 1) : ~KeyLess(h[i], h[i \div 2])
  BY DEF IsHeap
<1> HIDE DEF n, L, r
<1>4. /\ L \subseteq 2..n /\ m \in (1..n) \ L
      /\ n \in L \cup {m}
      /\ \A i \in L : i \div 2 \in L \cup {m}
      /\ \A i \in L \cup {m} : i = n \/ \E c \in L : c \div 2 = i
      /\ \A i \in L : KeyLess(x, h[i \div 2])
      /\ m >= 2 => ~KeyLess(x, h[m \div 2]) /\ m \div 2 \notin L
      /\ r = [i \in 1..n |-> IF i \in L THEN h[i \div 2] ELSE IF i = m THEN x ELSE h[i]]
  BY <1>2 DEF PushShape, n, r
<1>5. /\ r[m] = x
      /\ \A i \in L : r[i] = h[i \div 2]
      /\ \A i \in (1..n) \ (L \cup {m}) : r[i] = h[i] /\ i \in 1..(n - 1)
  BY <1>1, <1>4
<1>6. \A i \in 2..n : i \div 2 \in 1..(n - 1) /\ i \div 2 < i
  <2> SUFFICES ASSUME NEW i \in 2..n PROVE i \div 2 \in 1..(n - 1) /\ i \div 2 < i
    OBVIOUS
  <2> QED BY <1>1, Half
<1>7. SUFFICES ASSUME NEW i \in 2..n PROVE ~KeyLess(r[i], r[i \div 2])
  <2>1. Len(r) = n
    BY <1>1, <1>4
  <2> QED BY <1>7, <2>1 DEF IsHeap, r
<1> DEFINE p == i \div 2
<1>8. p \in 1..(n - 1) /\ p < i /\ p \in 1..n
  BY <1>1, <1>6
<1>9. p >= 2 => p \div 2 \in 1..(n - 1) /\ h[p] \in Key /\ h[p \div 2] \in Key
                /\ ~KeyLess(h[p], h[p \div 2])
  BY <1>1, <1>6, <1>8, <1>3
<1>10. i # n => i \in 1..(n - 1) /\ h[i] \in Key /\ h[p] \in Key /\ ~KeyLess(h[i], h[p])
  BY <1>1, <1>8, <1>3
<1>11. i \in L => r[i] = h[p] /\ KeyLess(x, h[p])
  BY <1>4, <1>5
<1>12. i = m => ~KeyLess(x, h[p]) /\ p \notin L
  BY <1>1, <1>4
<1>13. p \in L => r[p] = h[p \div 2] /\ p >= 2
  BY <1>1, <1>4, <1>5
<1>14. p = m => KeyLess(x, h[p])
  <2>1. SUFFICES ASSUME p = m PROVE KeyLess(x, h[p])
    OBVIOUS
  <2>2. m # n
    BY <1>1, <1>8, <2>1
  <2>3. PICK c \in L : c \div 2 = m
    BY <1>4, <2>2
  <2> QED BY <1>4, <2>1, <2>3
<1>15. i \in L => p \in L \cup {m}
  BY <1>4
<1>16. p # i
  BY <1>1, <1>8
<1>17. i \notin L \cup {m} => i # n
  BY <1>4
<1>18. /\ p \notin L \cup {m} => r[p] = h[p]
       /\ i \notin L \cup {m} => r[i] = h[i]
       /\ h[p] \in Key
  BY <1>1, <1>5, <1>8
<1>19. SUFFICES ~KeyLess(r[i], r[p])
  OBVIOUS
<1> HIDE DEF p
<1>20. CASE i \in L
  <2>1. r[i] = h[p] /\ h[p] \in Key /\ KeyLess(x, h[p])
    BY <1>11, <1>18, <1>20
  <2>2. CASE p = m
    <3>1. r[p] = x
      BY <1>5, <2>2
    <3> QED BY <2>1, <3>1, KeyOrder
  <2>3. CASE p \in L
    <3>1. r[p] = h[p \div 2] /\ ~KeyLess(h[p], h[p \div 2])
      BY <1>9, <1>13, <2>3
    <3> QED BY <2>1, <3>1
  <2> QED BY <1>15, <1>20, <2>2, <2>3
<1>21. CASE i = m
  <2>1. r[i] = x /\ r[p] = h[p]
    BY <1>5, <1>12, <1>16, <1>18, <1>21
  <2> QED BY <1>12, <1>21, <2>1
<1>22. CASE i \notin L \cup {m} /\ p \in L
  BY <1>22, <1>9, <1>10, <1>13, <1>17, <1>18, KeyOrder
<1>23. CASE i \notin L \cup {m} /\ p = m
  BY <1>23, <1>5, <1>10, <1>14, <1>17, <1>18, KeyOrder
<1>24. CASE i \notin L \cup {m} /\ p \notin L \cup {m}
  <2>1. r[i] = h[i] /\ r[p] = h[p] /\ ~KeyLess(h[i], h[p])
    BY <1>10, <1>17, <1>18, <1>24
  <2> QED BY <2>1
<1> QED BY <1>20, <1>21, <1>22, <1>23, <1>24

---------------------------------------------------------------------------
(* heappop. *)

\* A set of positions below the root that goes on upwards to the root, and never
\* holds two children of one parent.
Branch(P) == /\ P \subseteq Nat /\ \A c \in P : c >= 2
             /\ \A c \in P : c \div 2 # 1 => c \div 2 \in P
             /\ \A c, d \in P : c \div 2 = d \div 2 => c = d

LEMMA BranchHasWay ==
  ASSUME NEW P, Branch(P), NEW c \in P
  PROVE  Ancestors[c] \ {1} \subseteq P
PROOF
<1> DEFINE T == {n \in Nat : n \in P => Ancestors[n] \ {1} \subseteq P}
<1>1. ASSUME NEW n \in Nat, \A k \in Nat : k < n => k \in T
      PROVE  n \in T
  <2>1. SUFFICES ASSUME n \in P PROVE Ancestors[n] \ {1} \subseteq P
    OBVIOUS
  <2>2. n >= 2 /\ (n \div 2 # 1 => n \div 2 \in P)
    BY <2>1 DEF Branch
  <2>3. n \div 2 \in Nat /\ n \div 2 < n
    BY <2>2, Half
  <2>4. Ancestors[n] = {n} \cup Ancestors[n \div 2]
    BY <2>2, AncestorsUnfold
  <2>5. CASE n \div 2 = 1
    <3>1. Ancestors[n \div 2] \subseteq 1..1
      BY <2>5, AncestorFacts
    <3> QED BY <2>1, <2>4, <3>1
  <2>6. CASE n \div 2 # 1
    BY <1>1, <2>1, <2>2, <2>3, <2>4, <2>6
  <2> QED BY <2>5, <2>6
<1>2. Nat \subseteq T
  <2> HIDE DEF T
  <2> QED BY <1>1, NatSetStrongInduction
<1> QED BY <1>2 DEF Branch

LEMMA BranchIsChain ==
  ASSUME NEW P, Branch(P), NEW c \in P, NEW d \in P, c < d
  PROVE  c \in Ancestors[d]
PROOF
<1> DEFINE T == {n \in Nat : \A e, f \in P : e < f /\ f <= n => e \in Ancestors[f]}
<1>1. ASSUME NEW n \in Nat, \A k \in Nat : k < n => k \in T
      PROVE  n \in T
  <2>1. SUFFICES ASSUME NEW e \in P, NEW f \in P, e < f, f <= n PROVE e \in Ancestors[f]
    OBVIOUS
  <2> DEFINE q == f \div 2
  <2>2. /\ e \in Nat /\ f \in Nat /\ e >= 2 /\ f >= 2
        /\ q # 1 => q \in P
    BY <2>1 DEF Branch
  <2>3. q \in Nat /\ q < f /\ q >= 1 /\ f <= 2 * q + 1
    BY <2>2, Half
  <2>4. \A g \in P : g \div 2 = q => g = f
    BY <2>1 DEF Branch
  <2>5. Ancestors[f] = {f} \cup Ancestors[q]
    BY <2>2, AncestorsUnfold
  <2> HIDE DEF q
  <2>6. CASE q = 1
    <3>1. e \div 2 = 1
      BY <2>1, <2>2, <2>3, <2>6
    <3> QED BY <2>1, <2>2, <2>4, <2>6, <3>1
  <2>7. CASE q # 1 /\ e < q
    <3>1. q \in T /\ q \in P
      BY <1>1, <2>1, <2>2, <2>3, <2>7
    <3> QED BY <2>1, <2>3, <2>5, <2>7, <3>1
  <2>8. CASE q # 1 /\ e = q
    <3>1. q \in Ancestors[q]
      BY <2>3, AncestorFacts
    <3> QED BY <2>5, <2>8, <3>1
  <2>9. CASE q # 1 /\ q < e
    <3>1. e \in T /\ q \in P
      BY <1>1, <2>1, <2>2, <2>9
    <3>2. \A a, b \in P : a < b /\ b <= e => a \in Ancestors[b]
      BY <3>1
    <3> HIDE DEF T
    <3>3. e <= e
      BY <2>2
    <3>4. q \in Ancestors[e]
      BY <2>1, <2>9, <3>1, <3>2, <3>3
    <3>5. PICK g \in Ancestors[e] : g \div 2 = q /\ g > q
      BY <2>2, <2>9, <3>4, AncestorFacts
    <3>6. g \in 1..e
      BY <2>2, <3>5, AncestorFacts
    <3>7. g \in P
      BY <2>1, <2>3, <3>5, <3>6, BranchHasWay
    <3> QED BY <2>1, <2>2, <2>4, <3>5, <3>6, <3>7
  <2> QED BY <2>2, <2>3, <2>6, <2>7, <2>8, <2>9
<1>2. Nat \subseteq T
  <2> HIDE DEF T
  <2> QED BY <1>1, NatSetStrongInduction
<1>3. d \in Nat /\ d <= d
  BY DEF Branch
<1> QED BY <1>2, <1>3

\* The positions that the loop of heappop calls the smaller child, the chain of
\* them from the root, and those of the chain whose entry ends one level higher.
PopSmaller(h, c) == LET n == Len(h) - 1
                    IN IF c % 2 = 0 THEN c = n \/ KeyLess(h[c], h[c + 1])
                                    ELSE ~KeyLess(h[c - 1], h[c])
PopPath(h) == {c \in 2..(Len(h) - 1) : \A a \in Ancestors[c] \ {1} : PopSmaller(h, a)}
PopRisen(h) == {c \in PopPath(h) : \E q \in PopPath(h) : q >= c /\ ~KeyLess(h[Len(h)], h[q])}

\* The list after heappop, if R are the risen positions and the last entry ends at m.
PopShape(h, R, m) ==
  LET n == Len(h) - 1
  IN /\ R \subseteq 2..n /\ m \in R \cup {1}
     /\ Branch(R)
     /\ \A c \in R : c \div 2 # m
     /\ \A i \in R \cup {1} : i = m \/ \E c \in R : c \div 2 = i
     /\ DOMAIN HeapPop(h) = 1..n /\ Len(HeapPop(h)) = n
     /\ HeapPop(h)[m] = h[n + 1]
     /\ \A c \in R : HeapPop(h)[c \div 2] = h[c]
     /\ \A i \in (1..n) \ (R \cup {1}) : HeapPop(h)[i] = h[i]

LEMMA PathIsBranch ==
  ASSUME NEW S, NEW h \in Seq(S)
  PROVE  Branch(PopPath(h))
PROOF
<1> DEFINE n == Len(h) - 1
           P == PopPath(h)
<1>1. n \in Int
  OBVIOUS
<1>2. P = {c \in 2..n : \A a \in Ancestors[c] \ {1} : PopSmaller(h, a)}
  BY DEF PopPath
<1> HIDE DEF n, P
<1>3. \A c \in P : c \in Nat /\ c >= 2 /\ c <= n
  BY <1>1, <1>2
<1>4. \A c \in P : PopSmaller(h, c)
  <2> SUFFICES ASSUME NEW c \in P PROVE PopSmaller(h, c)
    OBVIOUS
  <2>1. c \in Ancestors[c] \ {1}
    BY <1>3, AncestorFacts
  <2> QED BY <1>2, <2>1
<1>5. ASSUME NEW c \in P, c \div 2 # 1 PROVE c \div 2 \in P
  <2>1. c \in Nat /\ c >= 2 /\ c \div 2 \in Nat /\ c \div 2 >= 1 /\ c \div 2 < c
    BY <1>3, Half
  <2>2. c \div 2 \in 2..n
    BY <1>1, <1>3, <1>5, <2>1
  <2>3. Ancestors[c \div 2] \subseteq Ancestors[c]
    BY <2>1, AncestorsUnfold
  <2> QED BY <1>2, <2>2, <2>3
<1>6. ASSUME NEW c \in P, NEW d \in P, c \div 2 = d \div 2, c < d PROVE FALSE
  <2>1. c \in Nat /\ d \in Nat /\ d <= n
    BY <1>3
  <2>2. d = c + 1 /\ c % 2 = 0 /\ d % 2 # 0
    BY <1>6, <2>1
  <2>3. c # n
    BY <1>1, <2>1, <2>2
  <2>4. KeyLess(h[c], h[c + 1])
    BY <1>4, <2>2, <2>3 DEF PopSmaller, n
  <2>5. ~KeyLess(h[d - 1], h[d])
    BY <1>4, <2>2 DEF PopSmaller
  <2>6. d - 1 = c
    BY <2>1, <2>2
  <2> QED BY <2>2, <2>4, <2>5, <2>6
<1>7. \A c, d \in P : c \div 2 = d \div 2 => c = d
  <2>1. \A c, d \in P : c < d \/ d < c \/ c = d
    BY <1>3
  <2> QED BY <1>6, <2>1
<1> QED BY <1>3, <1>5, <1>7 DEF Branch, P

LEMMA PopHasShape ==
  ASSUME NEW S, NEW h \in Seq(S), Len(h) >= 2
  PROVE  \E m : PopShape(h, PopRisen(h), m)
PROOF
<1> DEFINE n == Len(h) - 1
           P == PopPath(h)
           R == PopRisen(h)
           Child(i) == {c \in R : c \div 2 = i}
           body(i) == IF Child(i) # {} THEN h[CHOOSE c \in Child(i) : TRUE]
                      ELSE IF i = 1 \/ i \in R THEN h[n + 1] ELSE h[i]
           r == HeapPop(h)
<1>1. n \in Nat /\ n >= 1 /\ Len(h) = n + 1
  OBVIOUS
<1>2. r = [i \in 1..n |-> body(i)]
  BY DEF HeapPop, PopRisen, PopPath, PopSmaller
<1>3. Branch(P) /\ P \subseteq 2..n
  BY PathIsBranch DEF PopPath
<1>4. R = {c \in P : \E q \in P : q >= c /\ ~KeyLess(h[n + 1], h[q])}
  BY <1>1 DEF PopRisen
<1> HIDE DEF n, P, R, body, r
<1>5. R \subseteq P /\ R \subseteq 2..n
  BY <1>3, <1>4
<1>6. Branch(R)
  <2>1. ASSUME NEW c \in R, c \div 2 # 1 PROVE c \div 2 \in R
    <3>1. PICK q \in P : q >= c /\ ~KeyLess(h[n + 1], h[q])
      BY <1>4
    <3>2. c \in P /\ c \in Nat /\ c >= 2 /\ q \in Nat /\ c \div 2 \in P
      BY <1>3, <1>5, <2>1 DEF Branch
    <3>3. q >= c \div 2
      BY <3>1, <3>2, Half
    <3> QED BY <1>4, <3>1, <3>2, <3>3
  <2> QED BY <1>3, <1>5, <2>1 DEF Branch
<1>7. PICK m \in R \cup {1} : \A k \in R \cup {1} : k <= m
  <2>1. R \cup {1} \subseteq 0..n /\ R \cup {1} # {}
    BY <1>1, <1>5
  <2> QED BY <1>1, <2>1, GreatestNumber
<1>8. m \in Nat /\ m >= 1 /\ m <= n
  BY <1>1, <1>5, <1>7
<1>9. \A c \in R : c \div 2 # m
  <2> SUFFICES ASSUME NEW c \in R PROVE c \div 2 # m
    OBVIOUS
  <2>1. c \in Nat /\ c >= 2 /\ c <= m
    BY <1>1, <1>5, <1>7
  <2> QED BY <1>8, <2>1, Half
<1>10. ASSUME NEW i \in R \cup {1}, i # m PROVE \E c \in R : c \div 2 = i
  <2>1. i \in Nat /\ i >= 1 /\ i < m /\ m \in R
    BY <1>1, <1>5, <1>7, <1>8, <1>10
  <2>2. i \in Ancestors[m]
    <3>1. CASE i = 1
      BY <1>8, <3>1, AncestorFacts
    <3>2. CASE i # 1
      BY <1>6, <1>10, <2>1, <3>2, BranchIsChain
    <3> QED BY <3>1, <3>2
  <2>3. PICK c \in Ancestors[m] : c \div 2 = i /\ c > i
    BY <1>8, <1>10, <2>2, AncestorFacts
  <2>4. c \in 1..m
    BY <1>8, <2>3, AncestorFacts
  <2>5. c \in R
    BY <1>6, <2>1, <2>3, <2>4, BranchHasWay
  <2> QED BY <2>3, <2>5
<1>11. DOMAIN r = 1..n /\ Len(r) = n /\ \A i \in 1..n : r[i] = body(i)
  <2>1. DOMAIN r = 1..n /\ \A i \in 1..n : r[i] = body(i)
    BY <1>2
  <2>2. Len(r) = n
    <3>1. h # <<>>
      OBVIOUS
    <3> QED BY <3>1, PopKeepsEntries DEF r, n
  <2> QED BY <2>1, <2>2
<1>12. r[m] = h[n + 1]
  <2>1. Child(m) = {}
    BY <1>9
  <2>2. m \in 1..n
    BY <1>1, <1>8
  <2> QED BY <1>7, <1>11, <2>1, <2>2 DEF body
<1>13. ASSUME NEW c \in R PROVE r[c \div 2] = h[c]
  <2>1. Child(c \div 2) = {c}
    BY <1>6, <1>13 DEF Branch
  <2>2. c \in Nat /\ c >= 2 /\ c <= n
    BY <1>1, <1>5
  <2>3. c \div 2 \in 1..n
    BY <1>1, <2>2, Half
  <2>4. (CHOOSE d \in {c} : TRUE) = c
    OBVIOUS
  <2> QED BY <1>11, <2>1, <2>3, <2>4 DEF body
<1>14. ASSUME NEW i \in (1..n) \ (R \cup {1}) PROVE r[i] = h[i]
  <2>1. Child(i) = {}
    BY <1>6, <1>14 DEF Branch
  <2> QED BY <1>11, <1>14, <2>1 DEF body
<1>15. PopShape(h, R, m)
  <2>1. \A i \in R \cup {1} : i = m \/ \E c \in R : c \div 2 = i
    BY <1>10
  <2> QED BY <1>5, <1>6, <1>7, <1>9, <1>11, <1>12, <1>13, <1>14, <2>1 DEF PopShape, n, r
<1> QED BY <1>15 DEF R

\* heappop takes the first entry off and loses no other.
THEOREM PopTakesFirst ==
  ASSUME NEW S, NEW h \in Seq(S), h # <<>>, Distinct(h)
  PROVE  Range(HeapPop(h)) = Range(h) \ {h[1]} /\ Distinct(HeapPop(h))
PROOF
<1> DEFINE n == Len(h) - 1
           R == PopRisen(h)
           r == HeapPop(h)
<1>1. n \in Nat /\ DOMAIN h = 1..(n + 1) /\ Len(h) = n + 1
  OBVIOUS
<1>2. /\ Len(r) = n /\ DOMAIN r = 1..n
      /\ \A i \in DOMAIN r : \E j \in DOMAIN h : j # 1 /\ r[i] = h[j]
  <2>1. /\ HeapPop(h) \in Seq(S) /\ Len(HeapPop(h)) = Len(h) - 1
        /\ \A i \in DOMAIN HeapPop(h) : \E j \in DOMAIN h : j # 1 /\ HeapPop(h)[i] = h[j]
    BY PopKeepsEntries
  <2>2. DOMAIN HeapPop(h) = 1..Len(HeapPop(h))
    BY <2>1
  <2> QED BY <2>1, <2>2
<1>3. \A i, j \in 1..(n + 1) : h[i] = h[j] => i = j
  BY <1>1 DEF Distinct
<1> HIDE DEF n, R, r
<1>4. Range(r) \subseteq Range(h) \ {h[1]}
  <2> SUFFICES ASSUME NEW i \in DOMAIN r PROVE r[i] \in Range(h) \ {h[1]}
    BY DEF Range
  <2>1. PICK j \in DOMAIN h : j # 1 /\ r[i] = h[j]
    BY <1>2
  <2>2. 1 \in 1..(n + 1)
    BY <1>1
  <2> QED BY <1>1, <1>3, <2>1, <2>2 DEF Range
<1>5. CASE n = 0
  <2>1. DOMAIN h = {1} /\ DOMAIN r = {}
    BY <1>1, <1>2, <1>5
  <2> QED BY <2>1 DEF Range, Distinct, r
<1>6. CASE n >= 1
  <2>1. PICK m : PopShape(h, R, m)
    BY <1>1, <1>6, PopHasShape DEF R
  <2>2. /\ R \subseteq 2..n /\ m \in R \cup {1}
        /\ \A c, d \in R : c \div 2 = d \div 2 => c = d
        /\ \A i \in R \cup {1} : i = m \/ \E c \in R : c \div 2 = i
        /\ r[m] = h[n + 1]
        /\ \A c \in R : r[c \div 2] = h[c]
        /\ \A i \in (1..n) \ (R \cup {1}) : r[i] = h[i]
    BY <2>1 DEF PopShape, Branch, n, r
  <2>3. m \in 1..n /\ n + 1 \in 1..(n + 1) /\ n + 1 \notin 1..n
        /\ \A i \in 1..n : i \in 1..(n + 1)
    BY <1>1, <1>6, <2>2
  <2>4. \A c \in R : c \in 1..n /\ c \in 1..(n + 1) /\ c # n + 1 /\ c \div 2 \in 1..n
    <3> SUFFICES ASSUME NEW c \in R
                 PROVE  c \in 1..n /\ c \in 1..(n + 1) /\ c # n + 1 /\ c \div 2 \in 1..n
      OBVIOUS
    <3>1. c \in Nat /\ c >= 2 /\ c <= n
      BY <1>1, <2>2
    <3> QED BY <1>1, <3>1, Half
  <2>5. Range(h) \ {h[1]} \subseteq Range(r)
    <3>1. SUFFICES ASSUME NEW j \in 1..(n + 1), j # 1 PROVE h[j] \in Range(r)
      BY <1>1 DEF Range
    <3>2. CASE j = n + 1
      BY <1>2, <2>2, <2>3, <3>2 DEF Range
    <3>3. CASE j \in R
      BY <1>2, <2>2, <2>4, <3>3 DEF Range
    <3>4. CASE j \notin R /\ j # n + 1
      <4>1. j \in (1..n) \ (R \cup {1})
        BY <1>1, <3>1, <3>4
      <4> QED BY <1>2, <2>2, <4>1 DEF Range
    <3> QED BY <3>2, <3>3, <3>4
  <2>6. Distinct(r)
    <3>1. SUFFICES ASSUME NEW i \in 1..n, NEW j \in 1..n, r[i] = r[j] PROVE i = j
      BY <1>2 DEF Distinct
    <3> DEFINE Moved(k) == \E c \in R : c \div 2 = k
               Stays(k) == k \in (1..n) \ (R \cup {1})
    <3>2. \A k \in 1..n : k = m \/ Moved(k) \/ Stays(k)
      BY <2>2
    <3>3. \A k \in 1..n : Moved(k) \/ Stays(k) => \E c \in 1..n : r[k] = h[c]
      BY <2>2, <2>4
    <3>4. \A k \in 1..n : k # m => r[k] # h[n + 1]
      BY <1>3, <2>3, <3>2, <3>3
    <3>5. CASE i = m \/ j = m
      BY <2>2, <3>1, <3>4, <3>5
    <3>6. CASE Moved(i) /\ Moved(j)
      <4>1. PICK c \in R, d \in R : c \div 2 = i /\ d \div 2 = j
        BY <3>6
      <4>2. h[c] = h[d]
        BY <2>2, <3>1, <4>1
      <4> QED BY <1>3, <2>4, <4>1, <4>2
    <3>7. CASE Moved(i) /\ Stays(j)
      <4>1. PICK c \in R : c \div 2 = i
        BY <3>7
      <4>2. h[c] = h[j]
        BY <2>2, <3>1, <3>7, <4>1
      <4> QED BY <1>3, <2>3, <2>4, <3>7, <4>2
    <3>8. CASE Stays(i) /\ Moved(j)
      <4>1. PICK c \in R : c \div 2 = j
        BY <3>8
      <4>2. h[c] = h[i]
        BY <2>2, <3>1, <3>8, <4>1
      <4> QED BY <1>3, <2>3, <2>4, <3>8, <4>2
    <3>9. CASE Stays(i) /\ Stays(j)
      BY <1>3, <2>2, <2>3, <3>1, <3>9
    <3> HIDE DEF Moved, Stays
    <3> QED BY <3>2, <3>5, <3>6, <3>7, <3>8, <3>9
  <2> QED BY <1>4, <2>5, <2>6 DEF r
<1> QED BY <1>1, <1>5, <1>6

\* What the last entry met on its way: a risen entry is no larger than its sibling,
\* and the last entry lies between the parent and the children of its new place.
LEMMA PopOrder ==
  ASSUME NEW h \in Seq(Key), Len(h) >= 2, NEW m, PopShape(h, PopRisen(h), m)
  PROVE  /\ \A c \in PopRisen(h), i \in 2..(Len(h) - 1) :
              i \div 2 = c \div 2 => ~KeyLess(h[i], h[c])
         /\ m # 1 => ~KeyLess(h[Len(h)], h[m])
         /\ \A i \in 2..(Len(h) - 1) : i \div 2 = m => ~KeyLess(h[i], h[Len(h)])
PROOF
<1> DEFINE n == Len(h) - 1
           P == PopPath(h)
           R == PopRisen(h)
           last == h[Len(h)]
<1>1. n \in Nat /\ n >= 1 /\ Len(h) = n + 1 /\ last \in Key /\ \A i \in 1..n : h[i] \in Key
  OBVIOUS
<1>2. Branch(P) /\ P \subseteq 2..n
  BY PathIsBranch DEF PopPath
<1>3. R = {c \in P : \E q \in P : q >= c /\ ~KeyLess(last, h[q])}
  BY DEF PopRisen
<1>4. m \in R \cup {1} /\ \A c \in R : c \div 2 # m
  BY DEF PopShape
<1>5. P = {c \in 2..n : \A a \in Ancestors[c] \ {1} : PopSmaller(h, a)}
  BY DEF PopPath
<1>6. \A c : PopSmaller(h, c) <=> IF c % 2 = 0 THEN c = n \/ KeyLess(h[c], h[c + 1])
                                               ELSE ~KeyLess(h[c - 1], h[c])
  BY DEF PopSmaller
<1> HIDE DEF n, P, R, last
<1>7. ASSUME NEW c \in 2..n, PopSmaller(h, c), NEW i \in 2..n, i \div 2 = c \div 2
      PROVE  ~KeyLess(h[i], h[c])
  <2>1. c \in Nat /\ i \in Nat /\ c <= n /\ i <= n /\ h[c] \in Key /\ h[i] \in Key
    BY <1>1
  <2>2. CASE i = c
    BY <2>1, <2>2, KeyOrder
  <2>3. CASE i > c
    <3>1. i = c + 1 /\ c % 2 = 0 /\ c # n
      BY <1>1, <1>7, <2>1, <2>3
    <3>2. KeyLess(h[c], h[i])
      BY <1>6, <1>7, <3>1
    <3> QED BY <2>1, <3>2, KeyOrder
  <2>4. CASE i < c
    <3>1. i = c - 1 /\ c % 2 # 0
      BY <1>7, <2>1, <2>4
    <3> QED BY <1>6, <1>7, <3>1
  <2> QED BY <2>1, <2>2, <2>3, <2>4
<1>8. \A c \in P : c \in 2..n /\ c \in Nat /\ PopSmaller(h, c)
  <2> SUFFICES ASSUME NEW c \in P PROVE c \in 2..n /\ c \in Nat /\ PopSmaller(h, c)
    OBVIOUS
  <2>1. c \in Nat /\ c >= 2
    BY <1>1, <1>2
  <2>2. c \in Ancestors[c] \ {1}
    BY <2>1, AncestorFacts
  <2> QED BY <1>2, <1>5, <2>1, <2>2
<1>9. \A c \in R, i \in 2..n : i \div 2 = c \div 2 => ~KeyLess(h[i], h[c])
  BY <1>3, <1>7, <1>8
<1>10. m # 1 => ~KeyLess(last, h[m])
  <2>1. SUFFICES ASSUME m # 1 PROVE ~KeyLess(last, h[m])
    OBVIOUS
  <2>2. PICK q \in P : q >= m /\ ~KeyLess(last, h[q])
    BY <1>3, <1>4, <2>1
  <2>3. m \in P /\ m \in Nat /\ m >= 2 /\ q \in Nat
    BY <1>1, <1>3, <1>4, <1>8, <2>1
  <2>4. ASSUME q # m PROVE FALSE
    <3>1. m \in Ancestors[q]
      BY <1>2, <2>2, <2>3, <2>4, BranchIsChain
    <3>2. PICK c \in Ancestors[q] : c \div 2 = m /\ c > m
      BY <2>3, <2>4, <3>1, AncestorFacts
    <3>3. c \in 1..q /\ c # 1
      <4>1. c \in 1..q
        BY <2>3, <3>2, AncestorFacts
      <4> QED BY <2>3, <3>2, <4>1
    <3>4. c \in P
      BY <1>2, <3>2, <3>3, BranchHasWay
    <3>5. c \in R
      BY <1>3, <2>2, <2>3, <3>3, <3>4
    <3> QED BY <1>4, <3>2, <3>5
  <2> QED BY <2>2, <2>4
<1>11. ASSUME NEW i \in 2..n, i \div 2 = m PROVE ~KeyLess(h[i], last)
  <2>1. i \in Nat /\ i >= 2 /\ i <= n /\ m \in Nat /\ m >= 1 /\ m < i /\ i <= 2 * m + 1
    BY <1>1, <1>11, Half
  <2>2. PICK c \in 2..n : c \div 2 = m /\ PopSmaller(h, c)
    <3>1. 2 * m \in 2..n /\ (2 * m) \div 2 = m /\ (2 * m) % 2 = 0
      BY <1>1, <1>11, <2>1
    <3>2. CASE 2 * m = n \/ KeyLess(h[2 * m], h[2 * m + 1])
      BY <1>6, <3>1, <3>2
    <3>3. CASE 2 * m # n /\ ~KeyLess(h[2 * m], h[2 * m + 1])
      <4>1. /\ 2 * m + 1 \in 2..n /\ (2 * m + 1) \div 2 = m /\ (2 * m + 1) % 2 # 0
            /\ (2 * m + 1) - 1 = 2 * m
        BY <1>1, <2>1, <3>1, <3>3
      <4>2. PopSmaller(h, 2 * m + 1)
        BY <1>6, <3>3, <4>1
      <4> QED BY <4>1, <4>2
    <3> QED BY <3>2, <3>3
  <2>3. c \in Nat /\ c >= 2 /\ c >= c
    BY <1>1
  <2>4. Ancestors[c] = {c} \cup Ancestors[m]
    BY <2>2, <2>3, AncestorsUnfold
  <2>5. \A a \in Ancestors[m] \ {1} : PopSmaller(h, a)
    <3>1. CASE m = 1
      <4>1. Ancestors[m] \subseteq 1..1
        BY <3>1, AncestorFacts
      <4> QED BY <4>1
    <3>2. CASE m # 1
      BY <1>3, <1>4, <1>5, <3>2
    <3> QED BY <3>1, <3>2
  <2>6. c \in P
    BY <1>5, <2>2, <2>4, <2>5
  <2>7. c \notin R
    BY <1>4, <2>2
  <2>8. KeyLess(last, h[c])
    BY <1>3, <2>3, <2>6, <2>7
  <2>9. ~KeyLess(h[i], h[c])
    BY <1>7, <1>11, <2>2
  <2>10. h[c] \in Key /\ h[i] \in Key
    BY <1>1, <2>1, <2>2
  <2> QED BY <1>1, <2>8, <2>9, <2>10, KeyOrder
<1> QED BY <1>9, <1>10, <1>11 DEF n, R, last

\* heappop keeps a heap.
THEOREM PopKeepsHeap ==
  ASSUME NEW h \in Seq(Key), h # <<>>, IsHeap(h)
  PROVE  IsHeap(HeapPop(h))
PROOF
<1> DEFINE n == Len(h) - 1
           R == PopRisen(h)
           r == HeapPop(h)
           last == h[Len(h)]
<1>1. /\ n \in Nat /\ Len(h) = n + 1 /\ \A i \in 1..n : h[i] \in Key
      /\ last \in Key /\ last = h[n + 1]
  OBVIOUS
<1>2. \A i \in 2..n : ~KeyLess(h[i], h[i \div 2])
  BY <1>1 DEF IsHeap
<1>3. CASE n <= 1
  <2>1. Len(r) <= 1
    BY <1>3, PopKeepsEntries
  <2>2. Len(r) \in Nat
    BY PopKeepsEntries
  <2> HIDE DEF r
  <2>3. 2..Len(r) = {}
    BY <2>1, <2>2
  <2> QED BY <2>3 DEF IsHeap, r
<1>4. CASE n >= 2
  <2>1. PICK m : PopShape(h, R, m)
    BY <1>4, PopHasShape
  <2>2. /\ \A c \in R, i \in 2..n : i \div 2 = c \div 2 => ~KeyLess(h[i], h[c])
        /\ m # 1 => ~KeyLess(last, h[m])
        /\ \A i \in 2..n : i \div 2 = m => ~KeyLess(h[i], last)
    BY <1>4, <2>1, PopOrder
  <2> HIDE DEF n, R, r, last
  <2>3. /\ R \subseteq 2..n /\ m \in R \cup {1} /\ Branch(R)
        /\ \A i \in R \cup {1} : i = m \/ \E c \in R : c \div 2 = i
        /\ Len(r) = n /\ r[m] = last
        /\ \A c \in R : r[c \div 2] = h[c]
        /\ \A i \in (1..n) \ (R \cup {1}) : r[i] = h[i]
    BY <1>1, <2>1 DEF PopShape, n, r
  <2>4. \A c \in R : c \div 2 \in R \cup {1}
    BY <2>3 DEF Branch
  <2>5. \A c, d \in R : c \div 2 = d \div 2 => c = d
    BY <2>3 DEF Branch
  <2>6. SUFFICES ASSUME NEW i \in 2..n PROVE ~KeyLess(r[i], r[i \div 2])
    BY <2>3 DEF IsHeap, r
  <2> DEFINE p == i \div 2
  <2>7. p \in Nat /\ p >= 1 /\ p < i /\ p \in 1..n /\ i \in 1..n /\ i # 1 /\ i \in Nat
    BY <1>1, Half
  <2>8. ~KeyLess(h[i], h[p]) /\ h[i] \in Key /\ h[p] \in Key
    BY <1>1, <1>2, <2>7
  <2>9. /\ \A c \in R : c \div 2 = p => ~KeyLess(h[i], h[c])
        /\ p = m => ~KeyLess(h[i], last)
        /\ i \in R => p \in R \cup {1} /\ r[p] = h[i]
    BY <2>2, <2>3, <2>4
  <2>10. SUFFICES ~KeyLess(r[i], r[p])
    OBVIOUS
  <2> HIDE DEF p
  <2>11. CASE i \in R
    <3>1. r[p] = h[i]
      BY <2>9, <2>11
    <3>2. CASE i = m
      <4>1. r[i] = last /\ ~KeyLess(last, h[i])
        BY <2>2, <2>3, <2>7, <3>2
      <4> QED BY <3>1, <4>1
    <3>3. CASE i # m
      <4>1. PICK c \in R : c \div 2 = i
        BY <2>3, <2>11, <3>3
      <4>2. r[i] = h[c] /\ c \in 2..n
        BY <2>3, <4>1
      <4>3. ~KeyLess(h[c], h[i])
        BY <1>2, <4>1, <4>2
      <4> QED BY <3>1, <4>2, <4>3
    <3> QED BY <3>2, <3>3
  <2>12. CASE i \notin R
    <3>1. r[i] = h[i]
      BY <2>3, <2>7, <2>12
    <3>2. CASE p = m
      <4>1. r[p] = last
        BY <2>3, <3>2
      <4> QED BY <2>9, <3>1, <3>2, <4>1
    <3>3. CASE p \in R \cup {1} /\ p # m
      <4>1. PICK c \in R : c \div 2 = p
        BY <2>3, <3>3
      <4>2. r[p] = h[c]
        BY <2>3, <4>1
      <4> QED BY <2>9, <3>1, <4>1, <4>2
    <3>4. CASE p \notin R \cup {1}
      <4>1. r[p] = h[p]
        BY <2>3, <2>7, <3>4
      <4> QED BY <2>8, <3>1, <4>1
    <3> QED BY <3>2, <3>3, <3>4
  <2> QED BY <2>11, <2>12
<1> QED BY <1>1, <1>3, <1>4

---------------------------------------------------------------------------
(* The loops of heapq, on any list: they stop within the turns that SiftDown *)
(* and SiftUp count, and leave what HeapPush and HeapPop say.               *)

\* The states a loop over n entries goes through, and one turn of each loop.
HoleStates(S, n) == [list : [1..n -> S], at : 1..n]
DownTurn(s, item) == IF GoesDown(s, item) THEN DownOne(s) ELSE s
UpTurn(s) == IF GoesUp(s) THEN UpOne(s) ELSE s

LEMMA SeqIsFunction == ASSUME NEW S, NEW q \in Seq(S) PROVE q \in [1..Len(q) -> S]
OBVIOUS

LEMMA DownOneFacts ==
  ASSUME NEW S, NEW n \in Nat, NEW s \in HoleStates(S, n), s.at > 1
  PROVE  /\ DownOne(s) \in HoleStates(S, n)
         /\ s.at \div 2 \in 1..n /\ s.at \div 2 < s.at
         /\ DownOne(s).at = s.at \div 2
         /\ DownOne(s).list[s.at] = s.list[s.at \div 2]
         /\ \A i \in 1..n : i # s.at => DownOne(s).list[i] = s.list[i]
PROOF
<1>1. s.list \in [1..n -> S] /\ s.at \in 1..n /\ s.at \in Nat
  BY DEF HoleStates
<1>2. s.at \div 2 \in 1..n /\ s.at \div 2 < s.at
  <2>1. s.at \div 2 \in Nat /\ s.at \div 2 < s.at /\ s.at \div 2 >= 1
    BY <1>1, Half
  <2> QED BY <1>1, <2>1
<1>3. DownOne(s).at = s.at \div 2 /\ DownOne(s).list = [s.list EXCEPT ![s.at] = s.list[s.at \div 2]]
  BY DEF DownOne, Put
<1>4. DownOne(s).list \in [1..n -> S]
  BY <1>1, <1>2, <1>3
<1>5. DownOne(s) \in HoleStates(S, n)
  BY <1>2, <1>3, <1>4 DEF HoleStates, DownOne
<1> QED BY <1>1, <1>2, <1>3, <1>5

LEMMA UpOneFacts ==
  ASSUME NEW S, NEW n \in Nat, NEW s \in HoleStates(S, n), GoesUp(s)
  PROVE  \E child \in {2 * s.at, 2 * s.at + 1} :
         /\ child \in 1..n
         /\ IF child = 2 * s.at
            THEN child = n \/ KeyLess(s.list[2 * s.at], s.list[2 * s.at + 1])
            ELSE ~KeyLess(s.list[2 * s.at], s.list[2 * s.at + 1])
         /\ UpOne(s) \in HoleStates(S, n)
         /\ UpOne(s).at = child
         /\ UpOne(s).list[s.at] = s.list[child]
         /\ \A i \in 1..n : i # s.at => UpOne(s).list[i] = s.list[i]
PROOF
<1>1. s.list \in [1..n -> S] /\ s.at \in 1..n /\ s.at \in Nat
  BY DEF HoleStates
<1>2. Len(s.list) = n /\ 2 * s.at <= n
  BY <1>1 DEF GoesUp
<1> DEFINE left == 2 * s.at
           child == IF left + 1 <= n /\ ~KeyLess(s.list[left], s.list[left + 1])
                    THEN left + 1 ELSE left
<1>3. UpOne(s).at = child /\ UpOne(s).list = [s.list EXCEPT ![s.at] = s.list[child]]
  BY <1>2 DEF UpOne, Put
<1>4. child \in {2 * s.at, 2 * s.at + 1} /\ child \in 1..n
  BY <1>1, <1>2
<1>5. IF child = 2 * s.at
      THEN child = n \/ KeyLess(s.list[2 * s.at], s.list[2 * s.at + 1])
      ELSE ~KeyLess(s.list[2 * s.at], s.list[2 * s.at + 1])
  BY <1>1, <1>2
<1>6. UpOne(s) = [list |-> UpOne(s).list, at |-> UpOne(s).at]
  BY DEF UpOne
<1> HIDE DEF child
<1>7. UpOne(s).list \in [1..n -> S]
  BY <1>1, <1>3, <1>4
<1>8. UpOne(s) \in HoleStates(S, n)
  BY <1>3, <1>4, <1>6, <1>7 DEF HoleStates
<1> QED BY <1>1, <1>3, <1>4, <1>5, <1>8

\* There is such a function as DownAfter goes through, and it is as defined.
LEMMA DownAfterUnfold ==
  ASSUME NEW S, NEW c \in Nat, NEW h, NEW pos, NEW item,
         [list |-> h, at |-> pos] \in HoleStates(S, c)
  PROVE  /\ DownAfter(h, pos, item)[0] = [list |-> h, at |-> pos]
         /\ \A n \in Nat : DownAfter(h, pos, item)[n + 1]
                             = DownTurn(DownAfter(h, pos, item)[n], item)
PROOF
<1> DEFINE W == HoleStates(S, c)
           start == [list |-> h, at |-> pos]
           move == [n \in Nat |-> [s \in W |-> DownTurn(s, item)]]
           rhs(g, n) == IF n = 0 THEN start ELSE DownTurn(g[n - 1], item)
<1>1. \A s \in W : DownTurn(s, item) \in W
  BY DownOneFacts DEF DownTurn, GoesDown
<1>2. start \in W
  OBVIOUS
<1>3. move \in [Nat -> [W -> W]] /\ \A n \in Nat, s \in W : move[n][s] = DownTurn(s, item)
  BY <1>1
<1> HIDE DEF W, move, start
<1>4. PICK f \in [Nat -> W] : f[0] = start /\ \A n \in Nat : f[n + 1] = move[n][f[n]]
  <2>1. PICK f : GoesBy(f, W, start, move)
    BY <1>2, <1>3, NatRecursion
  <2> QED BY <2>1 DEF GoesBy
<1>5. \A n \in Nat : f[n] = rhs(f, n)
  <2>1. SUFFICES ASSUME NEW n \in Nat, n # 0 PROVE f[n] = DownTurn(f[n - 1], item)
    BY <1>4
  <2>2. n - 1 \in Nat /\ (n - 1) + 1 = n
    BY <2>1
  <2>3. f[(n - 1) + 1] = move[n - 1][f[n - 1]] /\ f[n - 1] \in W
    BY <1>4, <2>2
  <2> QED BY <1>3, <2>2, <2>3
<1>6. f = [n \in Nat |-> rhs(f, n)]
  <2>1. f = [n \in Nat |-> f[n]]
    OBVIOUS
  <2> HIDE DEF rhs
  <2> QED BY <1>5, <2>1
<1>7. DownAfter(h, pos, item) = CHOOSE g : g = [n \in Nat |-> rhs(g, n)]
  BY DEF DownAfter, DownTurn, start
<1>8. PICK g : g = DownAfter(h, pos, item) /\ g = [n \in Nat |-> rhs(g, n)]
  BY <1>6, <1>7
<1> HIDE DEF rhs
<1>9. \A n \in Nat : g[n] = rhs(g, n)
  BY <1>8
<1>10. g[0] = start /\ \A n \in Nat : g[n + 1] = DownTurn(g[n], item)
  BY <1>9 DEF rhs
<1> QED BY <1>8, <1>10 DEF start

LEMMA UpAfterUnfold ==
  ASSUME NEW S, NEW c \in Nat, NEW h, NEW pos,
         [list |-> h, at |-> pos] \in HoleStates(S, c)
  PROVE  /\ UpAfter(h, pos)[0] = [list |-> h, at |-> pos]
         /\ \A n \in Nat : UpAfter(h, pos)[n + 1] = UpTurn(UpAfter(h, pos)[n])
PROOF
<1> DEFINE W == HoleStates(S, c)
           start == [list |-> h, at |-> pos]
           move == [n \in Nat |-> [s \in W |-> UpTurn(s)]]
           rhs(g, n) == IF n = 0 THEN start ELSE UpTurn(g[n - 1])
<1>1. \A s \in W : UpTurn(s) \in W
  BY UpOneFacts DEF UpTurn
<1>2. start \in W
  OBVIOUS
<1>3. move \in [Nat -> [W -> W]] /\ \A n \in Nat, s \in W : move[n][s] = UpTurn(s)
  BY <1>1
<1> HIDE DEF W, move, start
<1>4. PICK f \in [Nat -> W] : f[0] = start /\ \A n \in Nat : f[n + 1] = move[n][f[n]]
  <2>1. PICK f : GoesBy(f, W, start, move)
    BY <1>2, <1>3, NatRecursion
  <2> QED BY <2>1 DEF GoesBy
<1>5. \A n \in Nat : f[n] = rhs(f, n)
  <2>1. SUFFICES ASSUME NEW n \in Nat, n # 0 PROVE f[n] = UpTurn(f[n - 1])
    BY <1>4
  <2>2. n - 1 \in Nat /\ (n - 1) + 1 = n
    BY <2>1
  <2>3. f[(n - 1) + 1] = move[n - 1][f[n - 1]] /\ f[n - 1] \in W
    BY <1>4, <2>2
  <2> QED BY <1>3, <2>2, <2>3
<1>6. f = [n \in Nat |-> rhs(f, n)]
  <2>1. f = [n \in Nat |-> f[n]]
    OBVIOUS
  <2> HIDE DEF rhs
  <2> QED BY <1>5, <2>1
<1>7. UpAfter(h, pos) = CHOOSE g : g = [n \in Nat |-> rhs(g, n)]
  BY DEF UpAfter, UpTurn, start
<1>8. PICK g : g = UpAfter(h, pos) /\ g = [n \in Nat |-> rhs(g, n)]
  BY <1>6, <1>7
<1> HIDE DEF rhs
<1>9. \A n \in Nat : g[n] = rhs(g, n)
  BY <1>8
<1>10. g[0] = start /\ \A n \in Nat : g[n + 1] = UpTurn(g[n])
  BY <1>9 DEF rhs
<1> QED BY <1>8, <1>10 DEF start

\* What a set of states that every turn stays in says of the loop's end: _siftdown
\* has stopped after as many turns as the position it starts from.
LEMMA DownEnds ==
  ASSUME NEW S, NEW c \in Nat, NEW h, NEW pos, NEW item,
         NEW T, T \subseteq HoleStates(S, c), [list |-> h, at |-> pos] \in T,
         \A s \in T : GoesDown(s, item) => DownOne(s) \in T
  PROVE  \E e \in T : ~GoesDown(e, item) /\ SiftDown(h, pos, item) = Put(e.list, e.at, item)
PROOF
<1> DEFINE f == DownAfter(h, pos, item)
           Good(n) == f[n] \in T /\ (GoesDown(f[n], item) => f[n].at + n <= pos)
           N == {n \in Nat : Good(n)}
<1>1. f[0] = [list |-> h, at |-> pos] /\ \A n \in Nat : f[n + 1] = DownTurn(f[n], item)
  <2>1. /\ DownAfter(h, pos, item)[0] = [list |-> h, at |-> pos]
        /\ \A n \in Nat : DownAfter(h, pos, item)[n + 1] = DownTurn(DownAfter(h, pos, item)[n], item)
    <3>1. [list |-> h, at |-> pos] \in HoleStates(S, c)
      OBVIOUS
    <3> HIDE DEF f
    <3> QED BY ONLY <3>1, c \in Nat, DownAfterUnfold
  <2> QED BY <2>1 DEF f
<1>2. pos \in Nat /\ pos >= 1
  BY DEF HoleStates
<1> HIDE DEF f
<1>3. 0 \in N
  <2>1. f[0] \in T /\ f[0].at = pos
    BY <1>1
  <2> QED BY <1>2, <2>1
<1>4. ASSUME NEW n \in Nat, n \in N PROVE n + 1 \in N
  <2>1. f[n] \in T /\ f[n] \in HoleStates(S, c)
    BY <1>4
  <2>2. CASE GoesDown(f[n], item)
    <3>1. f[n + 1] = DownOne(f[n]) /\ f[n + 1] \in T
      BY <1>1, <2>1, <2>2 DEF DownTurn
    <3>2. f[n].at > 1 /\ f[n].at \in Nat
      BY <2>1, <2>2 DEF GoesDown, HoleStates
    <3>3. f[n + 1].at \in Nat /\ f[n + 1].at < f[n].at
      BY <2>1, <3>1, <3>2, DownOneFacts
    <3> QED BY <1>2, <1>4, <2>2, <3>1, <3>2, <3>3
  <2>3. CASE ~GoesDown(f[n], item)
    <3>1. f[n + 1] = f[n]
      BY <1>1, <2>3 DEF DownTurn
    <3> QED BY <2>1, <2>3, <3>1
  <2> QED BY <2>2, <2>3
<1>5. Nat \subseteq N
  <2> HIDE DEF N
  <2> QED BY <1>3, <1>4, NatSetInduction
<1>6. f[pos] \in T /\ ~GoesDown(f[pos], item)
  <2>1. Good(pos)
    BY <1>2, <1>5
  <2>2. f[pos].at \in Nat /\ f[pos].at >= 1
    BY <2>1 DEF HoleStates
  <2> QED BY <1>2, <2>1, <2>2
<1> QED BY <1>6 DEF SiftDown, f

\* The same of _siftup: after as many turns as there are entries.
LEMMA UpEnds ==
  ASSUME NEW S, NEW c \in Nat, NEW h, NEW pos, NEW item,
         NEW T, T \subseteq HoleStates(S, c), [list |-> h, at |-> pos] \in T,
         \A s \in T : GoesUp(s) => UpOne(s) \in T
  PROVE  \E e \in T : ~GoesUp(e) /\ SiftUp(h, pos, item) = SiftDown(e.list, e.at, item)
PROOF
<1> DEFINE f == UpAfter(h, pos)
           Good(n) == f[n] \in T /\ (GoesUp(f[n]) => f[n].at >= n + 1)
           N == {n \in Nat : Good(n)}
<1>1. f[0] = [list |-> h, at |-> pos] /\ \A n \in Nat : f[n + 1] = UpTurn(f[n])
  <2>1. /\ UpAfter(h, pos)[0] = [list |-> h, at |-> pos]
        /\ \A n \in Nat : UpAfter(h, pos)[n + 1] = UpTurn(UpAfter(h, pos)[n])
    <3>1. [list |-> h, at |-> pos] \in HoleStates(S, c)
      OBVIOUS
    <3> HIDE DEF f
    <3> QED BY ONLY <3>1, c \in Nat, UpAfterUnfold
  <2> QED BY <2>1 DEF f
<1>2. pos \in Nat /\ pos >= 1 /\ Len(h) = c
  BY DEF HoleStates
<1> HIDE DEF f
<1>3. 0 \in N
  <2>1. f[0] \in T /\ f[0].at = pos
    BY <1>1
  <2> QED BY <1>2, <2>1
<1>4. ASSUME NEW n \in Nat, n \in N PROVE n + 1 \in N
  <2>1. f[n] \in T /\ f[n] \in HoleStates(S, c)
    BY <1>4
  <2>2. CASE GoesUp(f[n])
    <3>1. f[n + 1] = UpOne(f[n]) /\ f[n + 1] \in T
      BY <1>1, <2>1, <2>2 DEF UpTurn
    <3>2. f[n].at \in Nat /\ f[n].at >= 1
      BY <2>1 DEF HoleStates
    <3>3. f[n + 1].at \in Nat /\ f[n + 1].at >= 2 * f[n].at
      <4>1. f[n + 1].at \in {2 * f[n].at, 2 * f[n].at + 1}
        BY <2>1, <2>2, <3>1, UpOneFacts
      <4> QED BY <3>2, <4>1
    <3> QED BY <1>4, <2>2, <3>1, <3>2, <3>3
  <2>3. CASE ~GoesUp(f[n])
    <3>1. f[n + 1] = f[n]
      BY <1>1, <2>3 DEF UpTurn
    <3> QED BY <2>1, <2>3, <3>1
  <2> QED BY <2>2, <2>3
<1>5. Nat \subseteq N
  <2> HIDE DEF N
  <2> QED BY <1>3, <1>4, NatSetInduction
<1>6. f[c] \in T /\ ~GoesUp(f[c])
  <2>1. Good(c)
    BY <1>5
  <2>2. f[c].at \in Nat /\ f[c].at <= c
    BY <2>1 DEF HoleStates
  <2> QED BY <2>1, <2>2
<1> QED BY <1>2, <1>6 DEF SiftUp, f

\* What a push's loop keeps: the positions of the way to the root that it has passed
\* hold their parent's entry, which is larger than x, and the others their own.
PushWay(h, x, s) ==
  LET n == Len(h) + 1
  IN /\ s.at \in Ancestors[n]
     /\ \A b \in Ancestors[n] : b > s.at => s.list[b] = h[b \div 2] /\ KeyLess(x, h[b \div 2])
     /\ \A i \in 1..Len(h) : i # s.at /\ (i \in Ancestors[n] => i < s.at) => s.list[i] = h[i]

LEMMA PushWayGoesOn ==
  ASSUME NEW S, NEW h \in Seq(S), NEW x, NEW s \in HoleStates(S, Len(h) + 1),
         PushWay(h, x, s), GoesDown(s, x)
  PROVE  PushWay(h, x, DownOne(s))
PROOF
<1> DEFINE n == Len(h) + 1
           A == Ancestors[n]
           t == DownOne(s)
<1>1. /\ n \in Nat /\ n = Len(h) + 1 /\ Len(h) \in Nat
      /\ s.at \in A /\ s.at \in 1..n /\ s.at > 1
  BY DEF PushWay, GoesDown, HoleStates
<1>2. /\ A \subseteq 1..n
      /\ s.at \div 2 \in A
      /\ \A a, b \in A : a < b => a <= b \div 2
  BY <1>1, AncestorFacts
<1>3. /\ s.at \div 2 < s.at /\ t.at = s.at \div 2 /\ t.list[s.at] = s.list[s.at \div 2]
      /\ \A i \in 1..n : i # s.at => t.list[i] = s.list[i]
  BY <1>1, DownOneFacts
<1>4. KeyLess(x, s.list[s.at \div 2])
  BY DEF GoesDown
<1>5. /\ \A b \in A : b > s.at => s.list[b] = h[b \div 2] /\ KeyLess(x, h[b \div 2])
      /\ \A i \in 1..Len(h) : i # s.at /\ (i \in A => i < s.at) => s.list[i] = h[i]
  BY DEF PushWay
<1> HIDE DEF A, t, n
<1>6. s.list[s.at \div 2] = h[s.at \div 2]
  BY <1>1, <1>2, <1>3, <1>5
<1>7. ASSUME NEW b \in A, b > t.at
      PROVE  t.list[b] = h[b \div 2] /\ KeyLess(x, h[b \div 2])
  <2>1. CASE b = s.at
    BY <1>3, <1>4, <1>6, <2>1
  <2>2. CASE b # s.at
    <3>1. b \in 1..n /\ b > s.at
      BY <1>1, <1>2, <1>3, <1>7, <2>2
    <3> QED BY <1>3, <1>5, <3>1
  <2> QED BY <2>1, <2>2
<1>8. ASSUME NEW i \in 1..Len(h), i # t.at, i \in A => i < t.at
      PROVE  t.list[i] = h[i]
  <2>1. i # s.at /\ (i \in A => i < s.at) /\ i \in 1..n
    BY <1>1, <1>2, <1>3, <1>8
  <2> QED BY <1>3, <1>5, <2>1
<1> QED BY <1>2, <1>3, <1>7, <1>8 DEF PushWay, A, n, t

\* What CPython's heappush leaves is what HeapPush says, whatever list it is given.
THEOREM PushIsLoop ==
  ASSUME NEW S, NEW h \in Seq(S), NEW x \in S
  PROVE  HeapPush(h, x) = HeappushLoop(h, x)
PROOF
<1> DEFINE n == Len(h) + 1
           A == Ancestors[n]
           L == PushLowered(h, x)
           T == {s \in HoleStates(S, n) : PushWay(h, x, s)}
           start == [list |-> Append(h, x), at |-> n]
<1>1. n \in Nat /\ n >= 1 /\ n = Len(h) + 1 /\ Len(h) \in Nat
  OBVIOUS
<1>2. /\ A \subseteq 1..n /\ n \in A /\ \A a \in A : a >= 2 => a \div 2 \in A
      /\ \A a, b \in A : a < b => a <= b \div 2
  BY <1>1, AncestorFacts
<1>3. start \in T
  <2>1. Append(h, x) \in [1..n -> S] /\ \A i \in 1..Len(h) : Append(h, x)[i] = h[i]
    <3>1. Append(h, x) \in Seq(S) /\ Len(Append(h, x)) = n
      OBVIOUS
    <3>2. \A i \in 1..Len(h) : Append(h, x)[i] = h[i]
      OBVIOUS
    <3> HIDE DEF n
    <3> QED BY <3>1, <3>2, SeqIsFunction
  <2>2. start \in HoleStates(S, n)
    BY <1>1, <2>1 DEF HoleStates
  <2>3. PushWay(h, x, start)
    <3>1. start.list = Append(h, x) /\ start.at = n
      OBVIOUS
    <3> HIDE DEF start, A
    <3>2. \A b \in A : ~(b > n)
      BY <1>1, <1>2
    <3> QED BY <1>2, <2>1, <3>1, <3>2 DEF PushWay, A
  <2> QED BY <2>2, <2>3
<1>4. \A s \in T : GoesDown(s, x) => DownOne(s) \in T
  <2> SUFFICES ASSUME NEW s \in T, GoesDown(s, x) PROVE DownOne(s) \in T
    OBVIOUS
  <2>1. s \in HoleStates(S, n) /\ s.at > 1
    BY DEF GoesDown
  <2> QED BY <1>1, <2>1, DownOneFacts, PushWayGoesOn
<1>5. T \subseteq HoleStates(S, n)
  OBVIOUS
<1>6. PICK e \in T : ~GoesDown(e, x) /\ SiftDown(Append(h, x), n, x) = Put(e.list, e.at, x)
  <2>1. [list |-> Append(h, x), at |-> n] \in T
    BY <1>3
  <2>2. n \in Nat
    OBVIOUS
  <2> HIDE DEF T, n, start
  <2>3. T \subseteq HoleStates(S, n) /\ [list |-> Append(h, x), at |-> n] \in T
    BY <1>5, <2>1
  <2> DEFINE g == Append(h, x)
  <2>4. [list |-> g, at |-> n] \in T
    BY <2>3
  <2> HIDE DEF g
  <2>5. \E e \in T : ~GoesDown(e, x) /\ SiftDown(g, n, x) = Put(e.list, e.at, x)
    BY ONLY <1>4, <2>2, <2>3, <2>4, DownEnds
  <2> QED BY <2>5 DEF g
<1>7. e \in HoleStates(S, n) /\ PushWay(h, x, e)
  OBVIOUS
<1> HIDE DEF T, start, A, L
<1>8. e.at \in 1..n /\ e.at \in A /\ e.list \in [1..n -> S]
  BY <1>7 DEF HoleStates, PushWay, A
<1>9. /\ \A b \in A : b > e.at => e.list[b] = h[b \div 2] /\ KeyLess(x, h[b \div 2])
      /\ \A i \in 1..Len(h) : i # e.at /\ (i \in A => i < e.at) => e.list[i] = h[i]
  BY <1>7 DEF PushWay, A
<1>10. e.at >= 2 => ~KeyLess(x, h[e.at \div 2])
  <2> SUFFICES ASSUME e.at >= 2 PROVE ~KeyLess(x, h[e.at \div 2])
    OBVIOUS
  <2>1. e.at \div 2 \in Nat /\ e.at \div 2 < e.at /\ e.at \div 2 >= 1
    BY <1>8, Half
  <2>2. e.list[e.at \div 2] = h[e.at \div 2]
    BY <1>1, <1>8, <1>9, <2>1
  <2> QED BY <1>6, <1>8, <2>2 DEF GoesDown
<1>11. L = {i \in A : i > e.at}
  <2>1. L = {i \in A \ {1} : \A b \in A \ {1} : b >= i => KeyLess(x, h[b \div 2])}
    BY DEF PushLowered, L, A
  <2>2. ASSUME NEW i \in A, i > e.at PROVE i \in L
    <3>1. i # 1 /\ \A b \in A : b >= i => b > e.at
      BY <1>1, <1>2, <1>8, <2>2
    <3> QED BY <1>9, <2>1, <2>2, <3>1
  <2>3. ASSUME NEW i \in L PROVE i \in A /\ i > e.at
    <3>1. i \in A /\ i \in 1..n /\ i # 1
      BY <1>2, <2>1
    <3>2. ~(i <= e.at)
      <4> SUFFICES ASSUME i <= e.at PROVE FALSE
        OBVIOUS
      <4>1. e.at >= 2 /\ e.at # 1
        BY <1>8, <3>1
      <4> QED BY <1>8, <1>10, <2>1, <2>3, <4>1
    <3> QED BY <1>8, <3>1, <3>2
  <2> QED BY <2>2, <2>3
<1>12. PICK m : PushShape(h, x, L, m)
  BY PushHasShape DEF L
<1>13. /\ m \in (1..n) \ L
       /\ m = n \/ \E c \in L : c \div 2 = m
       /\ n \in L \cup {m}
       /\ HeapPush(h, x) = [i \in 1..n |-> IF i \in L THEN h[i \div 2]
                                           ELSE IF i = m THEN x ELSE h[i]]
  BY <1>12 DEF PushShape
<1>14. m = e.at
  <2>1. m \in A
    <3>1. CASE m = n
      BY <1>2, <3>1
    <3>2. CASE \E c \in L : c \div 2 = m
      <4>1. PICK c \in L : c \div 2 = m
        BY <3>2
      <4>2. c \in A /\ c >= 2
        BY <1>2, <1>8, <1>11, <4>1
      <4> QED BY <1>2, <4>1, <4>2
    <3> QED BY <1>13, <3>1, <3>2
  <2>2. m <= e.at
    BY <1>8, <1>11, <1>13, <2>1
  <2>3. ~(m < e.at)
    <3> SUFFICES ASSUME m < e.at PROVE FALSE
      OBVIOUS
    <3>1. PICK c \in L : c \div 2 = m
      BY <1>8, <1>13
    <3>2. c \in A /\ c > e.at
      BY <1>11
    <3>3. e.at <= c \div 2
      BY <1>2, <1>8, <3>2
    <3> QED BY <1>1, <1>8, <1>13, <3>1, <3>3
  <2> QED BY <1>8, <1>13, <2>2, <2>3
<1>15. ASSUME NEW i \in 1..n
       PROVE  Put(e.list, e.at, x)[i] = IF i \in L THEN h[i \div 2] ELSE IF i = m THEN x ELSE h[i]
  <2>1. Put(e.list, e.at, x)[i] = IF i = e.at THEN x ELSE e.list[i]
    BY <1>8 DEF Put
  <2>2. CASE i \in L
    <3>1. i \in A /\ i > e.at
      BY <1>11, <2>2
    <3>2. i # e.at
      BY <1>8, <3>1
    <3> QED BY <1>9, <2>1, <2>2, <3>1, <3>2
  <2>3. CASE i \notin L /\ i # m
    <3>1. i \in 1..Len(h)
      BY <1>1, <1>13, <2>3
    <3>2. i \in A => i < e.at
      BY <1>8, <1>11, <1>14, <2>3
    <3> QED BY <1>9, <1>14, <2>1, <2>3, <3>1, <3>2
  <2> QED BY <1>13, <1>14, <2>1, <2>2, <2>3
<1>16. Put(e.list, e.at, x) \in [1..n -> S]
  BY <1>8 DEF Put
<1>17. HeapPush(h, x) = Put(e.list, e.at, x)
  BY <1>13, <1>15, <1>16
<1> QED BY <1>6, <1>17 DEF HeappushLoop

\* On a branch, of two positions the higher up is above the other's parent or is it.
LEMMA BranchSteps ==
  ASSUME NEW P, Branch(P), NEW c \in P, NEW d \in P, c < d
  PROVE  c <= d \div 2
PROOF
<1>1. c \in Nat /\ d \in Nat
  BY DEF Branch
<1>2. c \in Ancestors[d] /\ d \in Ancestors[d]
  <2>1. d >= 1
    BY <1>1
  <2> QED BY <1>1, <2>1, BranchIsChain, AncestorFacts
<1> QED BY <1>1, <1>2, AncestorFacts

\* What the first loop of a pop keeps: the hole is on the chain, the entries of the
\* chain down to it are one level higher, the others in their place.
PopWayDown(h, s) ==
  LET P == PopPath(h)
  IN /\ s.at \in P \cup {1}
     /\ \A c \in P : c <= s.at => s.list[c \div 2] = h[c]
     /\ \A i \in 1..(Len(h) - 1) : (\A c \in P : c \div 2 = i => c > s.at) => s.list[i] = h[i]

LEMMA PopWayDownGoesOn ==
  ASSUME NEW S, NEW h \in Seq(S), Len(h) >= 2, NEW s \in HoleStates(S, Len(h) - 1),
         PopWayDown(h, s), GoesUp(s)
  PROVE  PopWayDown(h, UpOne(s))
PROOF
<1> DEFINE n == Len(h) - 1
           P == PopPath(h)
           t == UpOne(s)
<1>1. n \in Nat /\ n >= 1 /\ s.at \in 1..n /\ s.at \in P \cup {1} /\ s \in HoleStates(S, n)
  BY DEF PopWayDown, HoleStates
<1>2. P = {c \in 2..n : \A a \in Ancestors[c] \ {1} : PopSmaller(h, a)} /\ Branch(P)
  BY PathIsBranch DEF PopPath
<1>3. PICK child \in {2 * s.at, 2 * s.at + 1} :
        /\ child \in 1..n
        /\ IF child = 2 * s.at
           THEN child = n \/ KeyLess(s.list[2 * s.at], s.list[2 * s.at + 1])
           ELSE ~KeyLess(s.list[2 * s.at], s.list[2 * s.at + 1])
        /\ t.at = child
        /\ t.list[s.at] = s.list[child]
        /\ \A i \in 1..n : i # s.at => t.list[i] = s.list[i]
  <2> HIDE DEF n
  <2> QED BY <1>1, UpOneFacts
<1>4. /\ \A c \in P : c <= s.at => s.list[c \div 2] = h[c]
      /\ \A i \in 1..n : (\A c \in P : c \div 2 = i => c > s.at) => s.list[i] = h[i]
  BY DEF PopWayDown
<1> HIDE DEF P, t
<1>5. child \in Nat /\ child \div 2 = s.at /\ child > s.at /\ child >= 2 /\ child <= n
  BY <1>1, <1>3
<1>6. \A i \in 1..n : i > s.at => s.list[i] = h[i]
  <2> SUFFICES ASSUME NEW i \in 1..n, i > s.at PROVE s.list[i] = h[i]
    OBVIOUS
  <2>1. \A c \in P : c \div 2 = i => c > s.at
    <3> SUFFICES ASSUME NEW c \in P, c \div 2 = i PROVE c > s.at
      OBVIOUS
    <3>1. c \in Nat /\ c >= 2
      BY <1>2
    <3>2. i < c
      BY <3>1, Half
    <3> QED BY <1>1, <3>1, <3>2
  <2> QED BY <1>4, <2>1
<1>7. PopSmaller(h, child)
  <2>1. CASE child = 2 * s.at
    <3>1. child % 2 = 0
      BY <1>1, <2>1
    <3>2. child = n \/ KeyLess(h[child], h[child + 1])
      <4> SUFFICES ASSUME child # n PROVE KeyLess(h[child], h[child + 1])
        OBVIOUS
      <4>1. s.list[child] = h[child]
        BY <1>1, <1>5, <1>6
      <4>2. s.list[child + 1] = h[child + 1]
        BY <1>1, <1>5, <1>6
      <4> QED BY <1>3, <2>1, <4>1, <4>2
    <3> QED BY <3>1, <3>2 DEF PopSmaller
  <2>2. CASE child = 2 * s.at + 1
    <3>1. child % 2 # 0 /\ child - 1 = 2 * s.at
      BY <1>1, <2>2
    <3>2. ~KeyLess(h[child - 1], h[child])
      <4>1. s.list[child] = h[child]
        BY <1>1, <1>5, <1>6
      <4>2. s.list[child - 1] = h[child - 1]
        <5>1. child - 1 \in 1..n /\ child - 1 > s.at
          BY <1>1, <1>5, <3>1
        <5> QED BY <1>6, <5>1
      <4>3. child # 2 * s.at
        BY <1>1, <2>2
      <4> QED BY <1>3, <2>2, <3>1, <4>1, <4>2, <4>3
    <3> QED BY <3>1, <3>2 DEF PopSmaller
  <2> QED BY <1>3, <2>1, <2>2
<1>8. child \in P
  <2>1. Ancestors[child] = {child} \cup Ancestors[s.at]
    BY <1>5, AncestorsUnfold
  <2>2. \A a \in Ancestors[s.at] \ {1} : PopSmaller(h, a)
    <3>1. CASE s.at = 1
      <4>1. Ancestors[1] \subseteq 1..1
        BY AncestorFacts
      <4> QED BY <3>1, <4>1
    <3>2. CASE s.at \in P
      BY <1>2, <3>2
    <3> QED BY <1>1, <3>1, <3>2
  <2>3. child \in 2..n
    BY <1>1, <1>5
  <2> QED BY <1>2, <1>7, <2>1, <2>2, <2>3
<1>9. s.list[child] = h[child]
  BY <1>3, <1>5, <1>6
<1>10. ASSUME NEW c \in P, c <= t.at PROVE t.list[c \div 2] = h[c]
  <2>1. CASE c = child
    BY <1>3, <1>5, <1>9, <2>1
  <2>2. CASE c # child
    <3>1. c \in Nat /\ c >= 2 /\ c < child
      BY <1>2, <1>3, <1>5, <1>10, <2>2
    <3>2. c <= s.at
      <4>1. c <= child \div 2
        BY <1>2, <1>8, <3>1, BranchSteps
      <4> QED BY <1>5, <4>1
    <3>3. c \div 2 \in 1..n /\ c \div 2 # s.at
      <4>1. c \div 2 \in Nat /\ c \div 2 < c /\ c \div 2 >= 1
        BY <3>1, Half
      <4> QED BY <1>1, <3>1, <3>2, <4>1
    <3> QED BY <1>3, <1>4, <3>2, <3>3
  <2> QED BY <2>1, <2>2
<1>11. ASSUME NEW i \in 1..n, \A c \in P : c \div 2 = i => c > t.at
       PROVE  t.list[i] = h[i]
  <2>1. i # s.at
    BY <1>3, <1>5, <1>8, <1>11
  <2>2. \A c \in P : c \div 2 = i => c > s.at
    <3> SUFFICES ASSUME NEW c \in P, c \div 2 = i PROVE c > s.at
      OBVIOUS
    <3>1. c \in Nat /\ c > t.at
      BY <1>2, <1>11
    <3> QED BY <1>1, <1>3, <1>5, <3>1
  <2> QED BY <1>3, <1>4, <2>1, <2>2
<1> QED BY <1>3, <1>8, <1>10, <1>11 DEF PopWayDown, P, t, n

\* What its second loop keeps: the last entry is smaller than every entry of the chain
\* below the hole, and those are back in their place.
PopWayUp(h, s) ==
  LET P == PopPath(h)
  IN /\ s.at \in P \cup {1}
     /\ \A c \in P : c <= s.at => s.list[c \div 2] = h[c]
     /\ \A c \in P : c > s.at => KeyLess(h[Len(h)], h[c])
     /\ \A i \in 1..(Len(h) - 1) :
          i # s.at /\ (\A c \in P : c \div 2 = i => c > s.at) => s.list[i] = h[i]

LEMMA PopWayUpGoesOn ==
  ASSUME NEW S, NEW h \in Seq(S), Len(h) >= 2, NEW s \in HoleStates(S, Len(h) - 1),
         PopWayUp(h, s), GoesDown(s, h[Len(h)])
  PROVE  PopWayUp(h, DownOne(s))
PROOF
<1> DEFINE n == Len(h) - 1
           P == PopPath(h)
           t == DownOne(s)
           last == h[Len(h)]
<1>1. n \in Nat /\ n >= 1 /\ s.at \in 1..n /\ s.at \in P /\ s.at > 1 /\ s \in HoleStates(S, n)
  BY DEF PopWayUp, HoleStates, GoesDown
<1>2. Branch(P) /\ P \subseteq 2..n
  BY PathIsBranch DEF PopPath
<1>3. /\ s.at \div 2 < s.at /\ s.at \div 2 \in 1..n /\ t.at = s.at \div 2
      /\ t.list[s.at] = s.list[s.at \div 2]
      /\ \A i \in 1..n : i # s.at => t.list[i] = s.list[i]
  <2> HIDE DEF n
  <2> QED BY <1>1, DownOneFacts
<1>4. KeyLess(last, s.list[s.at \div 2])
  BY DEF GoesDown
<1>5. /\ \A c \in P : c <= s.at => s.list[c \div 2] = h[c]
      /\ \A c \in P : c > s.at => KeyLess(last, h[c])
      /\ \A i \in 1..n : i # s.at /\ (\A c \in P : c \div 2 = i => c > s.at) => s.list[i] = h[i]
  BY DEF PopWayUp
<1> HIDE DEF P, t, last, n
<1>6. s.list[s.at \div 2] = h[s.at]
  BY <1>1, <1>5
<1>7. t.at \in P \cup {1}
  BY <1>1, <1>2, <1>3 DEF Branch
<1>8. \A c \in P : c < s.at => c <= t.at
  BY <1>1, <1>2, <1>3, BranchSteps
<1>9. ASSUME NEW c \in P, c <= t.at PROVE t.list[c \div 2] = h[c]
  <2>1. c \in 2..n /\ c < s.at
    BY <1>1, <1>2, <1>3, <1>9
  <2>2. c \div 2 \in 1..n /\ c \div 2 # s.at
    <3>1. c \div 2 \in Nat /\ c \div 2 < c /\ c \div 2 >= 1
      BY <2>1, Half
    <3> QED BY <1>1, <2>1, <3>1
  <2>3. c <= s.at
    BY <1>1, <2>1
  <2> QED BY <1>3, <1>5, <2>2, <2>3
<1>10. ASSUME NEW c \in P, c > t.at PROVE KeyLess(last, h[c])
  <2>1. CASE c = s.at
    BY <1>4, <1>6, <2>1
  <2>2. CASE c # s.at
    <3>1. c \in 2..n /\ ~(c < s.at)
      BY <1>1, <1>2, <1>3, <1>8, <1>10
    <3>2. c > s.at
      BY <1>1, <2>2, <3>1
    <3> QED BY <1>5, <3>2
  <2> QED BY <2>1, <2>2
<1>11. ASSUME NEW i \in 1..n, i # t.at, \A c \in P : c \div 2 = i => c > t.at
       PROVE  t.list[i] = h[i]
  <2>1. CASE i = s.at
    BY <1>3, <1>6, <2>1
  <2>2. CASE i # s.at
    <3>1. \A c \in P : c \div 2 = i => c > s.at
      <4> SUFFICES ASSUME NEW c \in P, c \div 2 = i PROVE c > s.at
        OBVIOUS
      <4>1. c > t.at /\ c # s.at /\ c \in 2..n
        BY <1>2, <1>3, <1>11
      <4>2. ~(c < s.at)
        BY <1>1, <1>2, <1>3, <1>8, <4>1
      <4> QED BY <1>1, <4>1, <4>2
    <3> QED BY <1>3, <1>5, <2>2, <3>1
  <2> QED BY <2>1, <2>2
<1> QED BY <1>7, <1>9, <1>10, <1>11 DEF PopWayUp, P, t, n, last

\* What CPython's heappop leaves is what HeapPop says, whatever list it is given.
THEOREM PopIsLoop ==
  ASSUME NEW S, NEW h \in Seq(S), h # <<>>
  PROVE  HeapPop(h) = HeappopLoop(h)
PROOF
<1> DEFINE n == Len(h) - 1
           rest == SubSeq(h, 1, n)
           P == PopPath(h)
           last == h[Len(h)]
<1>1. Len(h) \in Nat /\ Len(h) >= 1 /\ n \in Nat
  OBVIOUS
<1>2. rest \in Seq(S) /\ Len(rest) = n /\ \A i \in 1..n : rest[i] = h[i]
  <2>1. n \in 0..Len(h)
    BY <1>1
  <2> HIDE DEF n
  <2> QED BY <2>1
<1>3. HeappopLoop(h) = IF rest = <<>> THEN rest ELSE SiftUp(rest, 1, last)
  BY DEF HeappopLoop
<1>4. CASE n = 0
  <2>1. rest = <<>> /\ HeapPop(h) \in Seq(S) /\ Len(HeapPop(h)) = 0
    BY <1>1, <1>2, <1>4, PopKeepsEntries
  <2> HIDE DEF rest
  <2> QED BY <1>3, <2>1
<1>5. CASE n # 0
  <2>1. Len(h) >= 2 /\ n \in Nat /\ n >= 1 /\ 1 \in 1..n
    <3>1. n = Len(h) - 1
      OBVIOUS
    <3> HIDE DEF rest, P, last, n
    <3> QED BY <1>1, <1>5, <3>1
  <2>2. Branch(P) /\ P \subseteq 2..n
    BY PathIsBranch DEF PopPath
  <2> DEFINE Down == {s \in HoleStates(S, n) : PopWayDown(h, s)}
             Up == {s \in HoleStates(S, n) : PopWayUp(h, s)}
  <2>3. [list |-> rest, at |-> 1] \in Down
    <3>1. rest \in [1..n -> S]
      <4> HIDE DEF rest, n
      <4> QED BY <1>2, SeqIsFunction
    <3>2. [list |-> rest, at |-> 1] \in HoleStates(S, n)
      <4> HIDE DEF rest, n
      <4> QED BY <2>1, <3>1 DEF HoleStates
    <3> DEFINE start == [list |-> rest, at |-> 1]
    <3>3. start.list = rest /\ start.at = 1
      OBVIOUS
    <3>4. \A c \in P : ~(c <= 1)
      BY <2>2
    <3> HIDE DEF start, rest, P
    <3>5. PopWayDown(h, start)
      BY <1>2, <3>3, <3>4 DEF PopWayDown, P
    <3> QED BY <3>2, <3>5 DEF start
  <2>4. \A s \in Down : GoesUp(s) => UpOne(s) \in Down
    <3> SUFFICES ASSUME NEW s \in Down, GoesUp(s) PROVE UpOne(s) \in Down
      OBVIOUS
    <3>1. UpOne(s) \in HoleStates(S, n)
      <4> HIDE DEF n
      <4> QED BY <1>1, UpOneFacts
    <3> QED BY <2>1, <3>1, PopWayDownGoesOn
  <2>5. Down \subseteq HoleStates(S, n)
    OBVIOUS
  <2>6. PICK u \in Down : ~GoesUp(u) /\ SiftUp(rest, 1, last) = SiftDown(u.list, u.at, last)
    <3> HIDE DEF Down, rest, last, n
    <3> QED BY ONLY <2>1, <2>3, <2>4, <2>5, UpEnds
  <2>7. u \in HoleStates(S, n) /\ PopWayDown(h, u) /\ u.at \in 1..n /\ u.at \in P \cup {1}
    BY DEF HoleStates, PopWayDown
  <2>8. 2 * u.at > n
    BY <1>1, <2>6, <2>7 DEF GoesUp, HoleStates
  <2> HIDE DEF Down, P
  <2>9. \A c \in P : c <= u.at
    <3> SUFFICES ASSUME NEW c \in P, c > u.at PROVE FALSE
      BY <2>2, <2>7
    <3>1. c \in 2..n
      BY <2>2
    <3>2. u.at <= c \div 2
      <4>1. CASE u.at = 1
        BY <3>1, <4>1, Half
      <4>2. CASE u.at \in P
        BY <2>2, <4>2, BranchSteps
      <4> QED BY <2>7, <4>1, <4>2
    <3> QED BY <2>7, <2>8, <3>1, <3>2, Half
  <2>10. PopWayUp(h, u)
    <3>1. \A c \in P : ~(c > u.at)
      BY <2>2, <2>7, <2>9
    <3> QED BY <2>7, <3>1 DEF PopWayUp, PopWayDown, P
  <2>11. [list |-> u.list, at |-> u.at] \in Up
    <3>1. u = [list |-> u.list, at |-> u.at]
      BY <2>7 DEF HoleStates
    <3> QED BY <2>7, <2>10, <3>1
  <2>12. \A s \in Up : GoesDown(s, last) => DownOne(s) \in Up
    <3> SUFFICES ASSUME NEW s \in Up, GoesDown(s, last) PROVE DownOne(s) \in Up
      OBVIOUS
    <3>1. DownOne(s) \in HoleStates(S, n)
      <4>1. s.at > 1
        BY DEF GoesDown
      <4> HIDE DEF n
      <4> QED BY <1>1, <4>1, DownOneFacts
    <3> QED BY <2>1, <3>1, PopWayUpGoesOn
  <2>13. Up \subseteq HoleStates(S, n)
    OBVIOUS
  <2>14. PICK e \in Up : ~GoesDown(e, last)
                         /\ SiftDown(u.list, u.at, last) = Put(e.list, e.at, last)
    <3> DEFINE list == u.list
               at == u.at
    <3>1. [list |-> list, at |-> at] \in Up
      BY <2>11
    <3> HIDE DEF Up, last, n, list, at
    <3>2. \E e \in Up : ~GoesDown(e, last) /\ SiftDown(list, at, last) = Put(e.list, e.at, last)
      BY ONLY <2>1, <2>12, <2>13, <3>1, DownEnds
    <3> QED BY <3>2 DEF list, at
  <2>15. /\ e \in HoleStates(S, n) /\ PopWayUp(h, e)
         /\ e.at \in 1..n /\ e.at \in P \cup {1} /\ e.list \in [1..n -> S]
    BY DEF HoleStates, PopWayUp, P
  <2> HIDE DEF Up
  <2>16. /\ \A c \in P : c <= e.at => e.list[c \div 2] = h[c]
         /\ \A c \in P : c > e.at => KeyLess(last, h[c])
         /\ \A i \in 1..n :
              i # e.at /\ (\A c \in P : c \div 2 = i => c > e.at) => e.list[i] = h[i]
    BY <2>15 DEF PopWayUp, P
  <2> DEFINE R == PopRisen(h)
  <2>17. R = {c \in P : \E q \in P : q >= c /\ ~KeyLess(last, h[q])}
    BY DEF PopRisen, P
  <2> HIDE DEF last, rest, R, n
  <2>18. R = {c \in P : c <= e.at}
    <3>1. ASSUME NEW c \in P, c <= e.at PROVE c \in R
      <4>1. c \in 2..n
        BY <2>2
      <4>2. e.at > 1 /\ e.at \in P
        BY <2>15, <3>1, <4>1
      <4>3. e.list[e.at \div 2] = h[e.at]
        BY <2>15, <2>16, <4>2
      <4>4. ~KeyLess(last, h[e.at])
        BY <2>14, <4>2, <4>3 DEF GoesDown
      <4>5. e.at >= c
        BY <2>15, <3>1, <4>1
      <4> QED BY <2>17, <4>2, <4>4, <4>5
    <3>2. ASSUME NEW c \in R PROVE c \in P /\ c <= e.at
      <4>1. PICK q \in P : q >= c /\ ~KeyLess(last, h[q])
        BY <2>17
      <4>2. c \in P /\ c \in 2..n /\ q \in 2..n
        BY <2>2, <2>17
      <4>3. ~(q > e.at)
        BY <2>16, <4>1
      <4> QED BY <2>15, <4>1, <4>2, <4>3
    <3> QED BY <3>1, <3>2
  <2>19. PICK m : PopShape(h, R, m)
    BY <2>1, PopHasShape DEF R
  <2>20. /\ m \in R \cup {1} /\ Branch(R)
         /\ \A c \in R : c \div 2 # m
         /\ \A i \in R \cup {1} : i = m \/ \E c \in R : c \div 2 = i
         /\ DOMAIN HeapPop(h) = 1..n
         /\ HeapPop(h)[m] = last
         /\ \A c \in R : HeapPop(h)[c \div 2] = h[c]
         /\ \A i \in (1..n) \ (R \cup {1}) : HeapPop(h)[i] = h[i]
    BY <1>1, <2>19 DEF PopShape, n, last
  <2>21. m = e.at
    <3>1. m <= e.at /\ m \in 1..n
      <4>1. CASE m = 1
        BY <2>1, <2>15, <4>1
      <4>2. CASE m \in R
        BY <2>2, <2>18, <4>2
      <4> QED BY <2>20, <4>1, <4>2
    <3>2. ~(m < e.at)
      <4> SUFFICES ASSUME m < e.at PROVE FALSE
        OBVIOUS
      <4>1. e.at \in P /\ e.at \in Nat /\ e.at >= 1
        BY <2>15, <3>1
      <4>2. m \in Ancestors[e.at]
        <5>1. CASE m = 1
          BY <4>1, <5>1, AncestorFacts
        <5>2. CASE m \in P
          BY <2>2, <4>1, <5>2, BranchIsChain
        <5> QED BY <2>18, <2>20, <5>1, <5>2
      <4>3. PICK d \in Ancestors[e.at] : d \div 2 = m /\ d > m
        BY <3>1, <4>1, <4>2, AncestorFacts
      <4>4. d \in 1..e.at
        BY <4>1, AncestorFacts
      <4>5. d \in P
        BY <2>2, <3>1, <4>1, <4>3, <4>4, BranchHasWay
      <4>6. d \in R
        BY <2>18, <4>1, <4>4, <4>5
      <4> QED BY <2>20, <4>3, <4>6
    <3> QED BY <2>15, <3>1, <3>2
  <2>22. ASSUME NEW i \in 1..n
         PROVE  HeapPop(h)[i] = Put(e.list, e.at, last)[i]
    <3>1. Put(e.list, e.at, last)[i] = IF i = m THEN last ELSE e.list[i]
      BY <2>15, <2>21 DEF Put
    <3>2. CASE i \in R \cup {1} /\ i # m
      <4>1. PICK c \in R : c \div 2 = i
        BY <2>20, <3>2
      <4> QED BY <2>16, <2>18, <2>20, <3>1, <3>2, <4>1
    <3>3. CASE i \notin R \cup {1}
      <4>1. i # m
        BY <2>20, <3>3
      <4>2. \A c \in P : c \div 2 = i => c > e.at
        <5> SUFFICES ASSUME NEW c \in P, c \div 2 = i, c <= e.at PROVE FALSE
          BY <2>2, <2>15
        <5>1. c \in R
          BY <2>18
        <5> QED BY <2>20, <3>3, <5>1 DEF Branch
      <4> QED BY <2>16, <2>20, <2>21, <3>1, <3>3, <4>1, <4>2
    <3> QED BY <2>20, <3>1, <3>2, <3>3
  <2>23. HeapPop(h) = Put(e.list, e.at, last)
    <3>1. HeapPop(h) = [i \in 1..n |-> HeapPop(h)[i]]
      <4>1. HeapPop(h) \in Seq(S)
        BY PopKeepsEntries
      <4> QED BY <2>20, <4>1
    <3>2. DOMAIN Put(e.list, e.at, last) = 1..n
          /\ Put(e.list, e.at, last) = [i \in 1..n |-> Put(e.list, e.at, last)[i]]
      BY <2>15 DEF Put
    <3> QED BY <2>22, <3>1, <3>2
  <2>24. rest # <<>>
    BY <1>2, <1>5
  <2> QED BY <1>3, <2>6, <2>14, <2>23, <2>24
<1> QED BY <1>4, <1>5

---------------------------------------------------------------------------
(* The closed forms beside CPython's loops, as MCHeapq walks. *)

\* Whatever has been pushed and popped, a push and a pop of what any one entry taken
\* out leaves, as the filter of cancel takes one out, do what CPython's loops do.
THEOREM LoopsAgree == HeapInit /\ [][HeapNext]_heapVars => []AgreesOnAnyList
PROOF
<1> DEFINE Keys == Ranks \X Nat
           Inv == heap \in Seq(Keys) /\ pushed \in Nat
<1>1. HeapInit => Inv
  BY DEF HeapInit
<1>2. Inv /\ [HeapNext]_heapVars => Inv'
  <2> SUFFICES ASSUME Inv, [HeapNext]_heapVars PROVE Inv'
    OBVIOUS
  <2>1. ASSUME NEW r \in Ranks, Push(r) PROVE Inv'
    <3>1. <<r, pushed + 1>> \in Keys
      OBVIOUS
    <3> HIDE DEF Keys
    <3> QED BY <2>1, <3>1, PushKeepsEntries DEF Push
  <2>2. CASE Pop
    <3> HIDE DEF Keys
    <3> QED BY <2>2, PopKeepsEntries DEF Pop
  <2>3. CASE UNCHANGED heapVars
    BY <2>3 DEF heapVars
  <2> QED BY <2>1, <2>2, <2>3 DEF HeapNext
<1>3. Inv => AgreesOnAnyList
  <2> SUFFICES ASSUME Inv, NEW drop \in DOMAIN heap
               PROVE  LET h == [i \in 1..Len(heap) - 1 |-> heap[IF i < drop THEN i ELSE i + 1]]
                      IN /\ HeapPush(h, heap[drop]) = HeappushLoop(h, heap[drop])
                         /\ h # <<>> => HeapPop(h) = HeappopLoop(h)
    BY DEF AgreesOnAnyList
  <2> DEFINE h == [i \in 1..Len(heap) - 1 |-> heap[IF i < drop THEN i ELSE i + 1]]
  <2> HIDE DEF Keys
  <2>1. h \in Seq(Keys) /\ heap[drop] \in Keys
    OBVIOUS
  <2> HIDE DEF h
  <2>2. HeapPush(h, heap[drop]) = HeappushLoop(h, heap[drop])
    BY <2>1, PushIsLoop
  <2>3. h # <<>> => HeapPop(h) = HeappopLoop(h)
    BY <2>1, PopIsLoop
  <2> QED BY <2>2, <2>3 DEF h
<1> QED BY <1>1, <1>2, <1>3, PTL

---------------------------------------------------------------------------
(* The loop of the example engine. *)

\* One turn more, from each of the states of a set in which the loop goes on.
Led(S) == {Turn(t) : t \in {u \in S : GoesOn(u)}}

\* Orders of arrival 1 to n, fills between them, and an engine that has seen them:
\* no two orders of a book arrived together.
ArrivedOrders(I, n) ==
  [id : I, side : {"buy", "sell"}, price : Nat, qty : Nat, ts : 1..n]
ArrivedFills(n) == [buy : 1..n, sell : 1..n, price : Nat, qty : Nat]
NoneTogether(book) == \A o, p \in book : o.ts = p.ts => o = p
BooksOf(I, n) == {book \in SUBSET ArrivedOrders(I, n) : IsFiniteSet(book) /\ NoneTogether(book)}
EnginesOf(I, n) == [buys : BooksOf(I, n), sells : BooksOf(I, n),
                    live : SUBSET [id : I, side : {"buy", "sell"}], fills : Seq(ArrivedFills(n))]

\* The states of the loop: the order is in neither book.
LoopStates(I, n) ==
  {s \in [order : ArrivedOrders(I, n), engine : EnginesOf(I, n)] :
     \A o \in s.engine.buys \cup s.engine.sells : o.ts # s.order.ts}

Better(side, o, p) ==
  \/ IF side = "buy" THEN o.price < p.price ELSE o.price > p.price
  \/ o.price = p.price /\ o.ts < p.ts

\* A book that is not empty has a best order.
LEMMA BestIsInBook ==
  ASSUME NEW I, NEW n, NEW book \in BooksOf(I, n), book # {}, NEW side
  PROVE  /\ BestOf(book, side) \in book
         /\ \A p \in book \ {BestOf(book, side)} : Better(side, BestOf(book, side), p)
PROOF
<1> DEFINE HasBest(T) == \E o \in T : \A p \in T \ {o} : Better(side, o, p)
           F == {T \in SUBSET book : T # {} => HasBest(T)}
<1>1. \A o \in book : o.price \in Nat /\ o.ts \in Int
  BY DEF BooksOf, ArrivedOrders
<1>2. ASSUME NEW T \in SUBSET book, NEW x \in book, T \in F, x \notin T
      PROVE  T \cup {x} \in F
  <2>1. CASE T = {}
    BY <2>1
  <2>2. CASE T # {}
    <3>1. PICK o \in T : \A p \in T \ {o} : Better(side, o, p)
      BY <1>2, <2>2
    <3>2. o.ts # x.ts
      BY <1>2, <3>1 DEF BooksOf, NoneTogether
    <3>3. Better(side, o, x) \/ Better(side, x, o)
      BY <1>1, <3>1, <3>2 DEF Better
    <3>4. Better(side, x, o) => \A p \in T : Better(side, x, p)
      BY <1>1, <3>1 DEF Better
    <3>5. HasBest(T \cup {x})
      BY <3>1, <3>3, <3>4
    <3> QED BY <3>5
  <2> QED BY <2>1, <2>2
<1>3. SUBSET book \subseteq F
  <2>1. IsFiniteSet(book) /\ {} \in F
    BY DEF BooksOf
  <2> HIDE DEF F
  <2> QED BY <1>2, <2>1, FiniteSetInduction
<1>4. PICK o \in book : \A p \in book \ {o} : Better(side, o, p)
  <2>1. HasBest(book)
    BY <1>3
  <2> QED BY <2>1
<1>5. BestOf(book, side) = CHOOSE c \in book : \A p \in book \ {c} : Better(side, c, p)
  BY DEF BestOf, Better
<1> QED BY <1>4, <1>5

LEMMA MinOfTwo ==
  ASSUME NEW a \in Nat, NEW b \in Nat
  PROVE  Min({a, b}) = IF a <= b THEN a ELSE b
PROOF
<1>1. Min({a, b}) = CHOOSE x \in {a, b} : \A y \in {a, b} : x <= y
  BY DEF Min
<1> QED BY <1>1

\* What a turn of the loop leaves, and that it uses up an order or ends the loop.
LEMMA TurnFacts ==
  ASSUME NEW I, NEW n \in Nat, NEW s \in LoopStates(I, n), GoesOn(s)
  PROVE  /\ Turn(s) \in LoopStates(I, n)
         /\ \E f \in ArrivedFills(n) : Turn(s).engine.fills = Append(s.engine.fills, f)
         /\ Turn(s).order.ts = s.order.ts
         /\ \/ Turn(s).order.qty = 0
            \/ \E o \in Against(s) : Against(Turn(s)) = Against(s) \ {o}
PROOF
<1> DEFINE best == BestAgainst(s)
           qty == Min({s.order.qty, best.qty})
           less == [best EXCEPT !.qty = @ - qty]
           usedUp == best.qty = qty
           left == (Against(s) \ {best}) \cup (IF usedUp THEN {} ELSE {less})
           fill == FillBetween(s.order, best, qty)
           o2 == [s.order EXCEPT !.qty = @ - qty]
           e2 == [buys |-> IF s.order.side = "buy" THEN s.engine.buys ELSE left,
                  sells |-> IF s.order.side = "buy" THEN left ELSE s.engine.sells,
                  live |-> IF usedUp THEN {x \in s.engine.live : x.id # best.id}
                                     ELSE s.engine.live,
                  fills |-> Append(s.engine.fills, fill)]
<1>1. /\ s = [order |-> s.order, engine |-> s.engine]
      /\ s.order \in ArrivedOrders(I, n) /\ s.engine \in EnginesOf(I, n)
      /\ Against(s) \in BooksOf(I, n) /\ Against(s) # {}
      /\ \A o \in s.engine.buys \cup s.engine.sells : o.ts # s.order.ts
  BY DEF LoopStates, EnginesOf, Against, GoesOn
<1>2. best \in Against(s) /\ best \in ArrivedOrders(I, n)
  BY <1>1, BestIsInBook DEF BestAgainst, BooksOf
<1>3. Turn(s) = [order |-> o2, engine |-> e2]
  BY DEF Turn
<1> HIDE DEF best
<1>4. /\ qty \in Nat /\ qty <= s.order.qty /\ qty <= best.qty
      /\ qty = s.order.qty \/ qty = best.qty
      /\ s.order.qty \in Nat /\ best.qty \in Nat
  <2>1. s.order.qty \in Nat /\ best.qty \in Nat
    BY <1>1, <1>2 DEF ArrivedOrders
  <2> QED BY <2>1, MinOfTwo
<1> HIDE DEF qty
<1>5. /\ less \in ArrivedOrders(I, n) /\ less.ts = best.ts
      /\ o2 \in ArrivedOrders(I, n) /\ o2.ts = s.order.ts /\ o2.side = s.order.side
      /\ o2.qty = s.order.qty - qty
  BY <1>1, <1>2, <1>4 DEF ArrivedOrders
<1> HIDE DEF less, o2
<1>6. /\ left \in BooksOf(I, n) /\ \A o \in left : o.ts # s.order.ts
  <2>1. IsFiniteSet(left)
    <3>1. IsFiniteSet(Against(s) \ {best})
      BY <1>1, FS_Subset DEF BooksOf
    <3> QED BY <3>1, FS_AddElement
  <2>2. left \subseteq ArrivedOrders(I, n)
    BY <1>1, <1>5 DEF BooksOf
  <2>3. NoneTogether(left)
    BY <1>1, <1>2, <1>5 DEF BooksOf, NoneTogether
  <2>4. \A o \in left : o.ts # s.order.ts
    BY <1>1, <1>2, <1>5 DEF Against
  <2> HIDE DEF left
  <2> QED BY <2>1, <2>2, <2>3, <2>4 DEF BooksOf
<1>7. fill \in ArrivedFills(n)
  BY <1>1, <1>2, <1>4 DEF FillBetween, ArrivedOrders, ArrivedFills
<1>8. ~usedUp => o2.qty = 0
  BY <1>4, <1>5
<1>9. usedUp => left = Against(s) \ {best}
  OBVIOUS
<1> HIDE DEF left, fill, usedUp
<1>10. e2 \in EnginesOf(I, n) /\ \A o \in e2.buys \cup e2.sells : o.ts # s.order.ts
  <2>1. /\ s.engine.buys \in BooksOf(I, n) /\ s.engine.sells \in BooksOf(I, n)
        /\ s.engine.live \in SUBSET [id : I, side : {"buy", "sell"}]
        /\ s.engine.fills \in Seq(ArrivedFills(n))
    BY <1>1 DEF EnginesOf
  <2>2. Append(s.engine.fills, fill) \in Seq(ArrivedFills(n))
    BY <1>7, <2>1
  <2> QED BY <1>1, <1>6, <2>1, <2>2 DEF EnginesOf
<1>11. Turn(s) \in LoopStates(I, n)
  BY <1>3, <1>5, <1>10 DEF LoopStates
<1>12. Turn(s).order = o2 /\ Turn(s).engine.fills = Append(s.engine.fills, fill)
  BY <1>3
<1>13. Against(Turn(s)) = left
  BY <1>3, <1>5 DEF Against
<1> QED BY <1>2, <1>5, <1>7, <1>8, <1>9, <1>11, <1>12, <1>13

\* There is such a function as After goes through, and it is as defined.
LEMMA AfterUnfold ==
  ASSUME NEW I, NEW c \in Nat, NEW s \in LoopStates(I, c)
  PROVE  /\ After(s)[0] = {s}
         /\ \A n \in Nat : After(s)[n + 1] = Led(After(s)[n])
PROOF
<1> DEFINE W == SUBSET LoopStates(I, c)
           move == [n \in Nat |-> [S \in W |-> Led(S)]]
           rhs(g, n) == IF n = 0 THEN {s} ELSE Led(g[n - 1])
<1>1. \A S \in W : Led(S) \in W
  BY TurnFacts DEF Led
<1>2. {s} \in W /\ move \in [Nat -> [W -> W]] /\ \A n \in Nat, S \in W : move[n][S] = Led(S)
  BY <1>1
<1> HIDE DEF W, move
<1>3. PICK f \in [Nat -> W] : f[0] = {s} /\ \A n \in Nat : f[n + 1] = move[n][f[n]]
  <2>1. {s} \in W /\ move \in [Nat -> [W -> W]]
    BY <1>2
  <2>2. PICK f : GoesBy(f, W, {s}, move)
    BY <2>1, NatRecursion
  <2> QED BY <2>2 DEF GoesBy
<1>4. \A n \in Nat : f[n] = rhs(f, n)
  <2>1. SUFFICES ASSUME NEW n \in Nat, n # 0 PROVE f[n] = Led(f[n - 1])
    BY <1>3
  <2>2. n - 1 \in Nat /\ (n - 1) + 1 = n
    BY <2>1
  <2>3. f[(n - 1) + 1] = move[n - 1][f[n - 1]] /\ f[n - 1] \in W
    BY <1>3, <2>2
  <2> QED BY <1>2, <2>2, <2>3
<1>5. f = [n \in Nat |-> rhs(f, n)]
  <2>1. f = [n \in Nat |-> f[n]]
    OBVIOUS
  <2> HIDE DEF rhs
  <2> QED BY <1>4, <2>1
<1>6. After(s) = CHOOSE g : g = [n \in Nat |-> IF n = 0 THEN {s}
                                              ELSE {Turn(t) : t \in {u \in g[n - 1] : GoesOn(u)}}]
  BY DEF After
<1>7. PICK g : g = After(s) /\ g = [n \in Nat |-> rhs(g, n)]
  BY <1>5, <1>6 DEF Led
<1> HIDE DEF rhs
<1>8. \A n \in Nat : g[n] = rhs(g, n)
  BY <1>7
<1>9. g[0] = {s} /\ \A n \in Nat : g[n + 1] = Led(g[n])
  BY <1>8 DEF rhs
<1> QED BY <1>7, <1>9

\* The first turn may be taken before the others, if there is one.
LEMMA AfterFirst ==
  ASSUME NEW I, NEW c \in Nat, NEW s \in LoopStates(I, c), NEW n \in Nat
  PROVE  After(s)[n + 1] = IF GoesOn(s) THEN After(Turn(s))[n] ELSE {}
PROOF
<1> DEFINE rest(k) == IF GoesOn(s) THEN After(Turn(s))[k] ELSE {}
           N == {k \in Nat : After(s)[k + 1] = rest(k)}
<1>1. 0 \in N
  <2>1. After(s)[0] = {s} /\ \A k \in Nat : After(s)[k + 1] = Led(After(s)[k])
    BY AfterUnfold
  <2>2. After(s)[0 + 1] = Led({s})
    BY <2>1
  <2>3. ASSUME GoesOn(s) PROVE After(Turn(s))[0] = {Turn(s)}
    <3>1. Turn(s) \in LoopStates(I, c)
      BY <2>3, TurnFacts
    <3> QED BY <3>1, AfterUnfold
  <2> QED BY <2>2, <2>3 DEF Led
<1>2. \A k \in Nat : k \in N => k + 1 \in N
  <2>1. SUFFICES ASSUME NEW k \in Nat, After(s)[k + 1] = rest(k)
                 PROVE  After(s)[(k + 1) + 1] = rest(k + 1)
    OBVIOUS
  <2>2. After(s)[(k + 1) + 1] = Led(rest(k))
    BY <2>1, AfterUnfold
  <2>3. (GoesOn(s) => After(Turn(s))[k + 1] = Led(After(Turn(s))[k])) /\ Led({}) = {}
    BY AfterUnfold, TurnFacts DEF Led
  <2> QED BY <2>2, <2>3
<1>3. Nat \subseteq N
  <2> HIDE DEF N
  <2> QED BY <1>1, <1>2, NatSetInduction
<1> QED BY <1>3

\* After any number of turns the loop is in such a state, with as many fills more,
\* and at the old places the old ones.
LEMMA AfterFacts ==
  ASSUME NEW I, NEW n \in Nat, NEW s \in LoopStates(I, n), NEW k \in Nat, NEW t \in After(s)[k]
  PROVE  /\ t \in LoopStates(I, n) /\ t.order.ts = s.order.ts
         /\ DOMAIN s.engine.fills \subseteq DOMAIN t.engine.fills
         /\ \A i \in DOMAIN s.engine.fills : t.engine.fills[i] = s.engine.fills[i]
PROOF
<1> DEFINE Later(u) == /\ u \in LoopStates(I, n) /\ u.order.ts = s.order.ts
                       /\ DOMAIN s.engine.fills \subseteq DOMAIN u.engine.fills
                       /\ \A i \in DOMAIN s.engine.fills : u.engine.fills[i] = s.engine.fills[i]
           N == {j \in Nat : \A u \in After(s)[j] : Later(u)}
<1>1. 0 \in N
  BY AfterUnfold
<1>2. \A j \in Nat : j \in N => j + 1 \in N
  <2>1. SUFFICES ASSUME NEW j \in Nat, \A u \in After(s)[j] : Later(u), NEW v \in After(s)[j + 1]
                 PROVE  Later(v)
    OBVIOUS
  <2>2. PICK u \in After(s)[j] : GoesOn(u) /\ v = Turn(u)
    BY <2>1, AfterUnfold DEF Led
  <2>3. Later(u)
    BY <2>1
  <2>4. PICK f \in ArrivedFills(n) : v.engine.fills = Append(u.engine.fills, f)
    BY <2>2, <2>3, TurnFacts
  <2>5. v \in LoopStates(I, n) /\ v.order.ts = u.order.ts
    BY <2>2, <2>3, TurnFacts
  <2>6. u.engine.fills \in Seq(ArrivedFills(n))
    BY <2>3 DEF LoopStates, EnginesOf
  <2>7. /\ DOMAIN u.engine.fills \subseteq DOMAIN v.engine.fills
        /\ \A i \in DOMAIN u.engine.fills : v.engine.fills[i] = u.engine.fills[i]
    BY <2>4, <2>6
  <2> QED BY <2>3, <2>5, <2>7
<1>3. Nat \subseteq N
  <2> HIDE DEF N
  <2> QED BY <1>1, <1>2, NatSetInduction
<1> QED BY <1>3

\* The loop ends, after as many turns as there are orders in the book at most.
LEMMA LoopEnds ==
  ASSUME NEW I, NEW n \in Nat, NEW s \in LoopStates(I, n)
  PROVE  \E k \in Nat : End(s) \in After(s)[k] /\ ~GoesOn(End(s))
PROOF
<1> DEFINE c == Cardinality(Against(s))
           Ended(j) == \E i \in 0..j : \E t \in After(s)[i] : ~GoesOn(t)
           N == {j \in Nat : Ended(j) \/ \E t \in After(s)[j] : Cardinality(Against(t)) <= c - j}
<1>1. \A t \in LoopStates(I, n) : IsFiniteSet(Against(t)) /\ Cardinality(Against(t)) \in Nat
  <2>1. \A t \in LoopStates(I, n) : IsFiniteSet(Against(t))
    BY DEF LoopStates, EnginesOf, BooksOf, Against
  <2> QED BY <2>1, FS_CardinalityType
<1>2. c \in Nat
  BY <1>1
<1> HIDE DEF c
<1>3. 0 \in N
  <2>1. s \in After(s)[0] /\ Cardinality(Against(s)) <= c - 0
    BY <1>1, AfterUnfold DEF c
  <2> QED BY <2>1
<1>4. \A j \in Nat : j \in N => j + 1 \in N
  <2>1. SUFFICES ASSUME NEW j \in Nat, j \in N PROVE j + 1 \in N
    OBVIOUS
  <2>2. CASE Ended(j)
    BY <2>2
  <2>3. CASE ~Ended(j)
    <3>1. PICK t \in After(s)[j] : Cardinality(Against(t)) <= c - j
      BY <2>1, <2>3
    <3>2. GoesOn(t) /\ t \in LoopStates(I, n)
      BY <2>3, <3>1, AfterFacts
    <3>3. Turn(t) \in After(s)[j + 1]
      BY <3>1, <3>2, AfterUnfold DEF Led
    <3>4. CASE Turn(t).order.qty = 0
      <4>1. ~GoesOn(Turn(t))
        BY <3>4 DEF GoesOn
      <4>2. Ended(j + 1)
        BY <3>3, <4>1
      <4> QED BY <4>2
    <3>5. CASE \E o \in Against(t) : Against(Turn(t)) = Against(t) \ {o}
      <4>1. Cardinality(Against(Turn(t))) = Cardinality(Against(t)) - 1
        BY <1>1, <3>2, <3>5, FS_RemoveElement
      <4>2. Cardinality(Against(Turn(t))) <= c - (j + 1)
        BY <1>1, <1>2, <3>1, <3>2, <4>1
      <4> QED BY <3>3, <4>2
    <3> QED BY <3>2, <3>4, <3>5, TurnFacts
  <2> QED BY <2>2, <2>3
<1>5. Ended(c)
  <2>1. c \in N
    <3>1. Nat \subseteq N
      <4> HIDE DEF N
      <4> QED BY <1>3, <1>4, NatSetInduction
    <3> QED BY <1>2, <3>1
  <2>2. ASSUME NEW t \in After(s)[c], Cardinality(Against(t)) <= c - c PROVE ~GoesOn(t)
    <3>1. t \in LoopStates(I, n)
      BY <1>2, AfterFacts
    <3>2. Cardinality(Against(t)) = 0
      BY <1>1, <1>2, <2>2, <3>1
    <3>3. Against(t) = {}
      BY <1>1, <3>1, <3>2, FS_EmptySet
    <3> QED BY <3>3 DEF GoesOn
  <2> QED BY <1>2, <2>1, <2>2
<1>6. \E t \in UNION {After(s)[k] : k \in 0..c} : ~GoesOn(t)
  BY <1>2, <1>5
<1>7. End(s) = CHOOSE t \in UNION {After(s)[k] : k \in 0..c} : ~GoesOn(t)
  BY DEF End, c
<1>8. End(s) \in UNION {After(s)[k] : k \in 0..c} /\ ~GoesOn(End(s))
  BY <1>6, <1>7
<1> QED BY <1>2, <1>8

\* The engine with the dict's entry for the order that add_limit begins with.
Entered(e, o) == [e EXCEPT !.live = {x \in @ : x.id # o.id} \cup {[id |-> o.id, side |-> o.side]}]

\* The loop's first state.
Begun(e, o) == [engine |-> Entered(e, o), order |-> o]

LEMMA ServeBegins ==
  ASSUME NEW I, NEW n \in Nat, NEW e \in EnginesOf(I, n),
         NEW o \in ArrivedOrders(I, n + 1), o.ts = n + 1
  PROVE  /\ Begun(e, o) \in LoopStates(I, n + 1)
         /\ Begun(e, o).engine.buys = e.buys /\ Begun(e, o).engine.sells = e.sells
         /\ Begun(e, o).engine.fills = e.fills
         /\ ServeOrder(e, o) = Finish(End(Begun(e, o)))
PROOF
<1>1. 1..n \subseteq 1..(n + 1)
  OBVIOUS
<1>2. ArrivedOrders(I, n) \subseteq ArrivedOrders(I, n + 1) /\ ArrivedFills(n) \subseteq ArrivedFills(n + 1)
  BY <1>1 DEF ArrivedOrders, ArrivedFills
<1>3. BooksOf(I, n) \subseteq BooksOf(I, n + 1)
  BY <1>2 DEF BooksOf
<1>4. /\ Entered(e, o).buys = e.buys /\ Entered(e, o).sells = e.sells /\ Entered(e, o).fills = e.fills
      /\ Entered(e, o) \in EnginesOf(I, n + 1)
  <2>1. e.fills \in Seq(ArrivedFills(n + 1))
    <3>1. e.fills \in Seq(ArrivedFills(n))
      BY DEF EnginesOf
    <3>2. Len(e.fills) \in Nat /\ DOMAIN e.fills = 1..Len(e.fills)
          /\ e.fills = [i \in 1..Len(e.fills) |-> e.fills[i]]
      BY <3>1
    <3>3. \A i \in 1..Len(e.fills) : e.fills[i] \in ArrivedFills(n + 1)
      BY <1>2, <3>1
    <3> QED BY <3>2, <3>3
  <2>2. [id |-> o.id, side |-> o.side] \in [id : I, side : {"buy", "sell"}]
    BY DEF ArrivedOrders
  <2>3. e.buys \in BooksOf(I, n + 1) /\ e.sells \in BooksOf(I, n + 1)
        /\ e.live \subseteq [id : I, side : {"buy", "sell"}]
    BY <1>3 DEF EnginesOf
  <2> DEFINE l == {x \in e.live : x.id # o.id} \cup {[id |-> o.id, side |-> o.side]}
  <2>4. Entered(e, o) = [e EXCEPT !.live = l]
    BY DEF Entered
  <2>5. l \subseteq [id : I, side : {"buy", "sell"}]
    BY <2>2, <2>3
  <2> HIDE DEF l
  <2>6. [e EXCEPT !.live = l] = [buys |-> e.buys, sells |-> e.sells, live |-> l, fills |-> e.fills]
    BY DEF EnginesOf
  <2> QED BY <2>1, <2>3, <2>4, <2>5, <2>6 DEF EnginesOf
<1>5. Begun(e, o) \in LoopStates(I, n + 1)
  <2>1. \A p \in e.buys \cup e.sells : p.ts # o.ts
    BY DEF EnginesOf, BooksOf, ArrivedOrders
  <2> QED BY <1>4, <2>1 DEF LoopStates, Begun
<1> QED BY <1>4, <1>5 DEF Begun, ServeOrder, Entered

\* An order that meets no price of its own rests; one that does is filled.
LEMMA ServeRests ==
  ASSUME NEW I, NEW n \in Nat, NEW s \in LoopStates(I, n), ~GoesOn(s)
  PROVE  End(s) = s
PROOF
<1>1. PICK k \in Nat : End(s) \in After(s)[k]
  BY LoopEnds
<1>2. CASE k = 0
  BY <1>1, <1>2, AfterUnfold
<1>3. CASE k # 0
  <2>1. k - 1 \in Nat /\ k = (k - 1) + 1
    BY <1>3
  <2>2. After(s)[(k - 1) + 1] = {}
    BY <2>1, AfterFirst
  <2> QED BY <1>1, <2>1, <2>2
<1> QED BY <1>2, <1>3

LEMMA ServeFills ==
  ASSUME NEW I, NEW n \in Nat, NEW s \in LoopStates(I, n), GoesOn(s)
  PROVE  End(s).engine.fills # <<>>
PROOF
<1>1. PICK k \in Nat : End(s) \in After(s)[k] /\ ~GoesOn(End(s))
  BY LoopEnds
<1>2. k # 0
  BY <1>1, AfterUnfold
<1>3. k - 1 \in Nat /\ k = (k - 1) + 1
  BY <1>2
<1>4. End(s) \in After(Turn(s))[k - 1]
  BY <1>1, <1>3, AfterFirst
<1>5. Turn(s) \in LoopStates(I, n)
  BY TurnFacts
<1>6. PICK f \in ArrivedFills(n) : Turn(s).engine.fills = Append(s.engine.fills, f)
  BY TurnFacts
<1>7. s.engine.fills \in Seq(ArrivedFills(n))
  BY DEF LoopStates, EnginesOf
<1>8. 1 \in DOMAIN Turn(s).engine.fills
  BY <1>6, <1>7
<1>9. DOMAIN Turn(s).engine.fills \subseteq DOMAIN End(s).engine.fills
  BY <1>3, <1>4, <1>5, AfterFacts
<1> QED BY <1>8, <1>9

\* An engine that is served the next order to arrive has seen one order more, and
\* has the fills it had at the places they had.
LEMMA ServeFacts ==
  ASSUME NEW I, NEW n \in Nat, NEW e \in EnginesOf(I, n),
         NEW o \in ArrivedOrders(I, n + 1), o.ts = n + 1
  PROVE  /\ ServeOrder(e, o) \in EnginesOf(I, n + 1)
         /\ DOMAIN e.fills \subseteq DOMAIN ServeOrder(e, o).fills
         /\ \A i \in DOMAIN e.fills : ServeOrder(e, o).fills[i] = e.fills[i]
PROOF
<1> DEFINE s == Begun(e, o)
<1>1. /\ s \in LoopStates(I, n + 1) /\ s.engine.fills = e.fills
      /\ ServeOrder(e, o) = Finish(End(s))
  BY ServeBegins
<1> DEFINE t == End(s)
<1> HIDE DEF s
<1>6. n + 1 \in Nat
  OBVIOUS
<1>7. PICK k \in Nat : t \in After(s)[k]
  BY <1>1, <1>6, LoopEnds
<1>8. /\ t \in LoopStates(I, n + 1)
      /\ DOMAIN s.engine.fills \subseteq DOMAIN t.engine.fills
      /\ \A i \in DOMAIN s.engine.fills : t.engine.fills[i] = s.engine.fills[i]
  BY <1>1, <1>6, <1>7, AfterFacts
<1>9. ServeOrder(e, o) = Finish(t)
  BY <1>1
<1> HIDE DEF t
<1>10. /\ t.order \in ArrivedOrders(I, n + 1) /\ t.engine \in EnginesOf(I, n + 1)
       /\ \A p \in t.engine.buys \cup t.engine.sells : p.ts # t.order.ts
  BY <1>8 DEF LoopStates
<1>11. ASSUME NEW book \in BooksOf(I, n + 1), \A p \in book : p.ts # t.order.ts
       PROVE  book \cup {t.order} \in BooksOf(I, n + 1)
  <2>1. IsFiniteSet(book \cup {t.order})
    BY FS_AddElement DEF BooksOf
  <2>2. NoneTogether(book \cup {t.order})
    BY <1>11 DEF BooksOf, NoneTogether
  <2> QED BY <1>10, <2>1, <2>2 DEF BooksOf
<1>12. Finish(t) \in EnginesOf(I, n + 1) /\ Finish(t).fills = t.engine.fills
  <2>1. /\ t.engine.buys \in BooksOf(I, n + 1) /\ t.engine.sells \in BooksOf(I, n + 1)
        /\ t.engine.live \subseteq [id : I, side : {"buy", "sell"}]
    BY <1>10 DEF EnginesOf
  <2>2. t.engine.buys \cup {t.order} \in BooksOf(I, n + 1)
        /\ t.engine.sells \cup {t.order} \in BooksOf(I, n + 1)
    BY <1>10, <1>11, <2>1
  <2>3. {x \in t.engine.live : x.id # t.order.id} \subseteq [id : I, side : {"buy", "sell"}]
    BY <2>1
  <2> QED BY <1>10, <2>1, <2>2, <2>3 DEF Finish, EnginesOf
<1> QED BY <1>1, <1>8, <1>9, <1>12
=============================================================================
