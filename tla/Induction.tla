----------------------------- MODULE Induction -----------------------------
(***************************************************************************)
(* Induction over natural numbers and finite sets, and what follows from   *)
(* it for the recursive definitions of the other modules: primitive        *)
(* recursion, and sums over a finite set.                                  *)
(*                                                                         *)
(* What is shown of every number or set is given as the set of those it    *)
(* holds of.                                                               *)
(***************************************************************************)
EXTENDS Integers, FiniteSets, Functions, FiniteSetsExt,
        FiniteSetTheorems, WellFoundedInduction, TLAPS
-----------------------------------------------------------------------------
(* Least elements. *)

Below == {ss \in Nat \X Nat : ss[1] < ss[2]}

LEMMA NatLeast ==
  ASSUME NEW T, T \subseteq Nat, T # {}
  PROVE  \E x \in T : \A y \in T : x <= y
<1>1. IsWellFoundedOn(Below, Nat)
  <2>1. Below = OpToRel(<, Nat)
    BY DEF Below, OpToRel
  <2> QED BY <2>1, NatLessThanWellFounded
<1>2. \E x \in T : \A y \in T : ~ (<<y, x>> \in Below)
  BY <1>1, WFMin
<1>3. \A x, y \in T : ~ (<<y, x>> \in Below) => x <= y
  BY DEF Below
<1> QED BY <1>2, <1>3

\* Numbers up to a bound have a greatest one.
LEMMA NatGreatest ==
  ASSUME NEW n \in Nat, NEW T, T \subseteq 0..n, T # {}
  PROVE  \E x \in T : \A y \in T : y <= x
<1> PICK R : R = {n - x : x \in T}
  OBVIOUS
<1>1. R \subseteq Nat /\ R # {}
  <2>1. \A x \in T : n - x \in Nat
    OBVIOUS
  <2> QED BY <2>1
<1>2. PICK r \in R : \A y \in R : r <= y
  BY <1>1, NatLeast
<1>3. PICK x \in T : r = n - x
  BY <1>2
<1>4. ASSUME NEW y \in T PROVE y <= x
  <2>1. n - y \in R
    OBVIOUS
  <2> QED BY <1>2, <1>3, <2>1
<1> QED BY <1>4

\* Among sets of parts of a finite set, one that contains no other.
LEMMA SubsetLeast ==
  ASSUME NEW S, IsFiniteSet(S), NEW B, B \subseteq SUBSET S, B # {}
  PROVE  \E T \in B : \A U \in B : U \subseteq T => U = T
<1>1. IsWellFoundedOn(StrictSubsetOrdering(S), SUBSET S)
  BY FS_FiniteSubsetsOfFinite, FS_StrictSubsetOrderingWellFounded
<1>2. \E T \in B : \A U \in B : ~ (<<U, T>> \in StrictSubsetOrdering(S))
  BY <1>1, WFMin
<1> QED BY <1>2 DEF StrictSubsetOrdering
-----------------------------------------------------------------------------
(* Induction. *)

LEMMA NatInducts ==
  ASSUME NEW P, 0 \in P, \A n \in Nat : n \in P => n + 1 \in P
  PROVE  Nat \subseteq P
<1> SUFFICES ASSUME Nat \ P # {} PROVE FALSE
  OBVIOUS
<1>1. PICK m \in Nat \ P : \A y \in Nat \ P : m <= y
  <2> PICK T : T = Nat \ P
    OBVIOUS
  <2> QED BY NatLeast
<1>2. m # 0 /\ m - 1 \in Nat /\ m - 1 \in P /\ m - 1 + 1 = m
  BY <1>1
<1> QED BY <1>1, <1>2

LEMMA FiniteInducts ==
  ASSUME NEW S, IsFiniteSet(S), NEW P, {} \in P,
         \A T \in SUBSET S : \A x \in S \ T : T \in P => T \cup {x} \in P
  PROVE  S \in P
<1> SUFFICES ASSUME S \notin P PROVE FALSE
  OBVIOUS
<1> PICK B : B = (SUBSET S) \ P
  OBVIOUS
<1>1. PICK T \in B : \A U \in B : U \subseteq T => U = T
  BY SubsetLeast
<1>2. PICK x \in T : TRUE
  BY <1>1
<1>3. T \ {x} \in SUBSET S /\ T \ {x} \notin B /\ (T \ {x}) \cup {x} = T /\ x \in S \ (T \ {x})
  BY <1>1, <1>2
<1> QED BY <1>1, <1>3
-----------------------------------------------------------------------------
(* Primitive recursion: f[0] is first, f[n + 1] the value of step at n and  *)
(* f[n].                                                                    *)

Recurs(f, n, V, first, step) ==
  /\ f \in [0..n -> V] /\ f[0] = first
  /\ \A i \in 0..(n - 1) : f[i + 1] = step[<<i, f[i]>>]

LEMMA RecursUnique ==
  ASSUME NEW V, NEW first, NEW step, NEW n \in Nat, NEW m \in Nat, n <= m,
         NEW f, Recurs(f, n, V, first, step), NEW g, Recurs(g, m, V, first, step)
  PROVE  \A i \in 0..n : f[i] = g[i]
<1> PICK P : P = {i \in Nat : i <= n => f[i] = g[i]}
  OBVIOUS
<1>1. 0 \in P
  BY DEF Recurs
<1>2. ASSUME NEW i \in Nat, i \in P PROVE i + 1 \in P
  <2>1. CASE i + 1 <= n
    <3>1. i \in 0..(n - 1) /\ i \in 0..(m - 1)
      BY <2>1
    <3>2. f[i + 1] = step[<<i, f[i]>>] /\ g[i + 1] = step[<<i, g[i]>>]
      BY <3>1 DEF Recurs
    <3>3. i <= n
      BY <2>1
    <3> QED BY <1>2, <3>2, <3>3
  <2>2. CASE ~ (i + 1 <= n)
    BY <2>2
  <2> QED BY <2>1, <2>2
<1>3. Nat \subseteq P
  BY <1>1, <1>2, NatInducts
<1> QED BY <1>3

LEMMA RecursExists ==
  ASSUME NEW V, NEW first \in V, NEW step \in [Nat \X V -> V]
  PROVE  \A n \in Nat : \E f : Recurs(f, n, V, first, step)
<1> PICK P : P = {n \in Nat : \E f : Recurs(f, n, V, first, step)}
  OBVIOUS
<1>1. 0 \in P
  <2>1. Recurs([i \in 0..0 |-> first], 0, V, first, step)
    BY DEF Recurs
  <2> QED BY <2>1
<1>2. ASSUME NEW n \in Nat, n \in P PROVE n + 1 \in P
  <2>1. PICK f : Recurs(f, n, V, first, step)
    BY <1>2
  <2>2. f \in [0..n -> V] /\ f[n] \in V /\ <<n, f[n]>> \in Nat \X V
    BY <2>1 DEF Recurs
  <2>3. step[<<n, f[n]>>] \in V
    BY <2>2
  <2> DEFINE g == [i \in 0..(n + 1) |-> IF i = n + 1 THEN step[<<n, f[n]>>] ELSE f[i]]
  <2>4. g \in [0..(n + 1) -> V]
    BY <2>2, <2>3
  <2>5. g[0] = first
    BY <2>1 DEF Recurs
  <2>6. ASSUME NEW i \in 0..(n + 1 - 1) PROVE g[i + 1] = step[<<i, g[i]>>]
    <3>1. CASE i = n
      <4>1. i + 1 = n + 1 /\ n + 1 \in 0..(n + 1) /\ i \in 0..(n + 1) /\ i # n + 1
        BY <3>1
      <4>2. g[i + 1] = step[<<n, f[n]>>] /\ g[i] = f[i]
        BY <4>1
      <4> QED BY <3>1, <4>2
    <3>2. CASE i # n
      <4>1. i \in 0..(n - 1) /\ i + 1 \in 0..n
        BY <3>2
      <4> QED BY <2>1, <4>1 DEF Recurs
    <3> QED BY <3>1, <3>2
  <2> HIDE DEF g
  <2>7. Recurs(g, n + 1, V, first, step)
    BY <2>4, <2>5, <2>6 DEF Recurs
  <2> QED BY <2>7
<1>3. Nat \subseteq P
  BY <1>1, <1>2, NatInducts
<1> QED BY <1>3
-----------------------------------------------------------------------------
(* Sums.  SumFunctionOnSet of the community modules takes the elements one  *)
(* by one as CHOOSE yields them.                                            *)

Chosen(s) == CHOOSE y \in s : TRUE
Summing(q, S) ==
  CHOOSE iter : iter = [s \in SUBSET S |-> IF s = {} THEN 0
                          ELSE q[CHOOSE y \in s : TRUE] + iter[s \ {CHOOSE y \in s : TRUE}]]

LEMMA SumIs == \A q, S : SumFunctionOnSet(q, S) = Summing(q, S)[S]
BY Zenon DEF SumFunctionOnSet, FoldFunctionOnSet, MapThenFoldSet, Summing

\* g has the sums of q over all parts of S.
Sums(g, q, S) ==
  /\ g \in [SUBSET S -> Int] /\ g[{}] = 0
  /\ \A s \in SUBSET S : s # {} => g[s] = q[Chosen(s)] + g[s \ {Chosen(s)}]

LEMMA ChosenIn == \A s : s # {} => Chosen(s) \in s
BY DEF Chosen

LEMMA SumsUnique ==
  ASSUME NEW S, IsFiniteSet(S), NEW T, T \subseteq S, NEW q,
         NEW g, Sums(g, q, S), NEW h, Sums(h, q, T)
  PROVE  \A s \in SUBSET T : g[s] = h[s]
<1> PICK B : B = {s \in SUBSET T : g[s] # h[s]}
  OBVIOUS
<1> SUFFICES ASSUME B # {} PROVE FALSE
  OBVIOUS
<1>1. B \subseteq SUBSET S
  OBVIOUS
<1>2. PICK s \in B : \A u \in B : u \subseteq s => u = s
  BY <1>1, SubsetLeast
<1>3. s # {} /\ s \in SUBSET S /\ s \in SUBSET T
  BY <1>1, <1>2 DEF Sums
<1>4. Chosen(s) \in s
  BY <1>3, ChosenIn
<1>5. s \ {Chosen(s)} \in SUBSET T /\ s \ {Chosen(s)} \notin B
  BY <1>2, <1>3, <1>4
<1> QED BY <1>2, <1>3, <1>5 DEF Sums

LEMMA SumsExist ==
  ASSUME NEW S, IsFiniteSet(S), NEW q, \A x \in S : q[x] \in Int
  PROVE  \E g : Sums(g, q, S)
<1>0. PICK B : B = {T \in SUBSET S : ~ \E g : Sums(g, q, T)}
  OBVIOUS
<1> SUFFICES ASSUME B # {} PROVE FALSE
  BY <1>0
<1>1. PICK T \in B : \A U \in B : U \subseteq T => U = T
  <2>1. B \subseteq SUBSET S
    BY <1>0
  <2> QED BY <2>1, SubsetLeast
<1> DEFINE of(s) == CHOOSE g : Sums(g, q, s)
<1>2. ASSUME NEW s \in SUBSET T, s # T PROVE Sums(of(s), q, s)
  BY <1>0, <1>1, <1>2
<1> HIDE DEF of
<1>3. IsFiniteSet(T) /\ T \subseteq S
  BY <1>0, <1>1, FS_Subset
<1>4. ASSUME NEW s \in SUBSET T, s # {} PROVE s \ {Chosen(s)} \in SUBSET T /\ s \ {Chosen(s)} # T
  BY <1>4, ChosenIn
<1> DEFINE value(s) == IF s = {} THEN 0
                       ELSE q[Chosen(s)] + of(s \ {Chosen(s)})[s \ {Chosen(s)}]
<1>5. ASSUME NEW s \in SUBSET T PROVE value(s) \in Int
  <2>1. CASE s # {}
    <3>1. of(s \ {Chosen(s)})[s \ {Chosen(s)}] \in Int
      BY <1>2, <1>4, <2>1 DEF Sums
    <3>2. q[Chosen(s)] \in Int
      BY <1>3, <2>1, ChosenIn
    <3> QED BY <2>1, <3>1, <3>2
  <2> QED BY <2>1
<1>6. ASSUME NEW s \in SUBSET T, s # T PROVE of(s)[s] = value(s)
  <2>1. CASE s = {}
    BY <1>2, <1>6, <2>1 DEF Sums
  <2>2. CASE s # {}
    <3>1. /\ Sums(of(s), q, s) /\ Sums(of(s \ {Chosen(s)}), q, s \ {Chosen(s)})
          /\ IsFiniteSet(s)
      BY <1>2, <1>3, <1>4, <1>6, <2>2, FS_Subset
    <3>2. of(s)[s] = q[Chosen(s)] + of(s)[s \ {Chosen(s)}]
      BY <2>2, <3>1 DEF Sums
    <3>3. of(s)[s \ {Chosen(s)}] = of(s \ {Chosen(s)})[s \ {Chosen(s)}]
      BY <3>1, SumsUnique
    <3> QED BY <2>2, <3>2, <3>3
  <2> QED BY <2>1, <2>2
<1> HIDE DEF value
<1> DEFINE g == [s \in SUBSET T |-> value(s)]
<1>7. g \in [SUBSET T -> Int]
  BY <1>5
<1>8. g[{}] = 0
  BY DEF value
<1>9. ASSUME NEW s \in SUBSET T, s # {} PROVE g[s] = q[Chosen(s)] + g[s \ {Chosen(s)}]
  <2>1. g[s \ {Chosen(s)}] = of(s \ {Chosen(s)})[s \ {Chosen(s)}]
    BY <1>4, <1>6, <1>9
  <2> QED BY <1>9, <2>1 DEF value
<1> HIDE DEF g
<1>10. Sums(g, q, T)
  BY <1>7, <1>8, <1>9 DEF Sums
<1> QED BY <1>0, <1>1, <1>10

\* Whatever solves the recursive equation has the sums.
LEMMA SumsByEquation ==
  ASSUME NEW S, IsFiniteSet(S), NEW q, \A x \in S : q[x] \in Int,
         NEW h, h = [s \in SUBSET S |-> IF s = {} THEN 0
                                        ELSE q[Chosen(s)] + h[s \ {Chosen(s)}]]
  PROVE  Sums(h, q, S)
<1>1. PICK g : Sums(g, q, S)
  BY SumsExist
<1>4. /\ DOMAIN h = SUBSET S /\ h[{}] = 0 /\ h = [s \in SUBSET S |-> h[s]]
      /\ \A s \in SUBSET S : s # {} => h[s] = q[Chosen(s)] + h[s \ {Chosen(s)}]
  OBVIOUS
<1>5. \A s \in SUBSET S : h[s] = g[s]
  <2>0. PICK B : B = {s \in SUBSET S : g[s] # h[s]}
    OBVIOUS
  <2> SUFFICES ASSUME B # {} PROVE FALSE
    BY <2>0
  <2>6. B \subseteq SUBSET S
    BY <2>0
  <2>1. PICK s \in B : \A u \in B : u \subseteq s => u = s
    BY <2>6, SubsetLeast
  <2>2. s # {} /\ s \in SUBSET S
    BY <1>1, <1>4, <2>0, <2>1 DEF Sums
  <2>3. s \ {Chosen(s)} \in SUBSET S /\ s \ {Chosen(s)} \notin B
    BY <2>1, <2>2, ChosenIn
  <2>4. h[s] = q[Chosen(s)] + h[s \ {Chosen(s)}] /\ g[s] = q[Chosen(s)] + g[s \ {Chosen(s)}]
    BY <1>1, <1>4, <2>2 DEF Sums
  <2>5. g[s \ {Chosen(s)}] = h[s \ {Chosen(s)}]
    BY <2>0, <2>3
  <2> QED BY <2>0, <2>1, <2>4, <2>5
<1>6. h = g
  BY <1>1, <1>4, <1>5 DEF Sums
<1> QED BY <1>1, <1>6

LEMMA SummingSums ==
  ASSUME NEW S, IsFiniteSet(S), NEW q, \A x \in S : q[x] \in Int
  PROVE  Sums(Summing(q, S), q, S)
<1>1. PICK g : Sums(g, q, S)
  BY SumsExist
<1> DEFINE Fits(f) == f = [s \in SUBSET S |->
                        IF s = {} THEN 0
                        ELSE q[CHOOSE y \in s : TRUE] + f[s \ {CHOOSE y \in s : TRUE}]]
<1>2. Fits(g)
  BY <1>1 DEF Sums, Chosen
<1> PICK h : h = Summing(q, S)
  OBVIOUS
<1>3. h = CHOOSE f : Fits(f)
  BY Zenon DEF Summing
<1> HIDE DEF Fits
<1>4. Fits(h)
  BY <1>2, <1>3
<1>5. h = [s \in SUBSET S |-> IF s = {} THEN 0 ELSE q[Chosen(s)] + h[s \ {Chosen(s)}]]
  BY <1>4 DEF Fits, Chosen
<1> QED BY <1>5, SumsByEquation

SumOf(q, S) == SumFunctionOnSet(q, S)

LEMMA SumOfParts ==
  ASSUME NEW S, IsFiniteSet(S), NEW q, \A x \in S : q[x] \in Int, NEW T \in SUBSET S
  PROVE  SumOf(q, T) = Summing(q, S)[T]
<1>1. Sums(Summing(q, S), q, S)
  BY SummingSums
<1>2. IsFiniteSet(T) /\ \A x \in T : q[x] \in Int
  BY FS_Subset
<1>3. Sums(Summing(q, T), q, T)
  BY <1>2, SummingSums
<1>4. Summing(q, S)[T] = Summing(q, T)[T]
  BY <1>1, <1>3, SumsUnique
<1> QED BY <1>4, SumIs DEF SumOf

LEMMA SumType ==
  ASSUME NEW S, IsFiniteSet(S), NEW q, \A x \in S : q[x] \in Int
  PROVE  SumOf(q, S) \in Int
<1>1. Sums(Summing(q, S), q, S)
  BY SummingSums
<1> QED BY <1>1, SumIs DEF SumOf, Sums

LEMMA SumEmpty == \A q : SumOf(q, {}) = 0
<1> TAKE q
<1>1. Sums(Summing(q, {}), q, {})
  BY FS_EmptySet, SummingSums
<1> QED BY <1>1, SumIs DEF SumOf, Sums

LEMMA SumRemove ==
  ASSUME NEW S, IsFiniteSet(S), NEW q, \A x \in S : q[x] \in Int, NEW x \in S
  PROVE  SumOf(q, S) = q[x] + SumOf(q, S \ {x})
<1> PICK g : g = Summing(q, S)
  OBVIOUS
<1>1. Sums(g, q, S)
  BY SummingSums
<1>2. \A T \in SUBSET S : SumOf(q, T) = g[T] /\ g[T] \in Int
  BY <1>1, SumOfParts DEF Sums
<1>3. PICK B : B = {T \in SUBSET S : \E y \in T : g[T] # q[y] + g[T \ {y}]}
  OBVIOUS
<1>4. B = {}
  <2> SUFFICES ASSUME B # {} PROVE FALSE
    OBVIOUS
  <2>1. B \subseteq SUBSET S
    BY <1>3
  <2>2. PICK T \in B : \A U \in B : U \subseteq T => U = T
    BY <2>1, SubsetLeast
  <2>3. PICK y \in T : g[T] # q[y] + g[T \ {y}]
    BY <1>3
  <2>4. T \in SUBSET S /\ T # {}
    BY <2>1, <2>3
  <2> PICK z : z = Chosen(T)
    OBVIOUS
  <2>5. z \in T /\ g[T] = q[z] + g[T \ {z}]
    BY <1>1, <2>4, ChosenIn DEF Sums
  <2>6. z # y
    BY <2>3, <2>5
  <2>7. /\ T \ {z} \in SUBSET S /\ T \ {z} \notin B /\ y \in T \ {z}
        /\ T \ {y} \in SUBSET S /\ T \ {y} \notin B /\ z \in T \ {y}
        /\ (T \ {z}) \ {y} = (T \ {y}) \ {z} /\ (T \ {z}) \ {y} \in SUBSET S
    BY <2>2, <2>4, <2>5, <2>6
  <2>8. g[T \ {z}] = q[y] + g[(T \ {z}) \ {y}] /\ g[T \ {y}] = q[z] + g[(T \ {z}) \ {y}]
    BY <1>3, <2>7
  <2>9. q[y] \in Int /\ q[z] \in Int /\ g[(T \ {z}) \ {y}] \in Int
    BY <1>2, <2>4, <2>5, <2>7
  <2> QED BY <2>3, <2>5, <2>8, <2>9
<1>5. S \in SUBSET S /\ S \ {x} \in SUBSET S /\ S \notin B
  BY <1>4
<1> QED BY <1>2, <1>3, <1>5

LEMMA SumAdd ==
  ASSUME NEW S, IsFiniteSet(S), NEW q, NEW x, x \notin S, \A y \in S \cup {x} : q[y] \in Int
  PROVE  SumOf(q, S \cup {x}) = q[x] + SumOf(q, S)
<1>1. IsFiniteSet(S \cup {x}) /\ (S \cup {x}) \ {x} = S
  BY FS_AddElement
<1> QED BY <1>1, SumRemove

LEMMA SumUnion ==
  ASSUME NEW S, IsFiniteSet(S), NEW T, IsFiniteSet(T), S \cap T = {},
         NEW q, \A x \in S \cup T : q[x] \in Int
  PROVE  SumOf(q, S \cup T) = SumOf(q, S) + SumOf(q, T)
<1> PICK P : P = {U \in SUBSET T : SumOf(q, S \cup U) = SumOf(q, S) + SumOf(q, U)}
  OBVIOUS
<1>1. {} \in P
  <2>1. SumOf(q, S) \in Int /\ S \cup {} = S
    BY SumType
  <2> QED BY <2>1, SumEmpty
<1>2. ASSUME NEW U \in SUBSET T, NEW x \in T \ U, U \in P
      PROVE  U \cup {x} \in P
  <2>1. IsFiniteSet(U) /\ IsFiniteSet(S \cup U) /\ x \notin S \cup U
    BY FS_Subset, FS_Union
  <2>2. SumOf(q, (S \cup U) \cup {x}) = q[x] + SumOf(q, S \cup U)
    BY <2>1, SumAdd
  <2>3. SumOf(q, U \cup {x}) = q[x] + SumOf(q, U)
    BY <2>1, SumAdd
  <2>4. SumOf(q, S) \in Int /\ SumOf(q, U) \in Int /\ q[x] \in Int
    BY <2>1, SumType
  <2>5. S \cup (U \cup {x}) = (S \cup U) \cup {x} /\ U \cup {x} \in SUBSET T
    OBVIOUS
  <2>6. SumOf(q, S \cup U) = SumOf(q, S) + SumOf(q, U)
    BY <1>2
  <2>7. SumOf(q, S \cup (U \cup {x})) = SumOf(q, S) + SumOf(q, U \cup {x})
    <3>1. SumOf(q, S \cup (U \cup {x})) = SumOf(q, (S \cup U) \cup {x})
      BY <2>5
    <3> QED BY <2>2, <2>3, <2>4, <2>6, <3>1
  <2> QED BY <2>5, <2>7
<1>3. T \in P
  BY <1>1, <1>2, FiniteInducts
<1> QED BY <1>3
LEMMA SumNat ==
  ASSUME NEW S, IsFiniteSet(S), NEW q, \A x \in S : q[x] \in Nat
  PROVE  SumOf(q, S) \in Nat
<1> PICK P : P = {T \in SUBSET S : SumOf(q, T) \in Nat}
  OBVIOUS
<1>1. {} \in P
  BY SumEmpty
<1>2. ASSUME NEW T \in SUBSET S, NEW x \in S \ T, T \in P
      PROVE  T \cup {x} \in P
  <2>1. IsFiniteSet(T) /\ T \cup {x} \in SUBSET S /\ q[x] \in Nat
    BY FS_Subset
  <2>2. SumOf(q, T \cup {x}) = q[x] + SumOf(q, T)
    BY <2>1, SumAdd
  <2>3. SumOf(q, T) \in Nat
    BY <1>2
  <2>4. SumOf(q, T \cup {x}) \in Nat
    BY <2>1, <2>2, <2>3
  <2> QED BY <2>1, <2>4
<1>3. S \in P
  BY <1>1, <1>2, FiniteInducts
<1> QED BY <1>3

\* Of numbers that are not negative, more add up to no less.
LEMMA SumMore ==
  ASSUME NEW S, IsFiniteSet(S), NEW T \in SUBSET S, NEW q, \A x \in S : q[x] \in Nat
  PROVE  SumOf(q, T) <= SumOf(q, S)
<1>1. IsFiniteSet(T) /\ IsFiniteSet(S \ T) /\ T \cup (S \ T) = S /\ T \cap (S \ T) = {}
  BY FS_Subset
<1>2. SumOf(q, S) = SumOf(q, T) + SumOf(q, S \ T)
  BY <1>1, SumUnion
<1>3. SumOf(q, T) \in Nat /\ SumOf(q, S \ T) \in Nat
  BY <1>1, SumNat
<1> QED BY <1>2, <1>3

\* Only the values at the elements matter.
LEMMA SumSame ==
  ASSUME NEW S, IsFiniteSet(S), NEW q, NEW r, \A x \in S : q[x] \in Int /\ r[x] = q[x]
  PROVE  SumOf(r, S) = SumOf(q, S)
<1>1. Sums(Summing(q, S), q, S) /\ Sums(Summing(r, S), r, S)
  BY SummingSums
<1> PICK g : g = Summing(r, S)
  OBVIOUS
<1>2. Sums(g, q, S)
  <2>1. \A s \in SUBSET S : s # {} => Chosen(s) \in S
    BY ChosenIn
  <2> QED BY <1>1, <2>1 DEF Sums
<1>3. g[S] = Summing(q, S)[S]
  BY <1>1, <1>2, SumsUnique
<1> QED BY <1>3, SumIs DEF SumOf
=============================================================================
