----------------------------- MODULE SumProofs ------------------------------
(***************************************************************************)
(* What sums over finite sets are: SumFunction of the module Functions, by *)
(* which the models add up tokens.  Adding up is by recursion on the set,  *)
(* so the lemmas are proved by induction on its size, from the fact that   *)
(* the natural numbers are well founded.                                   *)
(***************************************************************************)
EXTENDS Integers, FiniteSets, Functions, FiniteSetTheorems, WellFoundedInduction, TLAPS

(* Every nonempty set of natural numbers has a least element.              *)
LEMMA LeastNat ==
  ASSUME NEW T, T \subseteq Nat, T # {}
  PROVE  \E x \in T : \A y \in T : x <= y
<1> DEFINE R == {ss \in Nat \X Nat : ss[1] < ss[2]}
<1>1. IsWellFoundedOn(R, Nat)
  BY NatLessThanWellFounded DEF OpToRel
<1>2. PICK x \in T : \A y \in T : <<y, x>> \notin R
  <2> HIDE DEF R
  <2> QED BY <1>1, WFMin
<1>3. \A y \in T : ~ (y < x)
  BY <1>2
<1> QED BY <1>3

(* Induction: a set with 0 that is closed under successor has every        *)
(* natural number.                                                         *)
LEMMA SetInduction ==
  ASSUME NEW T, 0 \in T, \A n \in Nat : n \in T => n + 1 \in T
  PROVE  \A n \in Nat : n \in T
<1>1. SUFFICES ASSUME Nat \ T # {} PROVE FALSE
  OBVIOUS
<1>2. PICK x \in Nat \ T : \A y \in Nat \ T : x <= y
  BY <1>1, LeastNat
<1>3. x # 0 /\ x - 1 \in Nat /\ x - 1 \in T
  BY <1>2
<1> QED BY <1>2, <1>3

Chosen(s) == CHOOSE x \in s : TRUE

(* iter adds up f over the subsets of S, taking elements in the order of   *)
(* CHOOSE, as SumFunction does.                                            *)
Adds(iter, f, S) ==
  iter = [s \in SUBSET S |-> IF s = {} THEN 0 ELSE f[Chosen(s)] + iter[s \ {Chosen(s)}]]

(* ... which it does in any order.                                         *)
AnyFirst(iter, f, S) ==
  \A s \in SUBSET S : /\ iter[s] \in Int
                      /\ \A x \in s : iter[s] = f[x] + iter[s \ {x}]

Upto(n, S) == {s \in SUBSET S : Cardinality(s) <= n}

(* Removing the chosen element makes a finite set smaller by one.          *)
LEMMA Smaller ==
  ASSUME NEW S, IsFiniteSet(S), NEW s \in SUBSET S, NEW x \in s
  PROVE  /\ IsFiniteSet(s) /\ Cardinality(s) \in Nat \ {0}
         /\ s \ {x} \in SUBSET S
         /\ Cardinality(s \ {x}) = Cardinality(s) - 1
<1>1. IsFiniteSet(s) BY FS_Subset
<1>2. Cardinality(s) \in Nat /\ Cardinality(s) # 0
  BY <1>1, FS_CardinalityType, FS_EmptySet
<1>3. Cardinality(s \ {x}) = Cardinality(s) - 1
  BY <1>1, FS_RemoveElement
<1> QED BY <1>1, <1>2, <1>3

(* CHOOSE picks an element of a set that has one.                          *)
LEMMA ChosenIn == ASSUME NEW s, s # {} PROVE Chosen(s) \in s
BY DEF Chosen

(* The recursion by which sums are defined has a solution.                 *)
LEMMA AddsExists ==
  ASSUME NEW S, IsFiniteSet(S), NEW f \in [S -> Int]
  PROVE  \E iter : Adds(iter, f, S)
<1> DEFINE Step(h, s) == IF s = {} THEN 0 ELSE f[Chosen(s)] + h[s \ {Chosen(s)}]
           Good(h, n) == \A s \in Upto(n, S) : h[s] = Step(h, s)
           T == {n \in Nat : \E h : Good(h, n)}
<1>1. 0 \in T
  <2> DEFINE h == [s \in Upto(0, S) |-> 0]
  <2>1. ASSUME NEW s \in Upto(0, S) PROVE s = {}
    <3> IsFiniteSet(s) /\ Cardinality(s) \in Nat BY FS_Subset, FS_CardinalityType DEF Upto
    <3> QED BY FS_EmptySet DEF Upto
  <2>2. Good(h, 0) BY <2>1
  <2> QED BY <2>2
<1>2. ASSUME NEW n \in Nat, n \in T PROVE n + 1 \in T
  <2>1. PICK h : Good(h, n) BY <1>2
  <2> DEFINE g == [s \in Upto(n + 1, S) |-> Step(h, s)]
  <2>2. ASSUME NEW s \in Upto(n + 1, S), s # {}
        PROVE  /\ s \ {Chosen(s)} \in Upto(n, S)
               /\ s \ {Chosen(s)} \in Upto(n + 1, S)
    BY <2>2, Smaller, ChosenIn DEF Upto
  <2>3. ASSUME NEW s \in Upto(n + 1, S) PROVE g[s] = Step(g, s)
    <3>1. CASE s = {} BY <3>1
    <3>2. CASE s # {}
      <4> DEFINE r == s \ {Chosen(s)}
      <4>1. g[s] = f[Chosen(s)] + h[r] BY <3>2
      <4>2. h[r] = Step(h, r) BY <2>1, <2>2, <3>2
      <4>3. g[r] = Step(h, r) BY <2>2, <3>2
      <4> QED BY <4>1, <4>2, <4>3, <3>2
    <3> QED BY <3>1, <3>2
  <2>4. Good(g, n + 1)
    <3> HIDE DEF g, Step
    <3> QED BY <2>3
  <2> HIDE DEF Good, g
  <2> QED BY <2>4
<1>3. Cardinality(S) \in Nat
  BY FS_CardinalityType
<1>4. Cardinality(S) \in T
  <2> HIDE DEF T
  <2> QED BY <1>1, <1>2, <1>3, SetInduction
<1>5. PICK h : Good(h, Cardinality(S))
  BY <1>4
<1>6. Upto(Cardinality(S), S) = SUBSET S
  BY FS_Subset DEF Upto
<1> DEFINE iter == [s \in SUBSET S |-> h[s]]
<1>7. ASSUME NEW s \in SUBSET S PROVE iter[s] = Step(iter, s)
  BY <1>5, <1>6, <1>7
<1>8. Adds(iter, f, S)
  BY <1>7 DEF Adds
<1> QED BY <1>8

(* SumFunction adds up, over the whole domain.                             *)
LEMMA SumIsAdds ==
  ASSUME NEW S, IsFiniteSet(S), NEW f \in [S -> Int]
  PROVE  \E iter : Adds(iter, f, S) /\ SumFunction(f) = iter[S]
<1> DEFINE iter == CHOOSE g : Adds(g, f, S)
<1>1. Adds(iter, f, S)
  BY AddsExists
<1>2. SumFunction(f) = iter[S]
  BY DEF SumFunction, SumFunctionOnSet, FoldFunctionOnSet, MapThenFoldSet, Adds, Chosen
<1> QED BY <1>1, <1>2

(* Induction on the subsets of a finite set: what holds for a set if it    *)
(* holds for its proper subsets, holds for all.                            *)
LEMMA FiniteInduction ==
  ASSUME NEW S, IsFiniteSet(S), NEW T,
         \A s \in SUBSET S : (\A r \in SUBSET s : r # s => r \in T) => s \in T
  PROVE  \A s \in SUBSET S : s \in T
<1> DEFINE N == {n \in Nat : \A s \in Upto(n, S) : s \in T}
<1>1. ASSUME NEW s \in SUBSET S, NEW r \in SUBSET s, r # s
      PROVE  /\ r \in SUBSET S /\ Cardinality(r) \in Nat /\ Cardinality(s) \in Nat
             /\ Cardinality(r) < Cardinality(s)
  <2>1. IsFiniteSet(s)
    BY FS_Subset
  <2>2. Cardinality(r) \in Nat /\ Cardinality(s) \in Nat
    BY <2>1, FS_Subset, FS_CardinalityType
  <2>3. Cardinality(r) <= Cardinality(s) /\ Cardinality(r) # Cardinality(s)
    BY <1>1, <2>1, FS_Subset
  <2> QED BY <2>2, <2>3
<1>2. 0 \in N
  <2>1. ASSUME NEW s \in Upto(0, S) PROVE s \in T
    <3>1. s \in SUBSET S /\ Cardinality(s) <= 0
      BY DEF Upto
    <3>2. ASSUME NEW r \in SUBSET s, r # s PROVE FALSE
      <4>1. /\ Cardinality(r) \in Nat /\ Cardinality(s) \in Nat
            /\ Cardinality(r) < Cardinality(s)
        BY <1>1, <3>1, <3>2
      <4> QED BY <3>1, <4>1
    <3> QED BY <3>1, <3>2
  <2> QED BY <2>1
<1>3. ASSUME NEW n \in Nat, n \in N PROVE n + 1 \in N
  <2>1. ASSUME NEW s \in Upto(n + 1, S) PROVE s \in T
    <3>1. s \in SUBSET S /\ Cardinality(s) <= n + 1
      BY DEF Upto
    <3>2. ASSUME NEW r \in SUBSET s, r # s PROVE r \in T
      <4>1. r \in SUBSET S /\ Cardinality(r) <= n
        BY <1>1, <3>1, <3>2
      <4> QED BY <1>3, <4>1 DEF Upto
    <3> QED BY <3>1, <3>2
  <2> QED BY <2>1
<1>4. \A n \in Nat : n \in N
  <2> HIDE DEF N
  <2> QED BY <1>2, <1>3, SetInduction
<1>5. ASSUME NEW s \in SUBSET S PROVE s \in T
  <2>1. Cardinality(s) \in Nat
    BY FS_Subset, FS_CardinalityType
  <2> QED BY <1>4, <2>1 DEF Upto
<1> QED BY <1>5

(* The order of adding up does not matter: any element may come first.     *)
LEMMA AnyOrder ==
  ASSUME NEW S, IsFiniteSet(S), NEW f \in [S -> Int], NEW iter, Adds(iter, f, S)
  PROVE  AnyFirst(iter, f, S)
<1> DEFINE Q(s) == /\ iter[s] \in Int
                   /\ \A x \in s : iter[s] = f[x] + iter[s \ {x}]
           T == {s \in SUBSET S : Q(s)}
<1>1. ASSUME NEW s \in SUBSET S, \A r \in SUBSET s : r # s => r \in T
      PROVE  Q(s)
  <2>1. iter[s] = IF s = {} THEN 0 ELSE f[Chosen(s)] + iter[s \ {Chosen(s)}]
    BY DEF Adds
  <2>2. CASE s = {}
    BY <2>1, <2>2
  <2>3. CASE s # {}
    <3>1. PICK y \in s : iter[s] = f[y] + iter[s \ {y}]
      BY <2>1, <2>3, ChosenIn
    <3>2. \A x \in s : s \ {x} \in SUBSET s /\ s \ {x} # s
      OBVIOUS
    <3>3. Q(s \ {y})
      BY <1>1, <3>2
    <3>4. iter[s] \in Int
      BY <3>1, <3>3
    <3>5. ASSUME NEW x \in s PROVE iter[s] = f[x] + iter[s \ {x}]
      <4>1. CASE x = y BY <3>1, <4>1
      <4>2. CASE x # y
        <5> DEFINE r == (s \ {y}) \ {x}
        <5>1. Q(s \ {x})
          BY <1>1, <3>2
        <5>2. Q(r)
          <6>1. r \in SUBSET s /\ r # s OBVIOUS
          <6> QED BY <1>1, <6>1
        <5>3. x \in s \ {y} /\ y \in s \ {x} /\ r = (s \ {x}) \ {y}
          BY <4>2
        <5>4. iter[s \ {y}] = f[x] + iter[r] /\ iter[s \ {x}] = f[y] + iter[r]
          BY <3>3, <5>1, <5>3
        <5>5. f[x] \in Int /\ f[y] \in Int /\ iter[r] \in Int
          BY <5>2
        <5> HIDE DEF r
        <5> QED BY <3>1, <5>4, <5>5
      <4> QED BY <4>1, <4>2
    <3> QED BY <3>4, <3>5
  <2> QED BY <2>2, <2>3
<1>2. \A s \in SUBSET S : s \in T
  <2>1. \A s \in SUBSET S : (\A r \in SUBSET s : r # s => r \in T) => s \in T
    <3> HIDE DEF Q
    <3> QED BY <1>1
  <2> HIDE DEF T
  <2> QED BY <2>1, FiniteInduction
<1> QED BY <1>2 DEF AnyFirst

(* A sum depends on the values it adds up, and on nothing else.            *)
LEMMA SameSum ==
  ASSUME NEW S, IsFiniteSet(S), NEW f \in [S -> Int], NEW iter, Adds(iter, f, S),
         NEW R, IsFiniteSet(R), NEW g \in [R -> Int], NEW jter, Adds(jter, g, R),
         NEW q \in SUBSET (S \cap R), \A x \in q : f[x] = g[x]
  PROVE  iter[q] = jter[q]
<1> DEFINE T == {s \in SUBSET q : iter[s] = jter[s]}
<1>0. AnyFirst(iter, f, S) /\ AnyFirst(jter, g, R)
  BY AnyOrder
<1>1. ASSUME NEW s \in SUBSET q, \A r \in SUBSET s : r # s => r \in T
      PROVE  s \in T
  <2>1. CASE s = {}
    BY <2>1 DEF Adds
  <2>2. CASE s # {}
    <3>1. PICK x : x \in s
      BY <2>2
    <3>2. iter[s \ {x}] = jter[s \ {x}]
      <4>1. s \ {x} \in SUBSET s /\ s \ {x} # s BY <3>1
      <4> QED BY <1>1, <4>1
    <3>3. iter[s] = f[x] + iter[s \ {x}] /\ jter[s] = g[x] + jter[s \ {x}]
      BY <1>0, <3>1 DEF AnyFirst
    <3> QED BY <3>1, <3>2, <3>3
  <2> QED BY <2>1, <2>2
<1>2. IsFiniteSet(q)
  BY FS_Subset
<1>3. \A s \in SUBSET q : s \in T
  <2> HIDE DEF T
  <2> QED BY <1>1, <1>2, FiniteInduction
<1> QED BY <1>3

(* The sum of integers is one.                                             *)
LEMMA SumType ==
  ASSUME NEW S, IsFiniteSet(S), NEW f \in [S -> Int]
  PROVE  SumFunction(f) \in Int
<1>1. PICK iter : Adds(iter, f, S) /\ SumFunction(f) = iter[S]
  BY SumIsAdds
<1>2. S \in SUBSET S
  OBVIOUS
<1> QED BY <1>1, <1>2, AnyOrder DEF AnyFirst

(* Changing one value changes the sum by as much.                          *)
LEMMA SumChange ==
  ASSUME NEW S, IsFiniteSet(S), NEW f \in [S -> Int], NEW g \in [S -> Int],
         NEW x \in S, \A y \in S \ {x} : f[y] = g[y]
  PROVE  SumFunction(g) = SumFunction(f) + (g[x] - f[x])
<1>1. PICK iter : Adds(iter, f, S) /\ SumFunction(f) = iter[S]
  BY SumIsAdds
<1>2. PICK jter : Adds(jter, g, S) /\ SumFunction(g) = jter[S]
  BY SumIsAdds
<1>3. S \in SUBSET S /\ S \ {x} \in SUBSET S /\ S \ {x} \in SUBSET (S \cap S)
  OBVIOUS
<1>4. AnyFirst(iter, f, S) /\ AnyFirst(jter, g, S)
  BY <1>1, <1>2, AnyOrder
<1>5. /\ iter[S] = f[x] + iter[S \ {x}] /\ iter[S \ {x}] \in Int
      /\ jter[S] = g[x] + jter[S \ {x}]
  BY <1>3, <1>4 DEF AnyFirst
<1>6. iter[S \ {x}] = jter[S \ {x}]
  BY <1>1, <1>2, <1>3, SameSum
<1>7. f[x] \in Int /\ g[x] \in Int
  OBVIOUS
<1> QED BY <1>1, <1>2, <1>5, <1>6, <1>7

(* The sum of zeros.                                                       *)
LEMMA SumZero ==
  ASSUME NEW S, IsFiniteSet(S), NEW f \in [S -> Int], \A x \in S : f[x] = 0
  PROVE  SumFunction(f) = 0
<1>1. PICK iter : Adds(iter, f, S) /\ SumFunction(f) = iter[S]
  BY SumIsAdds
<1> DEFINE T == {s \in SUBSET S : iter[s] = 0}
<1>2. ASSUME NEW s \in SUBSET S, \A r \in SUBSET s : r # s => r \in T
      PROVE  s \in T
  <2>1. CASE s = {}
    BY <1>1, <2>1 DEF Adds
  <2>2. CASE s # {}
    <3>1. PICK x : x \in s
      BY <2>2
    <3>2. iter[s \ {x}] = 0
      <4>1. s \ {x} \in SUBSET s /\ s \ {x} # s BY <3>1
      <4> QED BY <1>2, <4>1
    <3>3. iter[s] = f[x] + iter[s \ {x}]
      BY <1>1, <3>1, AnyOrder DEF AnyFirst
    <3> QED BY <3>1, <3>2, <3>3
  <2> QED BY <2>1, <2>2
<1>3. \A s \in SUBSET S : s \in T
  <2> HIDE DEF T
  <2> QED BY <1>2, FiniteInduction
<1> QED BY <1>1, <1>3

(* A sum is what any one element contributes, and the sum of the rest.     *)
LEMMA SumSplit ==
  ASSUME NEW S, IsFiniteSet(S), NEW f \in [S -> Int], NEW x \in S
  PROVE  SumFunction(f) = f[x] + SumFunction([y \in S \ {x} |-> f[y]])
<1> DEFINE R == S \ {x}
           g == [y \in R |-> f[y]]
<1>1. PICK iter : Adds(iter, f, S) /\ SumFunction(f) = iter[S]
  BY SumIsAdds
<1>2. IsFiniteSet(R) /\ g \in [R -> Int]
  BY FS_Subset
<1>3. PICK jter : Adds(jter, g, R) /\ SumFunction(g) = jter[R]
  <2> HIDE DEF R, g
  <2> QED BY <1>2, SumIsAdds
<1>4. S \in SUBSET S /\ R \in SUBSET (S \cap R) /\ \A y \in R : f[y] = g[y]
  OBVIOUS
<1>5. iter[S] = f[x] + iter[R]
  <2>1. AnyFirst(iter, f, S)
    BY <1>1, AnyOrder
  <2> QED BY <1>4, <2>1 DEF AnyFirst
<1>6. iter[R] = jter[R]
  <2> HIDE DEF R, g
  <2> QED BY <1>1, <1>2, <1>3, <1>4, SameSum
<1> QED BY <1>1, <1>3, <1>5, <1>6

(* Adding up natural numbers gives one.                                    *)
LEMMA SumNat ==
  ASSUME NEW S, IsFiniteSet(S), NEW f \in [S -> Nat]
  PROVE  SumFunction(f) \in Nat
<1>0. f \in [S -> Int]
  OBVIOUS
<1>1. PICK iter : Adds(iter, f, S) /\ SumFunction(f) = iter[S]
  BY <1>0, SumIsAdds
<1> DEFINE T == {s \in SUBSET S : iter[s] \in Nat}
<1>2. ASSUME NEW s \in SUBSET S, \A r \in SUBSET s : r # s => r \in T
      PROVE  s \in T
  <2>1. CASE s = {}
    BY <1>1, <2>1 DEF Adds
  <2>2. CASE s # {}
    <3>1. PICK x : x \in s
      BY <2>2
    <3>2. iter[s \ {x}] \in Nat
      <4>1. s \ {x} \in SUBSET s /\ s \ {x} # s BY <3>1
      <4> QED BY <1>2, <4>1
    <3>3. iter[s] = f[x] + iter[s \ {x}]
      BY <1>0, <1>1, <3>1, AnyOrder DEF AnyFirst
    <3> QED BY <3>1, <3>2, <3>3
  <2> QED BY <2>1, <2>2
<1>3. \A s \in SUBSET S : s \in T
  <2> HIDE DEF T
  <2> QED BY <1>2, FiniteInduction
<1> QED BY <1>1, <1>3

=============================================================================
