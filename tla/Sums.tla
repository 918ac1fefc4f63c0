-------------------------------- MODULE Sums --------------------------------
(***************************************************************************)
(* Facts about SumFunctionOnSet(f, S), the sum of f[x] over a finite set S *)
(* (community module Functions), for every function and every finite set.  *)
(* They are what the proofs about money (Checks) and stock (Inventory)     *)
(* need of a SELECT SUM: what one row adds, removes or changes.            *)
(*                                                                         *)
(* The sum is a CHOOSE of a recursive function on the subsets of S.  That  *)
(* such a function exists, and the facts below, follow by induction over   *)
(* the subsets of S ordered by strict inclusion; SubsetInduction states it *)
(* for a set of good subsets, so that no operator is a parameter.          *)
(***************************************************************************)
EXTENDS Functions, FiniteSetTheorems, TLAPS

-----------------------------------------------------------------------------
(* Induction, and the recursion behind a sum.                              *)

\* If a subset of S is good as soon as all its strict subsets are, all are good.
LEMMA SubsetInduction ==
  ASSUME NEW S, IsFiniteSet(S), NEW Good,
         \A T \in SUBSET S : (\A U \in SUBSET T : U # T => U \in Good) => T \in Good
  PROVE  \A T \in SUBSET S : T \in Good
<1> DEFINE Bad == {T \in SUBSET S : T \notin Good}
<1>1. SUFFICES ASSUME Bad # {} PROVE FALSE
  OBVIOUS
<1>2. IsWellFoundedOn(StrictSubsetOrdering(S), SUBSET S)
  BY FS_FiniteSubsetsOfFinite, FS_StrictSubsetOrderingWellFounded
<1>3. Bad \subseteq SUBSET S
  OBVIOUS
<1> HIDE DEF Bad
<1>4. PICK T \in Bad : \A U \in Bad : ~(<<U, T>> \in StrictSubsetOrdering(S))
  BY <1>1, <1>2, <1>3, WFMin
<1>5. \A U \in SUBSET T : U # T => <<U, T>> \in StrictSubsetOrdering(S)
  BY <1>3 DEF StrictSubsetOrdering
<1>6. ASSUME NEW U \in SUBSET T, U # T PROVE U \in Good
  <2>1. U \notin Bad
    BY <1>4, <1>5, <1>6
  <2>2. U \in SUBSET S
    BY <1>3
  <2> QED
    BY <2>1, <2>2 DEF Bad
<1> QED
  BY <1>6 DEF Bad

\* The element the recursion takes off a set.
First(s) == CHOOSE x \in s : TRUE

\* A set that is not empty has its first element in it.
LEMMA FirstIsIn == ASSUME NEW s, s # {} PROVE First(s) \in s
  BY DEF First

\* The sum of f over s, given that g has the sums over the smaller sets.
Rec(g, f, s) == IF s = {} THEN 0 ELSE f[First(s)] + g[s \ {First(s)}]

\* g has the sum of f over every subset of S.
Adds(g, f, S) == g = [s \in SUBSET S |-> Rec(g, f, s)]

\* The community operator in these terms.
LEMMA SumUnfolds ==
  ASSUME NEW f, NEW S
  PROVE  SumFunctionOnSet(f, S) = (CHOOSE g : Adds(g, f, S))[S]
  BY Zenon DEF SumFunctionOnSet, FoldFunctionOnSet, MapThenFoldSet, Adds, Rec, First

\* Two functions agree on the subsets of a set.
Agree(g, h, T) == \A s \in SUBSET T : g[s] = h[s]

\* Two functions that add up the same sets agree on them.
LEMMA AdditionsAgree ==
  ASSUME NEW f, NEW S, NEW T, IsFiniteSet(S), T \in SUBSET S,
         NEW g, NEW h, Adds(g, f, S), Adds(h, f, T)
  PROVE  Agree(g, h, T)
<1> DEFINE Good == {s \in SUBSET T : g[s] = h[s]}
<1>1. IsFiniteSet(T)
  BY FS_Subset
<1>2. ASSUME NEW s \in SUBSET T, \A u \in SUBSET s : u # s => u \in Good
      PROVE  s \in Good
  <2>1. g[s] = Rec(g, f, s) /\ h[s] = Rec(h, f, s)
    BY DEF Adds
  <2>2. CASE s = {}
    BY <2>1, <2>2 DEF Rec
  <2>3. CASE s # {}
    <3>1. First(s) \in s
      BY <2>3, FirstIsIn
    <3>2. s \ {First(s)} \in Good
      BY <1>2, <3>1
    <3> QED
      BY <2>1, <2>3, <3>2 DEF Rec
  <2> QED
    BY <2>2, <2>3
<1> HIDE DEF Good
<1>3. \A s \in SUBSET T : s \in Good
  BY <1>1, <1>2, SubsetInduction
<1> QED
  BY <1>3 DEF Good, Agree

\* The function that SumFunctionOnSet chooses.
Adder(f, S) == CHOOSE g : Adds(g, f, S)

\* The functions chosen for a set and for a subset of it agree on the subset.
LEMMA AddersAgree ==
  ASSUME NEW f, NEW S, IsFiniteSet(S), NEW T \in SUBSET S,
         Adds(Adder(f, S), f, S), Adds(Adder(f, T), f, T)
  PROVE  Adder(f, S)[T] = Adder(f, T)[T]
<1>1. Agree(Adder(f, S), Adder(f, T), T)
  BY AdditionsAgree
<1> QED
  BY <1>1 DEF Agree

\* A function that adds up the subsets of a finite set exists, so it is chosen.
LEMMA AddersExist ==
  ASSUME NEW f, NEW S, IsFiniteSet(S)
  PROVE  Adds(Adder(f, S), f, S)
<1> DEFINE Good == {T \in SUBSET S : Adds(Adder(f, T), f, T)}
<1>1. ASSUME NEW T \in SUBSET S, \A U \in SUBSET T : U # T => U \in Good
      PROVE  T \in Good
  <2> DEFINE val(U) == Adder(f, U)[U]
             G == [s \in SUBSET T |-> IF s = {} THEN 0 ELSE f[First(s)] + val(s \ {First(s)})]
  <2>1. ASSUME NEW U \in SUBSET T, U # T PROVE Adds(Adder(f, U), f, U) /\ IsFiniteSet(U)
    BY <1>1, <2>1, FS_Subset
  <2>2. ASSUME NEW U \in SUBSET T, U # T PROVE G[U] = val(U)
    <3>1. val(U) = Rec(Adder(f, U), f, U)
      BY <2>1, <2>2 DEF Adds
    <3>2. CASE U = {}
      BY <3>1, <3>2 DEF Rec
    <3>3. CASE U # {}
      <4> DEFINE V == U \ {First(U)}
      <4>1. V \in SUBSET U /\ V \in SUBSET T /\ V # T
        BY <3>3, FirstIsIn
      <4>2. Adder(f, U)[V] = Adder(f, V)[V]
        BY <2>1, <2>2, <4>1, AddersAgree
      <4> QED
        BY <3>1, <3>3, <4>2 DEF Rec
    <3> QED
      BY <3>2, <3>3
  <2>3. ASSUME NEW s \in SUBSET T PROVE G[s] = Rec(G, f, s)
    <3>1. CASE s = {}
      BY <3>1 DEF Rec
    <3>2. CASE s # {}
      <4> DEFINE V == s \ {First(s)}
      <4>1. V \in SUBSET T /\ V # T
        BY <3>2, FirstIsIn
      <4>2. G[V] = val(V)
        BY <2>2, <4>1
      <4> QED
        BY <3>2, <4>2 DEF Rec
    <3> QED
      BY <3>1, <3>2
  <2>4. Adds(G, f, T)
    BY <2>3 DEF Adds
  <2> HIDE DEF G
  <2>5. Adds(Adder(f, T), f, T)
    BY <2>4 DEF Adder
  <2> QED
    BY <2>5
<1> HIDE DEF Good
<1>2. S \in Good
  BY <1>1, SubsetInduction
<1> QED
  BY <1>2 DEF Good

\* The sum over S is what the chosen function has for S.
LEMMA SumIsAdder == ASSUME NEW f, NEW S PROVE SumFunctionOnSet(f, S) = Adder(f, S)[S]
  BY SumUnfolds DEF Adder

-----------------------------------------------------------------------------
(* What a sum is.                                                          *)

\* A sum over no rows is zero (COALESCE(SUM(..), 0)).
THEOREM SumEmpty == ASSUME NEW f PROVE SumFunctionOnSet(f, {}) = 0
<1>1. Adds(Adder(f, {}), f, {})
  BY AddersExist, FS_EmptySet
<1> QED
  BY <1>1, SumIsAdder DEF Adds, Rec

\* A sum is its first element and the sum of the rest.
LEMMA SumFirst ==
  ASSUME NEW f, NEW S, IsFiniteSet(S), S # {}
  PROVE  SumFunctionOnSet(f, S) = f[First(S)] + SumFunctionOnSet(f, S \ {First(S)})
<1> DEFINE V == S \ {First(S)}
<1>1. Adds(Adder(f, S), f, S) /\ IsFiniteSet(V) /\ Adds(Adder(f, V), f, V)
  BY AddersExist, FS_Subset
<1>2. Adder(f, S)[S] = f[First(S)] + Adder(f, S)[V]
  BY <1>1 DEF Adds, Rec
<1>3. Adder(f, S)[V] = Adder(f, V)[V]
  BY <1>1, AddersAgree
<1> QED
  BY <1>2, <1>3, SumIsAdder

\* A sum of integers is an integer.
THEOREM SumInt ==
  ASSUME NEW f, NEW S, IsFiniteSet(S), \A x \in S : f[x] \in Int
  PROVE  SumFunctionOnSet(f, S) \in Int
<1> DEFINE Good == {T \in SUBSET S : SumFunctionOnSet(f, T) \in Int}
<1>1. ASSUME NEW T \in SUBSET S, \A U \in SUBSET T : U # T => U \in Good
      PROVE  T \in Good
  <2>1. CASE T = {}
    BY <2>1, SumEmpty
  <2>2. CASE T # {}
    <3> DEFINE x == First(T)
    <3>1. x \in T /\ IsFiniteSet(T)
      BY <2>2, FirstIsIn, FS_Subset
    <3>2. T \ {x} \in Good
      BY <1>1, <3>1
    <3>3. SumFunctionOnSet(f, T) = f[x] + SumFunctionOnSet(f, T \ {x})
      BY <2>2, <3>1, SumFirst
    <3> HIDE DEF x
    <3> QED
      BY <3>1, <3>2, <3>3
  <2> QED
    BY <2>1, <2>2
<1> HIDE DEF Good
<1>2. S \in Good
  BY <1>1, SubsetInduction
<1> QED
  BY <1>2 DEF Good

\* Any element can be taken off first: the order of addition does not matter.
THEOREM SumElement ==
  ASSUME NEW f, NEW S, IsFiniteSet(S), \A x \in S : f[x] \in Int, NEW e \in S
  PROVE  SumFunctionOnSet(f, S) = f[e] + SumFunctionOnSet(f, S \ {e})
<1> DEFINE Good == {T \in SUBSET S :
                      \A x \in T : SumFunctionOnSet(f, T) = f[x] + SumFunctionOnSet(f, T \ {x})}
<1>1. ASSUME NEW T \in SUBSET S, \A U \in SUBSET T : U # T => U \in Good,
             NEW x \in T
      PROVE  SumFunctionOnSet(f, T) = f[x] + SumFunctionOnSet(f, T \ {x})
  <2> DEFINE y == First(T)
             Rest == T \ {x, y}
  <2>1. y \in T /\ IsFiniteSet(T)
    BY FirstIsIn, FS_Subset
  <2>2. SumFunctionOnSet(f, T) = f[y] + SumFunctionOnSet(f, T \ {y})
    BY <2>1, SumFirst
  <2> HIDE DEF y
  <2>3. CASE x = y
    BY <2>2, <2>3
  <2>4. CASE x # y
    <3>1. T \ {x} \in Good /\ T \ {y} \in Good
      BY <1>1, <2>1
    <3>2. /\ y \in T \ {x} /\ x \in T \ {y}
          /\ (T \ {x}) \ {y} = Rest /\ (T \ {y}) \ {x} = Rest
      BY <2>1, <2>4
    <3> HIDE DEF Rest
    <3>3. SumFunctionOnSet(f, T \ {x}) = f[y] + SumFunctionOnSet(f, Rest)
      BY <3>1, <3>2
    <3>4. SumFunctionOnSet(f, T \ {y}) = f[x] + SumFunctionOnSet(f, Rest)
      BY <3>1, <3>2
    <3>5. IsFiniteSet(Rest) /\ \A z \in Rest : f[z] \in Int
      BY <2>1, FS_Subset DEF Rest
    <3>6. SumFunctionOnSet(f, Rest) \in Int
      BY <3>5, SumInt
    <3>7. f[x] \in Int /\ f[y] \in Int
      BY <2>1
    <3> QED
      BY <2>2, <3>3, <3>4, <3>6, <3>7
  <2> QED
    BY <2>3, <2>4
<1>2. ASSUME NEW T \in SUBSET S, \A U \in SUBSET T : U # T => U \in Good
      PROVE  T \in Good
  BY <1>1, <1>2
<1> HIDE DEF Good
<1>3. S \in Good
  BY <1>2, SubsetInduction
<1> QED
  BY <1>3 DEF Good

\* A new element adds its value.
THEOREM SumAddElement ==
  ASSUME NEW f, NEW S, IsFiniteSet(S), NEW e, e \notin S,
         \A x \in S \cup {e} : f[x] \in Int
  PROVE  SumFunctionOnSet(f, S \cup {e}) = f[e] + SumFunctionOnSet(f, S)
<1>1. IsFiniteSet(S \cup {e}) /\ e \in S \cup {e} /\ (S \cup {e}) \ {e} = S
  BY FS_AddElement
<1> QED
  BY <1>1, SumElement

\* Two functions that agree on a set have the same sum over it.
THEOREM SumEqual ==
  ASSUME NEW f, NEW g, NEW S, IsFiniteSet(S), \A x \in S : f[x] = g[x]
  PROVE  SumFunctionOnSet(f, S) = SumFunctionOnSet(g, S)
<1> DEFINE Good == {T \in SUBSET S : SumFunctionOnSet(f, T) = SumFunctionOnSet(g, T)}
<1>1. ASSUME NEW T \in SUBSET S, \A U \in SUBSET T : U # T => U \in Good
      PROVE  T \in Good
  <2>1. CASE T = {}
    BY <2>1, SumEmpty
  <2>2. CASE T # {}
    <3> DEFINE x == First(T)
    <3>1. x \in T /\ IsFiniteSet(T)
      BY <2>2, FirstIsIn, FS_Subset
    <3>2. T \ {x} \in Good
      BY <1>1, <3>1
    <3>3. /\ SumFunctionOnSet(f, T) = f[x] + SumFunctionOnSet(f, T \ {x})
          /\ SumFunctionOnSet(g, T) = g[x] + SumFunctionOnSet(g, T \ {x})
      BY <2>2, <3>1, SumFirst
    <3> HIDE DEF x
    <3>4. f[x] = g[x]
      BY <3>1
    <3>5. SumFunctionOnSet(f, T \ {x}) = SumFunctionOnSet(g, T \ {x})
      BY <3>2
    <3> QED
      BY <3>3, <3>4, <3>5
  <2> QED
    BY <2>1, <2>2
<1> HIDE DEF Good
<1>2. S \in Good
  BY <1>1, SubsetInduction
<1> QED
  BY <1>2 DEF Good

\* A sum of naturals is a natural.
THEOREM SumNat ==
  ASSUME NEW f, NEW S, IsFiniteSet(S), \A x \in S : f[x] \in Nat
  PROVE  SumFunctionOnSet(f, S) \in Nat
<1> DEFINE Good == {T \in SUBSET S : SumFunctionOnSet(f, T) \in Nat}
<1>1. ASSUME NEW T \in SUBSET S, \A U \in SUBSET T : U # T => U \in Good
      PROVE  T \in Good
  <2>1. CASE T = {}
    BY <2>1, SumEmpty
  <2>2. CASE T # {}
    <3> DEFINE x == First(T)
    <3>1. x \in T /\ IsFiniteSet(T)
      BY <2>2, FirstIsIn, FS_Subset
    <3>2. T \ {x} \in Good
      BY <1>1, <3>1
    <3>3. SumFunctionOnSet(f, T) = f[x] + SumFunctionOnSet(f, T \ {x})
      BY <2>2, <3>1, SumFirst
    <3> HIDE DEF x
    <3> QED
      BY <3>1, <3>2, <3>3
  <2> QED
    BY <2>1, <2>2
<1> HIDE DEF Good
<1>2. S \in Good
  BY <1>1, SubsetInduction
<1> QED
  BY <1>2 DEF Good

\* The sum over two disjoint sets is the sum of their sums.
THEOREM SumUnion ==
  ASSUME NEW f, NEW S, IsFiniteSet(S), NEW T, IsFiniteSet(T), S \cap T = {},
         \A x \in S \cup T : f[x] \in Int
  PROVE  SumFunctionOnSet(f, S \cup T) = SumFunctionOnSet(f, S) + SumFunctionOnSet(f, T)
<1> DEFINE Good == {U \in SUBSET T :
       SumFunctionOnSet(f, S \cup U) = SumFunctionOnSet(f, S) + SumFunctionOnSet(f, U)}
<1>0. SumFunctionOnSet(f, S) \in Int
  BY SumInt
<1>1. ASSUME NEW U \in SUBSET T, \A V \in SUBSET U : V # U => V \in Good
      PROVE  U \in Good
  <2>1. CASE U = {}
    BY <1>0, <2>1, SumEmpty
  <2>2. CASE U # {}
    <3>1. PICK x \in U : TRUE
      BY <2>2
    <3> DEFINE V == U \ {x}
    <3>2. /\ V \in SUBSET U /\ V # U
          /\ IsFiniteSet(V) /\ IsFiniteSet(U) /\ x \notin S \cup V
          /\ V \cup {x} = U /\ (S \cup V) \cup {x} = S \cup U
          /\ \A y \in U : f[y] \in Int
      BY FS_Subset
    <3> HIDE DEF V
    <3>3. SumFunctionOnSet(f, S \cup V) = SumFunctionOnSet(f, S) + SumFunctionOnSet(f, V)
      BY <1>1, <3>2
    <3>4. SumFunctionOnSet(f, U) = f[x] + SumFunctionOnSet(f, V)
      BY <3>2, SumAddElement
    <3>5. IsFiniteSet(S \cup V) /\ \A y \in (S \cup V) \cup {x} : f[y] \in Int
      BY <3>2, FS_Union
    <3>6. SumFunctionOnSet(f, S \cup U) = f[x] + SumFunctionOnSet(f, S \cup V)
      <4>1. SumFunctionOnSet(f, (S \cup V) \cup {x}) = f[x] + SumFunctionOnSet(f, S \cup V)
        BY <3>2, <3>5, SumAddElement
      <4> QED
        BY <3>2, <4>1
    <3>7. SumFunctionOnSet(f, V) \in Int /\ f[x] \in Int
      BY <3>2, <3>5, SumInt
    <3>8. SumFunctionOnSet(f, S \cup U) = SumFunctionOnSet(f, S) + SumFunctionOnSet(f, U)
      BY <1>0, <3>3, <3>4, <3>6, <3>7
    <3> QED
      BY <3>8
  <2> QED
    BY <2>1, <2>2
<1> HIDE DEF Good
<1>2. T \in Good
  BY <1>1, SubsetInduction
<1> QED
  BY <1>2 DEF Good

\* A part of a set of naturals sums to no more than the whole.
THEOREM SumSubset ==
  ASSUME NEW f, NEW S, IsFiniteSet(S), NEW T \in SUBSET S, \A x \in S : f[x] \in Nat
  PROVE  SumFunctionOnSet(f, T) <= SumFunctionOnSet(f, S)
<1> DEFINE R == S \ T
<1>1. /\ IsFiniteSet(T) /\ IsFiniteSet(R) /\ T \cap R = {} /\ T \cup R = S
      /\ \A x \in T \cup R : f[x] \in Nat /\ f[x] \in Int
  BY FS_Subset
<1> HIDE DEF R
<1>2. SumFunctionOnSet(f, T \cup R) = SumFunctionOnSet(f, T) + SumFunctionOnSet(f, R)
  BY <1>1, SumUnion
<1>3. SumFunctionOnSet(f, T) \in Nat /\ SumFunctionOnSet(f, R) \in Nat
  BY <1>1, SumNat
<1>4. SumFunctionOnSet(f, S) = SumFunctionOnSet(f, T) + SumFunctionOnSet(f, R)
  BY <1>1, <1>2
<1> QED
  BY <1>3, <1>4

\* Positive amounts that sum to zero are none at all.
THEOREM SumZero ==
  ASSUME NEW f, NEW S, IsFiniteSet(S), \A x \in S : f[x] \in Nat \ {0},
         SumFunctionOnSet(f, S) = 0
  PROVE  S = {}
<1> SUFFICES ASSUME NEW e \in S PROVE FALSE
  OBVIOUS
<1>1. IsFiniteSet(S \ {e}) /\ \A x \in S : f[x] \in Nat /\ f[x] \in Int
  BY FS_Subset
<1>2. SumFunctionOnSet(f, S \ {e}) \in Nat
  BY <1>1, SumNat
<1>3. SumFunctionOnSet(f, S) = f[e] + SumFunctionOnSet(f, S \ {e})
  BY <1>1, SumElement
<1> QED
  BY <1>2, <1>3

\* Changing the value of one element changes the sum by the difference.
THEOREM SumChange ==
  ASSUME NEW f, NEW g, NEW S, IsFiniteSet(S), NEW e \in S,
         \A x \in S : f[x] \in Int /\ g[x] \in Int,
         \A x \in S : x # e => g[x] = f[x]
  PROVE  SumFunctionOnSet(g, S) = SumFunctionOnSet(f, S) - f[e] + g[e]
<1> DEFINE R == S \ {e}
<1>1. IsFiniteSet(R) /\ \A x \in R : f[x] = g[x] /\ f[x] \in Int
  BY FS_Subset
<1>2. /\ SumFunctionOnSet(f, S) = f[e] + SumFunctionOnSet(f, R)
      /\ SumFunctionOnSet(g, S) = g[e] + SumFunctionOnSet(g, R)
  BY SumElement
<1> HIDE DEF R
<1>3. SumFunctionOnSet(f, R) = SumFunctionOnSet(g, R)
  BY <1>1, SumEqual
<1>4. SumFunctionOnSet(f, R) \in Int
  BY <1>1, SumInt
<1> QED
  BY <1>2, <1>3, <1>4
=============================================================================
